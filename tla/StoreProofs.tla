---------------------------- MODULE StoreProofs -----------------------------
(***************************************************************************)
(* What is kept: files and what is offloaded to them, memory and its       *)
(* consolidation, the rows several processes append, and the task board.   *)
(* A section is one component's argument, for every value of its constants.*)
(***************************************************************************)
EXTENDS Files, Memory, Stores, MemoryTasks, Positions, FiniteSetTheorems,
SequenceTheorems, TLAPS

-----------------------------------------------------------------------------
(***************************************************************************)
(* Files: what a reference stands for was put there, and an edit under the *)
(* lock of an executor keeps what others put there.                        *)
(***************************************************************************)

(* The calls in progress, each of them in a thread of its own.             *)
CallKinds == {"read", "write", "edit", "delete", "offload"}
IsJob(j) ==
  /\ DOMAIN j = {"no", "by", "call", "phase", "seen"}
  /\ j.no \in 1..fileCalls /\ j.by \in FileUsers /\ j.phase \in {"new", "read"}
  /\ j.call.path \in Paths \ Inline /\ j.call.kind \in CallKinds
  /\ j.call.kind = "offload" => j.call.path \in OffloadPaths /\ j.call.text \in Texts
  /\ j.phase = "read" => Apart(j.call)
IsResult(r) ==
  /\ DOMAIN r = {"path", "text", "no"}
  /\ r.path \in OffloadPaths \cup {Missing} /\ r.text \in Texts \cup {Missing}
FileTypes ==
  /\ fileCalls \in Nat /\ calling \in [FileUsers -> Nat]
  /\ DOMAIN results = FileUsers /\ \A s \in FileUsers : IsResult(results[s])
  /\ DOMAIN files = Paths /\ DOMAIN written = OffloadPaths
  /\ \A p \in OffloadPaths : \E S : written[p] \in Seq(S)
  /\ \A j \in jobs : IsJob(j)

(* An offload that a session awaits is that of the result it holds.        *)
AwaitedIsHeld ==
  \A j \in jobs : j.call.kind = "offload" /\ j.no = calling[j.by] =>
    results[j.by].path = j.call.path /\ results[j.by].no = j.no
(* A result's call has put its text in the file.                           *)
Stands(r) ==
  r.path \notin Ephemeral =>
    \E i \in DOMAIN written[r.path] : written[r.path][i].no = r.no /\ written[r.path][i].text = r.text
ResultsStand ==
  /\ \A s \in FileUsers : results[s].text # Missing =>
       results[s].path \in OffloadPaths /\ Stands(results[s])
  /\ \A r \in refs : r.path \in OffloadPaths /\ Stands(r)
(* What was put last is there.                                             *)
LastIsThere ==
  \A p \in OffloadPaths \ Ephemeral :
    Len(written[p]) # 0 => files[p] = written[p][Len(written[p])].text
FilesInv == FileTypes /\ AwaitedIsHeld /\ ResultsStand /\ LastIsThere

(* A request names a path of the model.                                    *)
LEMMA RequestsTyped ==
  ASSUME NEW c \in Requests
  PROVE  c.path \in Paths /\ c.kind \in {"read", "write", "edit", "delete"}
<1>1. CASE \E p \in Paths : c = Call("read", p, Missing, Missing, Missing, FALSE)
  BY <1>1 DEF Call
<1>2. ASSUME NEW p \in Paths, c \in Changes(p)
      PROVE  c.path = p /\ c.kind \in {"write", "edit", "delete"}
  BY <1>2 DEF Call, Changes
<1>3. (\E p \in Paths : c = Call("read", p, Missing, Missing, Missing, FALSE))
      \/ \E p \in Paths : c \in Changes(p)
  BY DEF Requests
<1> QED
  BY <1>1, <1>2, <1>3

(* What a session holds stands.                                            *)
LEMMA HeldStands ==
  ASSUME FilesInv, NEW s \in FileUsers, NEW x, x = results[s], x.text # Missing
  PROVE  x.path \in OffloadPaths /\ Stands(x)
<1>1. results[s].path \in OffloadPaths /\ Stands(results[s])
  BY DEF FilesInv, ResultsStand
<1> QED
  BY <1>1

(* What is put in a file joins what was put there.                         *)
LEMMA PutAdds ==
  ASSUME FileTypes, LastIsThere, NEW no, NEW c, NEW text, c.path \in Paths, PutText(no, c, text)
  PROVE  /\ DOMAIN files' = Paths /\ DOMAIN written' = OffloadPaths /\ LastIsThere'
         /\ \A p \in Paths : p # c.path => files'[p] = files[p]
         /\ files'[c.path] = text
         /\ \A p \in OffloadPaths : \E S : written'[p] \in Seq(S)
         /\ \A r : r.path \in OffloadPaths /\ Stands(r) => Stands(r)'
         /\ \A r : r.path = c.path /\ c.path \in OffloadPaths /\ c.kind = "offload"
                     /\ r.no = no /\ r.text = text => Stands(r)'
<1>1. /\ DOMAIN files' = Paths /\ files'[c.path] = text
      /\ \A p \in Paths : p # c.path => files'[p] = files[p]
  BY DEF PutText, FileTypes
<1> DEFINE e == [no |-> no, kind |-> c.kind, text |-> text]
<1>2. e.no = no /\ e.text = text
  OBVIOUS
<1>3. /\ DOMAIN written' = OffloadPaths
      /\ \A p \in OffloadPaths :
           written'[p] = IF p = c.path /\ (c.kind = "offload" \/ text # files[p])
                           THEN Append(written[p], e) ELSE written[p]
  BY DEF PutText
<1> HIDE DEF e
<1>4. ASSUME NEW p \in OffloadPaths, written'[p] = Append(written[p], e)
      PROVE  /\ \E S : written'[p] \in Seq(S)
             /\ Len(written[p]) \in Nat /\ Len(written'[p]) = Len(written[p]) + 1
             /\ DOMAIN written[p] = 1..Len(written[p]) /\ DOMAIN written'[p] = 1..Len(written'[p])
             /\ written'[p][Len(written'[p])] = e
             /\ \A i \in DOMAIN written[p] : i \in DOMAIN written'[p] /\ written'[p][i] = written[p][i]
  <2>1. PICK S : written[p] \in Seq(S)
    BY DEF FileTypes
  <2>2. PICK T : T = S \cup {e}
    OBVIOUS
  <2>3. PICK s \in Seq(T) : s = written[p]
    BY <2>1, <2>2
  <2>4. e \in T
    BY <2>2
  <2>5. Append(s, e) \in Seq(T) /\ Len(Append(s, e)) = Len(s) + 1
    BY <2>4, AppendProperties
  <2>6. Append(s, e)[Len(s) + 1] = e /\ \A i \in 1..Len(s) : Append(s, e)[i] = s[i]
    BY <2>4, AppendProperties
  <2>7. PICK z \in Seq(T) : z = Append(s, e)
    BY <2>5
  <2>8. Len(s) \in Nat /\ DOMAIN s = 1..Len(s) /\ DOMAIN z = 1..Len(z) /\ Len(z) = Len(s) + 1
    BY <2>5, <2>7
  <2> QED
    BY <1>4, <2>3, <2>6, <2>7, <2>8
<1>5. \A p \in OffloadPaths : \E S : written'[p] \in Seq(S)
  BY <1>3, <1>4 DEF FileTypes
<1>6. \A r : r.path \in OffloadPaths /\ Stands(r) => Stands(r)'
  BY <1>3, <1>4 DEF Stands
<1>7. ASSUME NEW r, r.path = c.path, c.path \in OffloadPaths, c.kind = "offload",
             r.no = no, r.text = text
      PROVE  Stands(r)'
  <2>1. written'[r.path] = Append(written[r.path], e)
    BY <1>3, <1>7
  <2>2. /\ Len(written'[r.path]) \in DOMAIN written'[r.path]
        /\ written'[r.path][Len(written'[r.path])] = e
    BY <1>4, <1>7, <2>1
  <2> QED
    BY <1>2, <1>7, <2>2 DEF Stands
<1>8. LastIsThere'
  <2> SUFFICES ASSUME NEW p \in OffloadPaths \ Ephemeral, Len(written'[p]) # 0
               PROVE  files'[p] = written'[p][Len(written'[p])].text
    BY DEF LastIsThere
  <2>1. p \in Paths
    BY DEF Paths
  <2>2. CASE p = c.path /\ (c.kind = "offload" \/ text # files[p])
    BY <1>1, <1>2, <1>3, <1>4, <2>2
  <2>3. CASE ~(p = c.path /\ (c.kind = "offload" \/ text # files[p]))
    <3>1. written'[p] = written[p]
      BY <1>3, <2>3
    <3>2. files'[p] = files[p]
      BY <1>1, <2>1, <2>3
    <3> QED
      BY <3>1, <3>2 DEF LastIsThere
  <2> QED
    BY <2>2, <2>3
<1> QED
  BY <1>1, <1>3, <1>5, <1>6, <1>7, <1>8

(* A call is submitted: done at once, or a new job with a number of its    *)
(* own, which the session awaits.                                          *)
LEMMA Submitted ==
  ASSUME FilesInv, NEW s \in FileUsers, NEW c, Submit(s, c), c.path \in Paths,
         c.kind \in CallKinds, c.kind = "offload" => c.path \in OffloadPaths /\ c.text \in Texts,
         DOMAIN results' = FileUsers, \A u \in FileUsers : IsResult(results'[u])
  PROVE  /\ FileTypes' /\ LastIsThere' /\ refs' = refs /\ calling[s] = 0
         /\ \A u \in FileUsers : u # s => calling'[u] = calling[u]
         /\ \A j \in jobs' : j \in jobs \/ (j.call = c /\ j.by = s /\ j.no = fileCalls + 1)
         /\ \A j \in jobs : j.no # calling'[s]
         /\ \A r : r.path \in OffloadPaths /\ Stands(r) => Stands(r)'
<1>1. fileCalls' = fileCalls + 1 /\ fileCalls \in Nat /\ calling[s] = 0 /\ refs' = refs
  BY DEF Submit, FilesInv, FileTypes
<1>2. \A j \in jobs : j.no \in 1..fileCalls /\ j.no # fileCalls + 1 /\ j.no # 0
  BY <1>1 DEF FilesInv, FileTypes, IsJob
<1>3. \A j \in jobs : IsJob(j)'
  <2> SUFFICES ASSUME NEW j \in jobs PROVE IsJob(j)'
    OBVIOUS
  <2>1. IsJob(j) /\ j.no \in 1..fileCalls'
    BY <1>1 DEF FilesInv, FileTypes, IsJob
  <2> QED
    BY <2>1 DEF IsJob
<1>4. \A u \in FileUsers : IsResult(results[u])'
  BY DEF IsResult
<1>5. CASE /\ c.path \in Inline
           /\ PutText(fileCalls', c, After(files[c.path], c))
           /\ UNCHANGED <<jobs, calling>>
  <2>1. /\ DOMAIN files' = Paths /\ DOMAIN written' = OffloadPaths /\ LastIsThere'
        /\ \A p \in OffloadPaths : \E S : written'[p] \in Seq(S)
        /\ \A r : r.path \in OffloadPaths /\ Stands(r) => Stands(r)'
    <3>1. FileTypes /\ LastIsThere
      BY DEF FilesInv
    <3>2. PICK no, text : PutText(no, c, text)
      BY <1>5
    <3> QED
      BY <3>1, <3>2, PutAdds
  <2>2. FileTypes'
    BY <1>1, <1>3, <1>4, <1>5, <2>1 DEF FilesInv, FileTypes
  <2>3. \A j \in jobs : j.no # calling'[s]
    BY <1>1, <1>2, <1>5
  <2> QED
    BY <1>1, <1>5, <2>1, <2>2, <2>3
<1>6. CASE /\ c.path \notin Inline
           /\ jobs' = jobs \cup {[no |-> fileCalls', by |-> s, call |-> c,
                                  phase |-> "new", seen |-> Missing]}
           /\ calling' = [calling EXCEPT ![s] = fileCalls']
           /\ UNCHANGED <<files, written>>
  <2>1. PICK new :
          new = [no |-> fileCalls', by |-> s, call |-> c, phase |-> "new", seen |-> Missing]
    OBVIOUS
  <2>2. /\ new.no = fileCalls + 1 /\ new.by = s /\ new.call = c /\ new.phase = "new"
        /\ DOMAIN new = {"no", "by", "call", "phase", "seen"}
    BY <1>1, <2>1
  <2>3. jobs' = jobs \cup {new}
    BY <1>6, <2>1
  <2>4. IsJob(new)'
    <3>1. new.no \in 1..fileCalls'
      BY <1>1, <2>2
    <3> QED
      BY <1>6, <2>2, <3>1 DEF IsJob
  <2>5. calling'[s] = fileCalls + 1 /\ calling' \in [FileUsers -> Nat]
        /\ \A u \in FileUsers : u # s => calling'[u] = calling[u]
    BY <1>1, <1>6 DEF FilesInv, FileTypes
  <2>6. \A j \in jobs' : IsJob(j)'
    BY <1>3, <2>3, <2>4
  <2>7. FileTypes'
    BY <1>1, <1>4, <1>6, <2>5, <2>6 DEF FilesInv, FileTypes
  <2>8. LastIsThere' /\ \A r : r.path \in OffloadPaths /\ Stands(r) => Stands(r)'
    BY <1>6 DEF FilesInv, LastIsThere, Stands
  <2> QED
    BY <1>1, <1>2, <2>2, <2>3, <2>5, <2>7, <2>8
<1> QED
  BY <1>5, <1>6 DEF Submit

(* A call of a tool keeps the invariant, whether it reads, edits, writes   *)
(* or queues a job.                                                        *)
LEMMA ToolCalled ==
  ASSUME FilesInv, NEW s \in FileUsers, NEW c \in Requests, CallTool(s, c)
  PROVE  FilesInv'
<1>1. Submit(s, c) /\ results' = results
  BY DEF CallTool
<1>2. /\ c.path \in Paths /\ c.kind \in CallKinds /\ c.kind # "offload"
      /\ DOMAIN results' = FileUsers /\ \A u \in FileUsers : IsResult(results'[u])
  BY <1>1, RequestsTyped DEF CallKinds, FilesInv, FileTypes
<1>3. /\ FileTypes' /\ LastIsThere' /\ refs' = refs /\ calling[s] = 0
      /\ \A u \in FileUsers : u # s => calling'[u] = calling[u]
      /\ \A j \in jobs' : j \in jobs \/ j.call = c
      /\ \A j \in jobs : j.no # calling'[s]
      /\ \A r : r.path \in OffloadPaths /\ Stands(r) => Stands(r)'
  BY <1>1, <1>2, Submitted
<1>4. ResultsStand'
  BY <1>1, <1>3 DEF FilesInv, ResultsStand
<1>5. AwaitedIsHeld'
  <2> SUFFICES ASSUME NEW j \in jobs', j.call.kind = "offload", j.no = calling'[j.by]
               PROVE  results[j.by].path = j.call.path /\ results[j.by].no = j.no
    BY <1>1 DEF AwaitedIsHeld
  <2>1. j \in jobs /\ j.by # s /\ j.by \in FileUsers
    BY <1>2, <1>3 DEF FilesInv, FileTypes, IsJob
  <2> QED
    BY <1>3, <2>1 DEF FilesInv, AwaitedIsHeld
<1> QED
  BY <1>3, <1>4, <1>5 DEF FilesInv

(* A result is offloaded: nothing stands for it until its write is done.   *)
LEMMA Offloaded ==
  ASSUME FilesInv, NEW s \in FileUsers, NEW p \in OffloadPaths, NEW t \in Texts, Offload(s, p, t)
  PROVE  FilesInv'
<1> DEFINE c == Call("offload", p, t, Missing, Missing, FALSE)
           text == IF p \in Inline THEN t ELSE Missing
           r == [path |-> p, text |-> text, no |-> fileCalls + 1]
<1>1. c.kind = "offload" /\ c.path = p /\ c.text = t
  BY DEF Call
<1>2. /\ Submit(s, c) /\ results' = [results EXCEPT ![s] = r]
      /\ text \in Texts \cup {Missing} /\ (p \notin Inline => text = Missing)
  BY DEF Offload
<1>3. IsResult(r) /\ r.path = p /\ r.text = text /\ r.no = fileCalls + 1
  BY <1>2 DEF IsResult
<1> HIDE DEF c, text, r
<1>4. /\ DOMAIN results' = FileUsers /\ results'[s] = r
      /\ \A u \in FileUsers : u # s => results'[u] = results[u]
  BY <1>2 DEF FilesInv, FileTypes
<1>5. \A u \in FileUsers : IsResult(results'[u])
  BY <1>3, <1>4 DEF FilesInv, FileTypes
<1>6. c.path \in Paths /\ c.kind \in CallKinds /\ c.path \in OffloadPaths /\ c.text \in Texts
  BY <1>1 DEF CallKinds, Paths
<1>7. /\ FileTypes' /\ LastIsThere' /\ refs' = refs /\ calling[s] = 0
      /\ \A u \in FileUsers : u # s => calling'[u] = calling[u]
      /\ \A j \in jobs' : j \in jobs \/ (j.call = c /\ j.by = s /\ j.no = fileCalls + 1)
      /\ \A j \in jobs : j.no # calling'[s]
      /\ \A x : x.path \in OffloadPaths /\ Stands(x) => Stands(x)'
  BY <1>2, <1>4, <1>5, <1>6, Submitted
<1>8. ResultsStand'
  <2>1. ASSUME NEW u \in FileUsers, results'[u].text # Missing
        PROVE  results'[u].path \in OffloadPaths /\ Stands(results[u])'
    <3>1. CASE u = s
      <4>1. results'[u] = r /\ p \in Inline
        BY <1>2, <1>3, <1>4, <2>1, <3>1
      <4>2. r.path \in Ephemeral
        BY <1>3, <4>1, FilesAssumption DEF FilesAssumption, Inline
      <4>3. results'[u].path \in Ephemeral
        BY <4>1, <4>2
      <4>4. Stands(results[u])'
        BY <4>3 DEF Stands
      <4> QED
        BY <1>3, <4>1, <4>4
    <3>2. CASE u # s
      <4>1. PICK x : x = results[u] /\ x = results'[u]
        BY <1>4, <3>2
      <4>2. x.path \in OffloadPaths /\ Stands(x)
        BY <2>1, <4>1, HeldStands
      <4>3. Stands(x)'
        BY <1>7, <4>2
      <4> QED
        BY <4>1, <4>2, <4>3 DEF Stands
    <3> QED
      BY <3>1, <3>2
  <2>2. \A x \in refs' : x.path \in OffloadPaths /\ Stands(x)'
    BY <1>7 DEF FilesInv, ResultsStand
  <2> QED
    BY <2>1, <2>2 DEF ResultsStand
<1>9. AwaitedIsHeld'
  <2> SUFFICES ASSUME NEW j \in jobs', j.call.kind = "offload", j.no = calling'[j.by]
               PROVE  results'[j.by].path = j.call.path /\ results'[j.by].no = j.no
    BY DEF AwaitedIsHeld
  <2>1. CASE j \in jobs
    <3>1. j.by # s /\ j.by \in FileUsers
      BY <1>7, <2>1 DEF FilesInv, FileTypes, IsJob
    <3> QED
      BY <1>4, <1>7, <2>1, <3>1 DEF FilesInv, AwaitedIsHeld
  <2>2. CASE j.call = c /\ j.by = s /\ j.no = fileCalls + 1
    BY <1>1, <1>3, <1>4, <2>2
  <2> QED
    BY <1>7, <2>1, <2>2
<1> QED
  BY <1>7, <1>8, <1>9 DEF FilesInv

(* The result enters the history with a reference to what stands.          *)
LEMMA ResultAppended ==
  ASSUME FilesInv, NEW s \in FileUsers, AppendResult(s)
  PROVE  FilesInv'
<1>1. /\ calling[s] = 0 /\ results' = [results EXCEPT ![s] = NoResult]
      /\ UNCHANGED <<files, written, jobs, calling, tracker, fileCalls>>
      /\ refs' = refs \/ (results[s].text # Missing /\ refs' = refs \cup {results[s]})
  BY DEF AppendResult
<1>2. /\ DOMAIN results' = FileUsers /\ results'[s] = NoResult
      /\ \A u \in FileUsers : u # s => results'[u] = results[u]
  BY <1>1 DEF FilesInv, FileTypes
<1>3. IsResult(NoResult)
  BY DEF IsResult, NoResult
<1>4. FileTypes'
  BY <1>1, <1>2, <1>3 DEF FilesInv, FileTypes, IsJob, IsResult
<1>5. LastIsThere' /\ \A r : Stands(r)' <=> Stands(r)
  BY <1>1 DEF FilesInv, LastIsThere, Stands
<1>6. ResultsStand'
  <2>1. ASSUME NEW u \in FileUsers, results'[u].text # Missing
        PROVE  results'[u].path \in OffloadPaths /\ Stands(results[u])'
    <3>1. u # s
      BY <1>2, <2>1 DEF NoResult
    <3>2. PICK x : x = results[u] /\ x = results'[u]
      BY <1>2, <3>1
    <3>3. x.path \in OffloadPaths /\ Stands(x)
      BY <2>1, <3>2, HeldStands
    <3> QED
      BY <1>1, <3>2, <3>3 DEF Stands
  <2>2. ASSUME NEW x \in refs'
        PROVE  x.path \in OffloadPaths /\ Stands(x)'
    <3>1. x \in refs \/ (results[s].text # Missing /\ x = results[s])
      BY <1>1, <2>2
    <3>2. x.path \in OffloadPaths /\ Stands(x)
      BY <3>1 DEF FilesInv, ResultsStand
    <3> QED
      BY <1>5, <3>2
  <2> QED
    BY <2>1, <2>2 DEF ResultsStand
<1>7. AwaitedIsHeld'
  <2> SUFFICES ASSUME NEW j \in jobs, j.call.kind = "offload", j.no = calling[j.by]
               PROVE  results'[j.by].path = j.call.path /\ results'[j.by].no = j.no
    BY <1>1 DEF AwaitedIsHeld
  <2>1. j.no # 0 /\ j.by \in FileUsers
    BY DEF FilesInv, FileTypes, IsJob
  <2> QED
    BY <1>1, <1>2, <2>1 DEF FilesInv, AwaitedIsHeld
<1> QED
  BY <1>4, <1>5, <1>6, <1>7 DEF FilesInv

(* Results are given up, or keep what they had; nothing is put in a file   *)
(* that is kept, and no session awaits another call than before.           *)
LEMMA ResultsDropped ==
  ASSUME FilesInv,
         jobs' \subseteq jobs, refs' = refs, written' = written, fileCalls' = fileCalls,
         DOMAIN files' = Paths, \A p \in OffloadPaths \ Ephemeral : files'[p] = files[p],
         calling' \in [FileUsers -> Nat], DOMAIN results' = FileUsers,
         \A u \in FileUsers : \/ calling'[u] = 0 /\ results'[u] = NoResult
                              \/ calling'[u] \in {0, calling[u]} /\ results'[u] = results[u]
  PROVE  FilesInv'
<1>1. IsResult(NoResult)
  BY DEF IsResult, NoResult
<1>2. FileTypes'
  BY <1>1 DEF FilesInv, FileTypes, IsJob, IsResult
<1>3. \A r : Stands(r)' <=> Stands(r)
  BY DEF Stands
<1>4. LastIsThere'
  BY DEF FilesInv, LastIsThere
<1>5. ResultsStand'
  <2>1. ASSUME NEW u \in FileUsers, results'[u].text # Missing
        PROVE  results'[u].path \in OffloadPaths /\ Stands(results[u])'
    <3>1. PICK x : x = results[u] /\ x = results'[u]
      BY <2>1 DEF NoResult
    <3>2. x.path \in OffloadPaths /\ Stands(x)
      BY <2>1, <3>1, HeldStands
    <3> QED
      BY <3>1, <3>2 DEF Stands
  <2> QED
    BY <1>3, <2>1 DEF FilesInv, ResultsStand
<1>6. AwaitedIsHeld'
  <2> SUFFICES ASSUME NEW j \in jobs', j.call.kind = "offload", j.no = calling'[j.by]
               PROVE  results'[j.by].path = j.call.path /\ results'[j.by].no = j.no
    BY DEF AwaitedIsHeld
  <2>1. j \in jobs /\ j.no # 0 /\ j.by \in FileUsers
    BY DEF FilesInv, FileTypes, IsJob
  <2>2. calling'[j.by] = calling[j.by] /\ results'[j.by] = results[j.by]
    BY <2>1
  <2> QED
    BY <2>1, <2>2 DEF FilesInv, AwaitedIsHeld
<1> QED
  BY <1>2, <1>4, <1>5, <1>6 DEF FilesInv

(* A call is abandoned: the session has no result, whatever its job does.  *)
LEMMA CallAbandoned ==
  ASSUME FilesInv, NEW s \in FileUsers, Abandon(s)
  PROVE  FilesInv'
<1>1. /\ calling' = [calling EXCEPT ![s] = 0] /\ results' = [results EXCEPT ![s] = NoResult]
      /\ UNCHANGED <<files, written, jobs, tracker, refs, fileCalls>>
  BY DEF Abandon
<1>2. /\ calling \in [FileUsers -> Nat] /\ DOMAIN results = FileUsers /\ DOMAIN files = Paths
  BY DEF FilesInv, FileTypes
<1>3. /\ calling' \in [FileUsers -> Nat] /\ DOMAIN results' = FileUsers
      /\ \A u \in FileUsers : \/ calling'[u] = 0 /\ results'[u] = NoResult
                              \/ calling'[u] \in {0, calling[u]} /\ results'[u] = results[u]
  BY <1>1, <1>2
<1> QED
  BY <1>1, <1>2, <1>3, ResultsDropped

(* A job that fails leaves the file as it was.                             *)
LEMMA JobFailed ==
  ASSUME FilesInv, NEW j \in jobs, Fail(j)
  PROVE  FilesInv'
<1>1. /\ jobs' = jobs \ {j}
      /\ calling' = [s \in FileUsers |-> IF calling[s] = j.no THEN 0 ELSE calling[s]]
      /\ UNCHANGED <<files, written, results, tracker, refs, fileCalls>>
  BY DEF Fail
<1>2. /\ calling \in [FileUsers -> Nat] /\ DOMAIN results = FileUsers /\ DOMAIN files = Paths
  BY DEF FilesInv, FileTypes
<1>3. /\ calling' \in [FileUsers -> Nat] /\ DOMAIN results' = FileUsers
      /\ \A u \in FileUsers : calling'[u] \in {0, calling[u]} /\ results'[u] = results[u]
  BY <1>1, <1>2
<1>4. jobs' \subseteq jobs
  BY <1>1
<1> QED
  BY <1>1, <1>2, <1>3, <1>4, ResultsDropped

(* A restart loses the jobs and the sessions of a process, and no file     *)
(* that is kept.                                                           *)
LEMMA FilesRestarted ==
  ASSUME FilesInv, NEW b, Restart(b)
  PROVE  FilesInv'
<1>1. /\ files' = [p \in Paths |-> IF p \in Ephemeral THEN Missing ELSE files[p]]
      /\ jobs' = {j \in jobs : BackendOf[j.by] # b}
      /\ calling' = [s \in FileUsers |-> IF BackendOf[s] = b THEN 0 ELSE calling[s]]
      /\ results' = [s \in FileUsers |-> IF BackendOf[s] = b THEN NoResult ELSE results[s]]
      /\ UNCHANGED <<written, refs, fileCalls>>
  BY DEF Restart
<1>2. calling \in [FileUsers -> Nat]
  BY DEF FilesInv, FileTypes
<1>3. /\ calling' \in [FileUsers -> Nat] /\ DOMAIN results' = FileUsers
      /\ \A u \in FileUsers : \/ calling'[u] = 0 /\ results'[u] = NoResult
                              \/ calling'[u] \in {0, calling[u]} /\ results'[u] = results[u]
  BY <1>1, <1>2
<1>4. DOMAIN files' = Paths /\ \A p \in OffloadPaths \ Ephemeral : files'[p] = files[p]
  BY <1>1 DEF Paths
<1>5. jobs' \subseteq jobs
  BY <1>1
<1> QED
  BY <1>1, <1>3, <1>4, <1>5, ResultsDropped

(* A job has done its work and ends: a session that awaits it goes on, and *)
(* an offload puts its text behind the result.                             *)
LEMMA JobWritten ==
  ASSUME FilesInv, NEW j \in jobs, NEW text, PutText(j.no, j.call, text), Finish(j),
         j.call.kind = "offload" => text = j.call.text
  PROVE  FilesInv'
<1>1. /\ IsJob(j) /\ jobs' = jobs \ {j} /\ UNCHANGED <<tracker, refs, fileCalls>>
      /\ j.no # 0 /\ j.by \in FileUsers /\ j.call.path \in Paths
  BY DEF Finish, FilesInv, FileTypes, IsJob
<1>2. /\ DOMAIN files' = Paths /\ DOMAIN written' = OffloadPaths /\ LastIsThere'
      /\ \A p \in OffloadPaths : \E S : written'[p] \in Seq(S)
      /\ \A r : r.path \in OffloadPaths /\ Stands(r) => Stands(r)'
      /\ \A r : r.path = j.call.path /\ j.call.path \in OffloadPaths /\ j.call.kind = "offload"
                  /\ r.no = j.no /\ r.text = text => Stands(r)'
  <2>1. FileTypes /\ LastIsThere
    BY DEF FilesInv
  <2>2. PICK no, c : no = j.no /\ c = j.call
    OBVIOUS
  <2>3. PutText(no, c, text) /\ c.path \in Paths
    BY <1>1, <2>2
  <2>4. /\ DOMAIN files' = Paths /\ DOMAIN written' = OffloadPaths /\ LastIsThere'
        /\ \A p \in OffloadPaths : \E S : written'[p] \in Seq(S)
        /\ \A r : r.path \in OffloadPaths /\ Stands(r) => Stands(r)'
        /\ \A r : r.path = c.path /\ c.path \in OffloadPaths /\ c.kind = "offload"
                    /\ r.no = no /\ r.text = text => Stands(r)'
    BY <2>1, <2>3, PutAdds
  <2> QED
    BY <2>2, <2>4
<1>3. CASE calling[j.by] = j.no /\ j.call.kind = "offload"
  <2>1. /\ calling' = [calling EXCEPT ![j.by] = 0]
        /\ results' = [results EXCEPT ![j.by].text = j.call.text]
    BY <1>3 DEF Finish, Returned
  <2>2. calling' \in [FileUsers -> Nat] /\ calling'[j.by] = 0
        /\ \A u \in FileUsers : u # j.by => calling'[u] = calling[u]
    BY <1>1, <2>1 DEF FilesInv, FileTypes
  <2>3. PICK x, y : x = results[j.by] /\ y = [x EXCEPT !.text = j.call.text]
    OBVIOUS
  <2>4. DOMAIN results' = FileUsers /\ results'[j.by] = y
        /\ \A u \in FileUsers : u # j.by => results'[u] = results[u]
    BY <1>1, <2>1, <2>3 DEF FilesInv, FileTypes
  <2>5. IsResult(x) /\ x.path = j.call.path /\ x.no = j.no
    BY <1>1, <1>3, <2>3 DEF FilesInv, FileTypes, AwaitedIsHeld
  <2>6. /\ DOMAIN y = {"path", "text", "no"} /\ y.path = j.call.path /\ y.no = j.no
        /\ y.text = j.call.text /\ j.call.text \in Texts /\ j.call.path \in OffloadPaths
    BY <1>1, <1>3, <2>3, <2>5 DEF IsResult, IsJob
  <2>7. IsResult(y)
    BY <2>6 DEF IsResult
  <2>8. FileTypes'
    BY <1>1, <1>2, <2>2, <2>4, <2>7 DEF FilesInv, FileTypes, IsJob, IsResult
  <2>9. Stands(y)'
    BY <1>2, <1>3, <2>6
  <2>10. ResultsStand'
    <3>1. ASSUME NEW u \in FileUsers, results'[u].text # Missing
          PROVE  results'[u].path \in OffloadPaths /\ Stands(results[u])'
      <4>1. CASE u = j.by
        BY <2>4, <2>6, <2>9, <4>1 DEF Stands
      <4>2. CASE u # j.by
        <5>1. PICK z : z = results[u] /\ z = results'[u]
          BY <2>4, <4>2
        <5>2. z.path \in OffloadPaths /\ Stands(z)
          BY <3>1, <5>1, HeldStands
        <5>3. Stands(z)'
          BY <1>2, <5>2
        <5> QED
          BY <5>1, <5>2, <5>3 DEF Stands
      <4> QED
        BY <4>1, <4>2
    <3> QED
      BY <1>1, <1>2, <3>1 DEF FilesInv, ResultsStand
  <2>11. AwaitedIsHeld'
    <3> SUFFICES ASSUME NEW k \in jobs', k.call.kind = "offload", k.no = calling'[k.by]
                 PROVE  results'[k.by].path = k.call.path /\ results'[k.by].no = k.no
      BY DEF AwaitedIsHeld
    <3>1. k \in jobs /\ k.no # 0 /\ k.by \in FileUsers
      BY <1>1 DEF FilesInv, FileTypes, IsJob
    <3> QED
      BY <2>2, <2>4, <3>1 DEF FilesInv, AwaitedIsHeld
  <2> QED
    BY <1>2, <2>8, <2>10, <2>11 DEF FilesInv
<1>4. CASE ~(calling[j.by] = j.no /\ j.call.kind = "offload")
  <2>1. results' = results /\ calling' \in [FileUsers -> Nat]
        /\ \A u \in FileUsers : calling'[u] \in {0, calling[u]}
    BY <1>1, <1>4 DEF Finish, Returned, FilesInv, FileTypes
  <2>2. FileTypes'
    BY <1>1, <1>2, <2>1 DEF FilesInv, FileTypes, IsJob, IsResult
  <2>3. ResultsStand'
    <3>1. ASSUME NEW u \in FileUsers, results'[u].text # Missing
          PROVE  results'[u].path \in OffloadPaths /\ Stands(results[u])'
      <4>1. PICK z : z = results[u] /\ z = results'[u]
        BY <2>1
      <4>2. z.path \in OffloadPaths /\ Stands(z)
        BY <3>1, <4>1, HeldStands
      <4>3. Stands(z)'
        BY <1>2, <4>2
      <4> QED
        BY <4>1, <4>2, <4>3 DEF Stands
    <3> QED
      BY <1>1, <1>2, <3>1 DEF FilesInv, ResultsStand
  <2>4. AwaitedIsHeld'
    <3> SUFFICES ASSUME NEW k \in jobs', k.call.kind = "offload", k.no = calling'[k.by]
                 PROVE  results'[k.by].path = k.call.path /\ results'[k.by].no = k.no
      BY DEF AwaitedIsHeld
    <3>1. k \in jobs /\ k.no # 0 /\ k.by \in FileUsers
      BY <1>1 DEF FilesInv, FileTypes, IsJob
    <3> QED
      BY <2>1, <3>1 DEF FilesInv, AwaitedIsHeld
  <2> QED
    BY <1>2, <2>2, <2>3, <2>4 DEF FilesInv
<1> QED
  BY <1>3, <1>4

(* A job reads its text.                                                   *)
LEMMA JobAdvanced ==
  ASSUME FilesInv, NEW j \in jobs, ReadText(j)
  PROVE  FilesInv'
<1> DEFINE k == [j EXCEPT !.phase = "read", !.seen = files[j.call.path]]
<1>1. /\ jobs' = (jobs \ {j}) \cup {k} /\ Apart(j.call)
      /\ UNCHANGED <<files, written, calling, results, tracker, refs, fileCalls>>
  BY DEF ReadText
<1>2. IsJob(j)
  BY DEF FilesInv, FileTypes
<1>3. /\ DOMAIN k = {"no", "by", "call", "phase", "seen"} /\ k.no = j.no /\ k.by = j.by
      /\ k.call = j.call /\ k.phase = "read"
  BY <1>2 DEF IsJob
<1> HIDE DEF k
<1>4. FileTypes'
  <2>1. IsJob(k)
    <3>1. Apart(k.call)
      BY <1>1, <1>3
    <3> QED
      BY <1>2, <1>3, <3>1 DEF IsJob
  <2>2. \A i \in jobs' : IsJob(i)'
    BY <1>1, <2>1 DEF FilesInv, FileTypes, IsJob
  <2> QED
    BY <1>1, <2>2 DEF FilesInv, FileTypes, IsResult
<1>5. LastIsThere' /\ ResultsStand'
  BY <1>1 DEF FilesInv, LastIsThere, ResultsStand, Stands
<1>6. AwaitedIsHeld'
  BY <1>1, <1>3 DEF FilesInv, AwaitedIsHeld
<1> QED
  BY <1>4, <1>5, <1>6 DEF FilesInv

(* So the invariant holds throughout.                                      *)
LEMMA FilesInvHolds == FilesSpec => []FilesInv
<1>1. FilesInit => FilesInv
  <2> SUFFICES ASSUME FilesInit PROVE FilesInv
    OBVIOUS
  <2>1. \A p \in OffloadPaths : written[p] \in Seq({}) /\ Len(written[p]) = 0
    BY DEF FilesInit
  <2> QED
    BY <2>1 DEF FilesInit, FilesInv, FileTypes, AwaitedIsHeld, ResultsStand, LastIsThere,
                IsResult, NoResult
<1>2. FilesInv /\ [FilesNext]_fileVars => FilesInv'
  <2> SUFFICES ASSUME FilesInv, [FilesNext]_fileVars
               PROVE  FilesInv'
    OBVIOUS
  <2>1. CASE UNCHANGED <<files, written, jobs, calling, results, refs, fileCalls>>
    <3>1. FileTypes' /\ AwaitedIsHeld'
      BY <2>1 DEF FilesInv, FileTypes, AwaitedIsHeld, IsJob, IsResult
    <3> QED
      BY <2>1, <3>1 DEF FilesInv, ResultsStand, Stands, LastIsThere
  <2>2. CASE UNCHANGED fileVars
    BY <2>1, <2>2 DEF fileVars
  <2>3. ASSUME NEW s \in FileUsers, CompactHistory(s)
        PROVE  FilesInv'
    BY <2>1, <2>3 DEF CompactHistory
  <2>4. ASSUME NEW j \in jobs, RunWhole(j)
        PROVE  FilesInv'
    <3>1. PICK text : text = After(files[j.call.path], j.call)
      OBVIOUS
    <3>2. PutText(j.no, j.call, text) /\ Finish(j)
      BY <2>4, <3>1 DEF RunWhole
    <3>3. j.call.kind = "offload" => text = j.call.text
      BY <3>1 DEF After
    <3> QED
      BY <3>2, <3>3, JobWritten
  <2>5. ASSUME NEW j \in jobs, WriteText(j)
        PROVE  FilesInv'
    <3>1. PICK text : text = IF j.call.path \notin Disk /\ files[j.call.path] = Missing
                               THEN Missing ELSE After(j.seen, j.call)
      OBVIOUS
    <3>2. PutText(j.no, j.call, text) /\ Finish(j)
      BY <2>5, <3>1 DEF WriteText
    <3>3. j.phase = "read" /\ IsJob(j)
      BY <2>5 DEF WriteText, FilesInv, FileTypes
    <3>4. j.call.kind = "offload" => j.call.path \in Disk
      BY <3>3 DEF IsJob, Apart
    <3>5. j.call.kind = "offload" => text = j.call.text
      BY <3>1, <3>4 DEF After
    <3> QED
      BY <3>2, <3>5, JobWritten
  <2> QED
    BY <2>2, <2>3, <2>4, <2>5, ToolCalled, Offloaded, ResultAppended, CallAbandoned, JobAdvanced,
       JobFailed, FilesRestarted DEF FilesNext
<1> QED
  BY <1>1, <1>2, PTL DEF FilesSpec

(* A reference stands for a result that was put in the file, and reads it  *)
(* back until another call changes the path (offload.py:119-127), however  *)
(* calls fail or are abandoned, ids repeat and processes restart.          *)
THEOREM OffloadsAreWritten == FilesSpec => []OffloadIsWritten
<1>1. FilesInv => OffloadIsWritten
  <2> SUFFICES ASSUME FilesInv, NEW r \in refs, r.path \notin Ephemeral
               PROVE  \E i \in DOMAIN written[r.path] :
                        /\ written[r.path][i].no = r.no
                        /\ written[r.path][i].text = r.text
                        /\ i = Len(written[r.path]) => files[r.path] = r.text
    BY DEF OffloadIsWritten
  <2>1. r.path \in OffloadPaths /\ Stands(r)
    BY DEF FilesInv, ResultsStand
  <2>2. PICK i \in DOMAIN written[r.path] :
          written[r.path][i].no = r.no /\ written[r.path][i].text = r.text
    BY <2>1 DEF Stands
  <2>3. i # 0
    <3>1. PICK S : written[r.path] \in Seq(S)
      BY <2>1 DEF FilesInv, FileTypes
    <3>2. PICK w \in Seq(S) : w = written[r.path]
      BY <3>1
    <3> QED
      BY <2>2, <3>2
  <2>4. i = Len(written[r.path]) => files[r.path] = r.text
    BY <2>1, <2>2, <2>3 DEF FilesInv, LastIsThere
  <2> QED
    BY <2>2, <2>4
<1> QED
  BY <1>1, FilesInvHolds, PTL

(* One backend, and nothing of it on disk.                                 *)
OneExecutor == Disk = {} /\ \A s \in FileUsers, t \in FileUsers : BackendOf[s] = BackendOf[t]
(* Then what an edit has read is what is there until it is written, and no *)
(* other thread is between its reading and its writing.                    *)
LockHeld ==
  \A j \in jobs : j.phase = "read" =>
    /\ j.call.kind = "edit" /\ j.seen = files[j.call.path]
    /\ \A i \in jobs : i.phase = "read" => i = j

(* A thread that begins finds none of them.                                *)
LEMMA NoneReading ==
  ASSUME OneExecutor, FilesInv, NEW j \in jobs, MayBegin(j)
  PROVE  \A i \in jobs : i.phase # "read"
<1>1. \A i \in jobs : i.by \in FileUsers
  BY DEF FilesInv, FileTypes, IsJob
<1> QED
  BY <1>1 DEF OneExecutor, MayBegin

(* The lock is held: a call starts a thread or changes other paths, and no *)
(* thread begins before another has written what it read.                  *)
LEMMA LockKept ==
  ASSUME OneExecutor, FilesInv, LockHeld, FilesNext
  PROVE  LockHeld'
<1>1. \A j \in jobs : j.call.path \in Paths \ Inline /\ IsJob(j)
  BY DEF FilesInv, FileTypes, IsJob
<1>2. CASE jobs' \subseteq jobs /\ \A p \in Paths \ Inline : files'[p] = files[p]
  BY <1>1, <1>2 DEF LockHeld
<1>3. ASSUME NEW s \in FileUsers, NEW c, Submit(s, c)
      PROVE  LockHeld'
  <2>1. CASE c.path \in Inline /\ jobs' = jobs /\ PutText(fileCalls', c, After(files[c.path], c))
    <3>1. \A p \in Paths \ Inline : files'[p] = files[p]
      BY <2>1 DEF PutText, FilesInv, FileTypes
    <3> QED
      BY <1>2, <2>1, <3>1
  <2>2. ASSUME UNCHANGED files,
               jobs' = jobs \cup {[no |-> fileCalls', by |-> s, call |-> c,
                                   phase |-> "new", seen |-> Missing]}
        PROVE  LockHeld'
    <3>1. \A j \in jobs' : j \in jobs \/ j.phase = "new"
      BY <2>2
    <3> QED
      BY <2>2, <3>1 DEF LockHeld
  <2> QED
    BY <1>3, <2>1, <2>2 DEF Submit
<1>4. ASSUME NEW j \in jobs, RunWhole(j)
      PROVE  LockHeld'
  <2>1. \A i \in jobs' : i.phase # "read"
    <3>1. MayBegin(j) /\ jobs' = jobs \ {j}
      BY <1>4 DEF RunWhole, Finish
    <3> QED
      BY <3>1, NoneReading
  <2> QED
    BY <2>1 DEF LockHeld
<1>5. ASSUME NEW j \in jobs, WriteText(j)
      PROVE  LockHeld'
  <2>1. j.phase = "read" /\ jobs' = jobs \ {j}
    BY <1>5 DEF WriteText, Finish
  <2>2. \A i \in jobs' : i.phase # "read"
    BY <2>1 DEF LockHeld
  <2> QED
    BY <2>2 DEF LockHeld
<1>6. ASSUME NEW j \in jobs, ReadText(j)
      PROVE  LockHeld'
  <2>1. PICK k : k = [j EXCEPT !.phase = "read", !.seen = files[j.call.path]]
    OBVIOUS
  <2>2. MayBegin(j) /\ Apart(j.call) /\ jobs' = (jobs \ {j}) \cup {k} /\ files' = files
    BY <1>6, <2>1 DEF ReadText
  <2>3. k.call = j.call /\ k.seen = files[j.call.path]
    BY <1>1, <2>1 DEF IsJob
  <2>4. j.call.kind = "edit"
    BY <2>2 DEF Apart, OneExecutor
  <2>5. \A i \in jobs' : i.phase = "read" => i = k
    BY <2>2, NoneReading
  <2> QED
    BY <2>2, <2>3, <2>4, <2>5 DEF LockHeld
<1>7. ASSUME NEW j \in jobs, Fail(j)
      PROVE  LockHeld'
  <2>1. jobs' \subseteq jobs /\ files' = files
    BY <1>7 DEF Fail
  <2> QED
    BY <1>2, <2>1
<1>8. ASSUME NEW b, Restart(b)
      PROVE  LockHeld'
  <2>1. jobs' \subseteq jobs /\ \A p \in Paths \ Inline : files'[p] = files[p]
    BY <1>8 DEF Restart, Inline
  <2> QED
    BY <1>2, <2>1
<1>9. ASSUME NEW s \in FileUsers, AppendResult(s) \/ Abandon(s) \/ CompactHistory(s)
      PROVE  LockHeld'
  <2>1. jobs' = jobs /\ files' = files
    BY <1>9 DEF AppendResult, Abandon, CompactHistory
  <2> QED
    BY <1>2, <2>1
<1>10. ASSUME NEW s \in FileUsers, NEW c, CallTool(s, c)
       PROVE  LockHeld'
  BY <1>3, <1>10 DEF CallTool
<1>11. ASSUME NEW s \in FileUsers, NEW p, NEW t, Offload(s, p, t)
       PROVE  LockHeld'
  BY <1>3, <1>11 DEF Offload
<1> QED
  BY <1>4, <1>5, <1>6, <1>7, <1>8, <1>9, <1>10, <1>11 DEF FilesNext

(* An edit under the lock of one executor is made of the text that is there*)
(* when it is written (sqlite.py:134-151 and storage/_executor.py:75-82):  *)
(* between its SELECT and its UPDATE no other call changes a row.          *)
THEOREM EditsAreWhole == OneExecutor /\ FilesSpec => EditsKeepOthers
<1> SUFFICES ASSUME OneExecutor
             PROVE  FilesSpec => EditsKeepOthers
  OBVIOUS
<1>1. FilesInit => LockHeld
  BY DEF FilesInit, LockHeld
<1>2. FilesInv /\ LockHeld /\ [FilesNext]_fileVars => LockHeld'
  <2>1. UNCHANGED fileVars /\ LockHeld => LockHeld'
    BY DEF fileVars, LockHeld
  <2> QED
    BY <2>1, LockKept
<1>3. FilesSpec => [](FilesInv /\ LockHeld)
  BY <1>1, <1>2, FilesInvHolds, PTL DEF FilesSpec
<1>4. FilesInv /\ LockHeld /\ [FilesNext]_fileVars =>
        [\A j \in jobs :
                (j.call.kind = "edit" /\ j \notin jobs' /\ files'[j.call.path] # files[j.call.path])
                  => files'[j.call.path] = After(files[j.call.path], j.call)]_fileVars
  <2> SUFFICES ASSUME FilesInv, LockHeld, FilesNext, NEW j \in jobs, j.call.kind = "edit",
                      j \notin jobs', files'[j.call.path] # files[j.call.path]
               PROVE  files'[j.call.path] = After(files[j.call.path], j.call)
    OBVIOUS
  <2>1. IsJob(j) /\ j.call.path \in Paths \ Inline /\ DOMAIN files = Paths
    BY DEF FilesInv, FileTypes, IsJob
  <2>2. ASSUME NEW i \in jobs, RunWhole(i)
        PROVE  files'[j.call.path] = After(files[j.call.path], j.call)
    <3>1. i = j
      BY <2>2 DEF RunWhole, Finish
    <3> QED
      BY <2>1, <2>2, <3>1 DEF RunWhole, PutText
  <2>3. ASSUME NEW i \in jobs, WriteText(i)
        PROVE  files'[j.call.path] = After(files[j.call.path], j.call)
    <3>1. i = j
      BY <2>3 DEF WriteText, Finish
    <3>2. j.seen = files[j.call.path]
      BY <2>3, <3>1 DEF WriteText, LockHeld
    <3>3. files'[j.call.path] = IF j.call.path \notin Disk /\ files[j.call.path] = Missing
                                  THEN Missing ELSE After(j.seen, j.call)
      BY <2>1, <2>3, <3>1 DEF WriteText, PutText
    <3> QED
      BY <3>2, <3>3
  <2>4. ASSUME NEW b, Restart(b)
        PROVE  FALSE
    BY <2>1, <2>4 DEF Restart, Inline
  <2>5. ASSUME NEW i \in jobs, ReadText(i) \/ Fail(i)
        PROVE  FALSE
    BY <2>5 DEF ReadText, Fail
  <2>6. ASSUME NEW s \in FileUsers,
               \/ AppendResult(s) \/ Abandon(s) \/ CompactHistory(s)
               \/ \E c \in Requests : CallTool(s, c)
               \/ \E p \in OffloadPaths, t \in Texts : Offload(s, p, t)
        PROVE  FALSE
    <3>1. j \in jobs'
      BY <2>6 DEF AppendResult, Abandon, CompactHistory, CallTool, Offload, Submit
    <3> QED
      BY <3>1
  <2> QED
    BY <2>2, <2>3, <2>4, <2>5, <2>6 DEF FilesNext
<1> QED
  BY <1>3, <1>4, PTL DEF FilesSpec, EditsKeepOthers

-----------------------------------------------------------------------------
(***************************************************************************)
(* Memory: a change is counted until a pass has covered it, and a search   *)
(* over the tiers returns the best items there are.                        *)
(***************************************************************************)

MemoryPhases == {"turns", "dedup", "write", "gate", "consolidate", "over"}
MemoryTypes ==
  /\ phase \in [MemoryRuns -> MemoryPhases]
  /\ fresh \in [MemoryRuns -> Seq(Candidates)]
  /\ \A r \in MemoryRuns : At(r, "dedup") => todo[r] \in Seq(Candidates)
  /\ DOMAIN todo = MemoryRuns
  /\ gate \in [changes : Nat, ran : BOOLEAN, holder : MemoryRuns \cup {Nobody}]
  /\ pass.applied \in Nat
  /\ IsFiniteSet(missed)

(* One run consolidates at a time, the holder of the gate.                 *)
OneConsolidates == \A r \in MemoryRuns : At(r, "consolidate") <=> gate.holder = r
(* What a running consolidation leaves uncovered was counted beyond what   *)
(* it took from the counter.                                               *)
LeftIsCounted ==
  gate.holder # Nobody => Cardinality(missed \ pass.covers) + pass.applied <= gate.changes
MemoryInv == MemoryTypes /\ OneConsolidates /\ LeftIsCounted /\ NoChangeForgotten

(* A union has at most as many members as its parts together.              *)
LEMMA CardinalitySum ==
  ASSUME NEW S, NEW T, IsFiniteSet(S), IsFiniteSet(T)
  PROVE  /\ IsFiniteSet(S \cup T) /\ Cardinality(S) \in Nat /\ Cardinality(T) \in Nat
         /\ Cardinality(S \cup T) \in Nat
         /\ Cardinality(S \cup T) <= Cardinality(S) + Cardinality(T)
<1>1. IsFiniteSet(S \cap T) /\ IsFiniteSet(S \cup T)
  BY FS_Subset, FS_Union
<1>2. Cardinality(S \cap T) \in Nat /\ Cardinality(S) \in Nat /\ Cardinality(T) \in Nat
      /\ Cardinality(S \cup T) \in Nat
  BY <1>1, FS_CardinalityType
<1>3. Cardinality(S \cup T) = Cardinality(S) + Cardinality(T) - Cardinality(S \cap T)
  BY FS_Union
<1> QED
  BY <1>1, <1>2, <1>3

(* Steps that count nothing and cover nothing.                             *)
LEMMA NothingCounted ==
  ASSUME MemoryInv, NEW r \in MemoryRuns, NEW p \in MemoryPhases \ {"consolidate"}, Goes(r, p),
         ~At(r, "consolidate"), UNCHANGED <<gate, pass, missed>>,
         fresh' \in [MemoryRuns -> Seq(Candidates)], DOMAIN todo' = MemoryRuns,
         \A q \in MemoryRuns : At(q, "dedup")' => todo'[q] \in Seq(Candidates)
  PROVE  MemoryInv'
<1>1. MemoryTypes' /\ OneConsolidates'
  BY DEF MemoryInv, MemoryTypes, OneConsolidates, At, Goes
<1> QED
  BY <1>1 DEF MemoryInv, LeftIsCounted, NoChangeForgotten

(* A change that is recorded is counted, in the file and by the run that   *)
(* made it.                                                                *)
LEMMA ChangesRecorded ==
  ASSUME MemoryInv, NEW r \in MemoryRuns, Record(r)
  PROVE  MemoryInv'
<1> DEFINE n == Len(fresh[r])
           added == {r} \X (1..n)
<1>1. n \in Nat /\ DOMAIN fresh[r] = 1..n
  BY DEF MemoryInv, MemoryTypes
<1>2. /\ missed' = missed \cup added
      /\ pass' = pass /\ phase' = [phase EXCEPT ![r] = "gate"] /\ phase[r] = "write"
      /\ fresh' = fresh /\ todo' = todo
  BY <1>1 DEF Record, Goes, At
<1>0. gate' = [changes |-> gate.changes + n, ran |-> gate.ran, holder |-> gate.holder]
  BY DEF Record, MemoryInv, MemoryTypes
<1> HIDE DEF n
<1>3. IsFiniteSet({r}) /\ Cardinality({r}) = 1 /\ IsFiniteSet(1..n) /\ Cardinality(1..n) = n
  <2>1. 1 \in Int /\ n \in Int /\ n >= 0
    BY <1>1
  <2>2. IsFiniteSet(1..n) /\ Cardinality(1..n) = IF 1 > n THEN 0 ELSE n - 1 + 1
    BY <2>1, FS_Interval
  <2>3. (IF 1 > n THEN 0 ELSE n - 1 + 1) = n
    BY <2>1
  <2> QED
    BY <2>2, <2>3, FS_Singleton
<1>4. IsFiniteSet(added) /\ Cardinality(added) = n
  <2>1. IsFiniteSet(added) /\ Cardinality(added) = Cardinality({r}) * Cardinality(1..n)
    BY <1>3, FS_Product
  <2> QED
    BY <1>1, <1>3, <2>1
<1> HIDE DEF added
<1>5. /\ IsFiniteSet(missed') /\ Cardinality(missed) \in Nat /\ Cardinality(missed') \in Nat
      /\ Cardinality(missed') <= Cardinality(missed) + n
  BY <1>2, <1>4, CardinalitySum DEF MemoryInv, MemoryTypes
<1>6. gate'.changes = gate.changes + n /\ gate'.holder = gate.holder /\ gate.changes \in Nat
      /\ gate' \in [changes : Nat, ran : BOOLEAN, holder : MemoryRuns \cup {Nobody}]
  BY <1>0, <1>1 DEF MemoryInv, MemoryTypes
<1>7. MemoryTypes' /\ OneConsolidates'
  BY <1>2, <1>5, <1>6 DEF MemoryInv, MemoryTypes, MemoryPhases, OneConsolidates, At
<1>8. LeftIsCounted'
  <2> SUFFICES ASSUME gate'.holder # Nobody
               PROVE  Cardinality(missed' \ pass'.covers) + pass'.applied <= gate'.changes
    BY DEF LeftIsCounted
  <2>1. Cardinality(missed \ pass.covers) + pass.applied <= gate.changes /\ pass.applied \in Nat
    BY <1>6 DEF MemoryInv, MemoryTypes, LeftIsCounted
  <2>2. IsFiniteSet(missed \ pass.covers)
    BY FS_Difference DEF MemoryInv, MemoryTypes
  <2>3. missed' \ pass.covers \subseteq (missed \ pass.covers) \cup added
    BY <1>2
  <2>4. /\ IsFiniteSet((missed \ pass.covers) \cup added)
        /\ Cardinality(missed \ pass.covers) \in Nat
        /\ Cardinality((missed \ pass.covers) \cup added) \in Nat
        /\ Cardinality((missed \ pass.covers) \cup added) <= Cardinality(missed \ pass.covers) + n
    BY <1>4, <2>2, CardinalitySum
  <2>5. /\ Cardinality(missed' \ pass.covers) <= Cardinality((missed \ pass.covers) \cup added)
        /\ Cardinality(missed' \ pass.covers) \in Nat
    BY <2>3, <2>4, FS_Subset, FS_CardinalityType
  <2> QED
    BY <1>1, <1>2, <1>6, <2>1, <2>4, <2>5
<1>9. NoChangeForgotten'
  BY <1>1, <1>5, <1>6 DEF MemoryInv, NoChangeForgotten
<1> QED
  BY <1>7, <1>8, <1>9 DEF MemoryInv

(* A pass that begins takes what is counted then.                          *)
LEMMA PassBegins ==
  ASSUME MemoryInv, NEW r \in MemoryRuns, GateOpens(r)
  PROVE  MemoryInv'
<1>1. /\ gate' = [gate EXCEPT !.holder = r] /\ pass' = [applied |-> gate.changes, covers |-> missed]
      /\ UNCHANGED <<todo, fresh, missed>> /\ phase' = [phase EXCEPT ![r] = "consolidate"]
      /\ gate.holder = Nobody
  BY DEF GateOpens, Goes
<1>2. MemoryTypes' /\ gate'.changes = gate.changes /\ gate.changes \in Nat
  BY <1>1 DEF MemoryInv, MemoryTypes, MemoryPhases, At
<1>3. OneConsolidates'
  BY <1>1, MemoryAssumption DEF MemoryInv, MemoryTypes, OneConsolidates, At, MemoryAssumption
<1>4. Cardinality(missed' \ pass'.covers) = 0
  <2>1. missed' \ pass'.covers = {}
    BY <1>1
  <2> QED
    BY <2>1, FS_EmptySet
<1>5. LeftIsCounted' /\ NoChangeForgotten'
  BY <1>1, <1>2, <1>4 DEF MemoryInv, LeftIsCounted, NoChangeForgotten
<1> QED
  BY <1>2, <1>3, <1>5 DEF MemoryInv

(* A pass that ends, well or not, takes off no more than it had seen.      *)
LEMMA PassEnds ==
  ASSUME MemoryInv, NEW r \in MemoryRuns, Consolidated(r) \/ ConsolidationFails(r)
  PROVE  MemoryInv'
<1>1. /\ gate.holder = r /\ gate.holder # Nobody /\ pass' = pass /\ UNCHANGED <<todo, fresh>>
      /\ phase' = [phase EXCEPT ![r] = "over"] /\ gate'.holder = Nobody
  BY MemoryAssumption
  DEF Consolidated, ConsolidationFails, Goes, MemoryInv, MemoryTypes, OneConsolidates, MemoryAssumption
<1>2. OneConsolidates'
  BY <1>1, MemoryAssumption DEF MemoryInv, MemoryTypes, OneConsolidates, At, MemoryAssumption
<1>3. LeftIsCounted'
  BY <1>1 DEF LeftIsCounted
<1>4. gate.changes \in Nat /\ pass.applied \in Nat /\ IsFiniteSet(missed) /\ gate.ran \in BOOLEAN
      /\ Cardinality(missed) <= gate.changes
  BY DEF MemoryInv, MemoryTypes, NoChangeForgotten
<1>5. IsFiniteSet(missed \ pass.covers) /\ Cardinality(missed \ pass.covers) \in Nat
  BY <1>4, FS_Difference, FS_CardinalityType
<1>6. CASE Consolidated(r)
  <2>1. /\ gate' = [changes |-> Remaining(gate.changes, pass.applied), ran |-> TRUE, holder |-> Nobody]
        /\ missed' = missed \ pass.covers
    BY <1>6 DEF Consolidated
  <2>2. Remaining(gate.changes, pass.applied) \in Nat
        /\ Cardinality(missed \ pass.covers) <= Remaining(gate.changes, pass.applied)
    BY <1>1, <1>4, <1>5 DEF Remaining, MemoryInv, LeftIsCounted
  <2>3. MemoryTypes' /\ NoChangeForgotten'
    BY <1>1, <1>5, <2>1, <2>2 DEF MemoryInv, MemoryTypes, MemoryPhases, NoChangeForgotten, At
  <2> QED
    BY <1>2, <1>3, <2>3 DEF MemoryInv
<1>7. CASE ConsolidationFails(r)
  <2>1. gate' = [gate EXCEPT !.holder = Nobody] /\ missed' = missed
    BY <1>7 DEF ConsolidationFails
  <2>2. MemoryTypes' /\ NoChangeForgotten'
    BY <1>1, <2>1 DEF MemoryInv, MemoryTypes, MemoryPhases, NoChangeForgotten, At
  <2> QED
    BY <1>2, <1>3, <2>2 DEF MemoryInv
<1> QED
  BY <1>6, <1>7

(* Memories recorded while a consolidation runs stay counted, for any      *)
(* runs, extractions and consolidations that fail or succeed.              *)
THEOREM ChangesStayCounted == MemorySpec => []NoChangeForgotten
<1>1. MemoryInit => MemoryInv
  <2> SUFFICES ASSUME MemoryInit PROVE MemoryInv
    OBVIOUS
  <2>1. IsFiniteSet(missed) /\ Cardinality(missed) = 0 /\ gate.holder = Nobody /\ gate.changes = 0
    BY FS_EmptySet DEF MemoryInit
  <2>2. MemoryTypes
    BY <2>1 DEF MemoryInit, MemoryTypes, MemoryPhases, At
  <2>3. OneConsolidates
    BY <2>1, MemoryAssumption DEF MemoryInit, OneConsolidates, At, MemoryAssumption
  <2> QED
    BY <2>1, <2>2, <2>3 DEF MemoryInv, LeftIsCounted, NoChangeForgotten
<1>2. MemoryInv /\ [MemoryNext]_memoryVars => MemoryInv'
  <2> SUFFICES ASSUME MemoryInv, [MemoryNext]_memoryVars PROVE MemoryInv'
    OBVIOUS
  <2> DEFINE Counts == UNCHANGED <<gate, pass, missed>>
  <2>1. CASE UNCHANGED memoryVars
    BY <2>1 DEF memoryVars, MemoryInv, MemoryTypes, OneConsolidates, LeftIsCounted,
                NoChangeForgotten, At
  <2>2. ASSUME NEW r \in MemoryRuns, NEW list \in Extractions, ToolUpsert(r, list[1])
        PROVE MemoryInv'
    BY <2>2 DEF ToolUpsert, MemoryInv, MemoryTypes, OneConsolidates, LeftIsCounted,
                NoChangeForgotten, At
  <2>3. ASSUME NEW r \in MemoryRuns, NEW list \in Extractions, Extract(r, list) PROVE MemoryInv'
    <3>1. list \in Seq(Candidates)
      BY MemoryAssumption DEF MemoryAssumption
    <3>2. \A q \in MemoryRuns : At(q, "dedup")' => todo'[q] \in Seq(Candidates)
      BY <2>3, <3>1 DEF Extract, Goes, At, MemoryInv, MemoryTypes
    <3> QED
      BY <2>3, <3>2, NothingCounted DEF Extract, At, MemoryInv, MemoryTypes, MemoryPhases
  <2>4. ASSUME NEW r \in MemoryRuns, Dedup(r) PROVE MemoryInv'
    <3>1. todo[r] \in Seq(Candidates) /\ todo[r] # <<>> /\ fresh[r] \in Seq(Candidates)
      BY <2>4 DEF Dedup, MemoryInv, MemoryTypes
    <3> DEFINE kept == IF Duplicate(Head(todo[r])) THEN fresh[r] ELSE Append(fresh[r], Head(todo[r]))
               rest == Tail(todo[r])
    <3>2. kept \in Seq(Candidates) /\ rest \in Seq(Candidates)
      BY <3>1
    <3>3. fresh' = [fresh EXCEPT ![r] = kept] /\ todo' = [todo EXCEPT ![r] = rest]
          /\ UNCHANGED <<phase, gate, pass, missed>>
      BY <2>4 DEF Dedup
    <3> HIDE DEF kept, rest
    <3>4. MemoryTypes'
      BY <3>2, <3>3 DEF MemoryInv, MemoryTypes, At
    <3> QED
      BY <3>3, <3>4 DEF MemoryInv, OneConsolidates, LeftIsCounted, NoChangeForgotten, At
  <2>5. ASSUME NEW r \in MemoryRuns, Deduped(r) PROVE MemoryInv'
    <3>1. PICK p \in {"gate", "write"} : Goes(r, p)
      BY <2>5 DEF Deduped
    <3>2. DOMAIN todo' = MemoryRuns /\ \A q \in MemoryRuns : q # r => todo'[q] = todo[q]
      BY <2>5 DEF Deduped, MemoryInv, MemoryTypes
    <3>3. \A q \in MemoryRuns : At(q, "dedup")' => todo'[q] \in Seq(Candidates)
      BY <3>1, <3>2 DEF Goes, At, MemoryInv, MemoryTypes
    <3> QED
      BY <2>5, <3>1, <3>2, <3>3, NothingCounted
      DEF Deduped, At, MemoryInv, MemoryTypes, MemoryPhases
  <2>6. ASSUME NEW r \in MemoryRuns, WriteTier(r) PROVE MemoryInv'
    BY <2>6 DEF WriteTier, MemoryInv, MemoryTypes, OneConsolidates, LeftIsCounted,
                NoChangeForgotten, At
  <2>7. ASSUME NEW r \in MemoryRuns, SitsOut(r) \/ HookFails(r) \/ GateCloses(r) PROVE MemoryInv'
    <3>1. Goes(r, "over") /\ UNCHANGED <<todo, fresh, gate, pass, missed>> /\ ~At(r, "consolidate")
      BY <2>7 DEF SitsOut, HookFails, GateCloses, At
    <3>2. \A q \in MemoryRuns : At(q, "dedup")' => todo'[q] \in Seq(Candidates)
      BY <3>1 DEF Goes, At, MemoryInv, MemoryTypes
    <3> QED
      BY <3>1, <3>2, NothingCounted DEF MemoryInv, MemoryTypes, MemoryPhases
  <2> QED
    BY <2>1, <2>2, <2>3, <2>4, <2>5, <2>6, <2>7, ChangesRecorded, PassBegins, PassEnds DEF MemoryNext
<1>3. MemoryInv => NoChangeForgotten
  BY DEF MemoryInv
<1> QED
  BY <1>1, <1>2, <1>3, PTL DEF MemorySpec

(* What a search works with: finitely many hits, one for an id.            *)
Ratings(H) == \A h \in H : h.id \in Nat /\ h.score \in Nat
OnePerId(H) == \A g, h \in H : g.id = h.id => g = h
Ratable(H) == IsFiniteSet(H) /\ Ratings(H) /\ OnePerId(H)
Ahead(H) == {p \in H \X H : Before(p[1], p[2])}
Better(H, h) == {g \in H : Before(g, h)}
Fewest(m, n) == IF m < n THEN m ELSE n

(* The ranking lists each hit once, by score and then by id.               *)
LEMMA RankedInOrder ==
  ASSUME NEW H, Ratable(H)
  PROVE  /\ Cardinality(H) \in Nat /\ Ranked(H) \in [1..Cardinality(H) -> H]
         /\ \A k, l \in 1..Cardinality(H) : k < l <=> Before(Ranked(H)[k], Ranked(H)[l])
         /\ \A h \in H : \E k \in 1..Cardinality(H) : Ranked(H)[k] = h
         /\ \A k \in 1..Cardinality(H) : Cardinality(Better(H, Ranked(H)[k])) = k - 1
<1> DEFINE R == Ahead(H)
           L == Ranked(H)
           m == Cardinality(H)
<1>0. IsFiniteSet(H) /\ Ratings(H) /\ OnePerId(H)
  BY DEF Ratable
<1>1. \A x, y \in H : <<x, y>> \in R <=> Before(x, y)
  BY DEF Ahead
<1>2. \A x \in H : <<x, x>> \notin R
  BY <1>0, <1>1 DEF Before, Ratings
<1>3. \A x, y \in H : x # y => <<x, y>> \in R \/ <<y, x>> \in R
  BY <1>0, <1>1 DEF Before, Ratings, OnePerId
<1>4. \A x, y, z \in H : <<x, y>> \in R /\ <<y, z>> \in R => <<x, z>> \in R
  BY <1>0, <1>1 DEF Before, Ratings
<1> DEFINE earlier(x) == {g \in H : Before(g, x)}
<1>5. \A x \in H : Preceding(H, R, x) = earlier(x)
  BY <1>1 DEF Preceding
<1>6. L = [k \in 1..m |-> CHOOSE h \in H : Cardinality(earlier(h)) = k - 1]
  BY DEF Ranked
<1> HIDE DEF earlier, R, L
<1>7. Listing(H, R, L)
  <2>1. L = [k \in 1..m |-> L[k]]
    BY <1>6
  <2>2. ASSUME NEW k \in 1..m, NEW x \in H, Cardinality(Preceding(H, R, x)) = k - 1
        PROVE  L[k] \in H /\ Cardinality(Preceding(H, R, L[k])) = k - 1
    <3>1. Cardinality(earlier(x)) = k - 1
      BY <1>5, <2>2
    <3>2. L[k] = CHOOSE h \in H : Cardinality(earlier(h)) = k - 1
      BY <1>6
    <3>3. L[k] \in H /\ Cardinality(earlier(L[k])) = k - 1
      BY <3>1, <3>2
    <3> QED
      BY <1>5, <3>3
  <2> QED
    BY <2>1, <2>2 DEF Listing
<1>8. /\ m \in Nat /\ L \in [1..m -> H]
      /\ \A k, l \in 1..m : k < l <=> <<L[k], L[l]>> \in R
      /\ \A x \in H : \E k \in 1..m : L[k] = x
      /\ \A k \in 1..m : Cardinality(Preceding(H, R, L[k])) = k - 1
  BY <1>0, <1>2, <1>3, <1>4, <1>7, Listed
<1>9. \A k \in 1..m : L[k] \in H
  BY <1>8
<1>10. \A k, l \in 1..m : k < l <=> Before(L[k], L[l])
  BY <1>1, <1>8, <1>9
<1>11. \A k \in 1..m : Cardinality(earlier(L[k])) = k - 1
  BY <1>5, <1>8, <1>9
<1> QED
  BY <1>8, <1>10, <1>11 DEF L, earlier, Better

(* The best of them are the first of the ranking: who is left out is       *)
(* behind as many as were asked for.                                       *)
LEMMA BestOnes ==
  ASSUME NEW H, Ratable(H), NEW n \in Nat
  PROVE  /\ Len(Best(H, n)) = Fewest(Cardinality(H), n)
         /\ DOMAIN Best(H, n) = 1..Fewest(Cardinality(H), n)
         /\ \A k \in 1..Fewest(Cardinality(H), n) :
              /\ Best(H, n)[k] = Ranked(H)[k] /\ Best(H, n)[k] \in H
              /\ Cardinality(Better(H, Best(H, n)[k])) = k - 1
         /\ ToSet(Best(H, n)) \subseteq H
         /\ \A h \in H : \/ h \in ToSet(Best(H, n))
                         \/ /\ Cardinality(ToSet(Best(H, n))) = n
                            /\ \A g \in ToSet(Best(H, n)) : Before(g, h)
<1> DEFINE m == Cardinality(H)
           L == Ranked(H)
           B == Best(H, n)
           j == Fewest(m, n)
<1>1. /\ m \in Nat /\ L \in [1..m -> H]
      /\ \A k, l \in 1..m : k < l <=> Before(L[k], L[l])
      /\ \A x \in H : \E k \in 1..m : L[k] = x
      /\ \A k \in 1..m : Cardinality(Better(H, L[k])) = k - 1
  BY RankedInOrder
<1>2. j \in Nat /\ j <= m /\ j <= n /\ (j = m \/ j = n)
  BY <1>1 DEF Fewest
<1>3. B = SubSeq(L, 1, j)
  BY DEF Best, Fewest
<1> HIDE DEF L, B, j, m
<1>4. /\ Len(B) = j /\ DOMAIN B = 1..j
      /\ \A k \in 1..j : B[k] = L[k] /\ B[k] \in H
  <2>1. \A k \in 1..j : k \in 1..m /\ L[k] \in H
    BY <1>1, <1>2
  <2>2. /\ SubSeq(L, 1, j) \in Seq(H)
        /\ Len(SubSeq(L, 1, j)) = IF 1 <= j THEN j - 1 + 1 ELSE 0
        /\ \A k \in 1..(j - 1 + 1) : SubSeq(L, 1, j)[k] = L[1 + k - 1]
    BY <1>2, <2>1, SubSeqProperties
  <2>3. B \in Seq(H) /\ Len(B) = j
    BY <1>2, <1>3, <2>2
  <2>4. DOMAIN B = 1..j
    BY <2>3
  <2>5. \A k \in 1..j : B[k] = L[k]
    <3>1. \A k \in 1..j : k \in 1..(j - 1 + 1) /\ 1 + k - 1 = k
      BY <1>2
    <3> QED
      BY <1>3, <2>2, <3>1
  <2> QED
    BY <2>1, <2>3, <2>4, <2>5
<1>5. ToSet(B) = {B[k] : k \in 1..j}
  BY <1>4 DEF ToSet
<1>6. ToSet(B) \subseteq H
  BY <1>4, <1>5
<1>7. ASSUME NEW h \in H, h \notin ToSet(B)
      PROVE  Cardinality(ToSet(B)) = n /\ \A g \in ToSet(B) : Before(g, h)
  <2>1. PICK l \in 1..m : L[l] = h
    BY <1>1
  <2>2. l \notin 1..j
    BY <1>4, <1>5, <1>7, <2>1
  <2>3. j = n /\ \A k \in 1..j : k < l /\ k \in 1..m
    BY <1>1, <1>2, <2>1, <2>2
  <2>4. \A g \in ToSet(B) : Before(g, h)
    BY <1>1, <1>4, <1>5, <2>1, <2>3
  <2>5. Cardinality(ToSet(B)) = n
    <3> DEFINE f == [k \in 1..n |-> B[k]]
    <3>1. \A k, l2 \in 1..n : f[k] = f[l2] => k = l2
      <4>1. \A k, l2 \in 1..m : k # l2 => L[k] # L[l2]
        <5>1. \A k, l2 \in 1..m : k < l2 => L[k] # L[l2]
          <6>1. \A k \in 1..m : ~Before(L[k], L[k])
            BY <1>1
          <6> QED
            BY <1>1, <6>1
        <5>0. m \in Nat
          BY <1>1
        <5>2. \A k, l2 \in 1..m : k # l2 => k < l2 \/ l2 < k
          BY <5>0
        <5> QED
          BY <5>1, <5>2
      <4> QED
        BY <1>4, <2>3, <4>1
    <3>2. f \in [1..n -> ToSet(B)] /\ \A b \in ToSet(B) : \E k \in 1..n : f[k] = b
      BY <1>5, <2>3
    <3> HIDE DEF f
    <3>3. f \in Injection(1..n, ToSet(B)) /\ f \in Surjection(1..n, ToSet(B))
      BY <3>1, <3>2 DEF Injection, Surjection, IsInjective
    <3>4. IsFiniteSet(1..n) /\ Cardinality(1..n) = n
      <4>1. IsFiniteSet(1..n) /\ Cardinality(1..n) = IF 1 > n THEN 0 ELSE n - 1 + 1
        BY FS_Interval
      <4> QED
        BY <4>1
    <3>5. Cardinality(ToSet(B)) = Cardinality(1..n) <=> f \in Injection(1..n, ToSet(B))
      BY <3>3, <3>4, FS_Surjection
    <3> QED
      BY <3>3, <3>4, <3>5
  <2> QED
    BY <2>4, <2>5
<1>8. \A k \in 1..j : Cardinality(Better(H, B[k])) = k - 1
  <2>1. \A k \in 1..j : k \in 1..m /\ B[k] = L[k]
    BY <1>1, <1>2, <1>4
  <2>2. \A k \in 1..m : Cardinality(Better(H, L[k])) = k - 1
    BY <1>1
  <2> QED
    BY <2>1, <2>2
<1>9. \A h \in H : \/ h \in ToSet(B)
                   \/ Cardinality(ToSet(B)) = n /\ \A g \in ToSet(B) : Before(g, h)
  BY <1>7
<1> QED
  BY <1>4, <1>6, <1>8, <1>9 DEF j, B, L, m

(* What the merge has kept of the hits it has seen: one for each id, no    *)
(* worse than any of that id.                                              *)
Merged(S, A) ==
  /\ S \subseteq A /\ OnePerId(S)
  /\ \A a \in A : \E s \in S : s.id = a.id /\ s.score >= a.score

(* Merging one more tier keeps it so: of two copies of an id the better one *)
(* stays, whichever tier it is from.                                       *)
LEMMA TierMerged ==
  ASSUME NEW A, Ratings(A), NEW S, Merged(S, A), NEW B, Ratings(B), OnePerId(B)
  PROVE  Merged(BetterCopies(S, B), A \cup B)
<1> DEFINE C == BetterCopies(S, B)
<1>0. /\ S \subseteq A /\ OnePerId(S) /\ Ratings(S)
      /\ \A a \in A : \E s \in S : s.id = a.id /\ s.score >= a.score
  BY DEF Merged, Ratings
<1>1. /\ \A s \in S : (\A h \in B : h.id = s.id => s.score >= h.score) => s \in C
      /\ \A h \in B : (\A s \in S : s.id = h.id => h.score > s.score) => h \in C
      /\ \A c \in C : \/ c \in S /\ \A h \in B : h.id = c.id => c.score >= h.score
                      \/ c \in B /\ \A s \in S : s.id = c.id => c.score > s.score
  BY DEF BetterCopies
<1> HIDE DEF C
<1>2. C \subseteq A \cup B
  BY <1>0, <1>1
<1>3. OnePerId(C)
  <2> SUFFICES ASSUME NEW x \in C, NEW y \in C, x.id = y.id PROVE x = y
    BY DEF OnePerId
  <2>1. CASE x \in S /\ y \in S
    BY <1>0, <2>1 DEF OnePerId
  <2>2. CASE x \in B /\ y \in B
    BY <2>2 DEF OnePerId
  <2>3. CASE x \in S /\ y \in B /\ y \notin S /\ x \notin B
    <3>1. x.score >= y.score /\ y.score > x.score
      BY <1>1, <2>3
    <3>2. x.score \in Nat /\ y.score \in Nat
      BY <1>0, <2>3 DEF Ratings
    <3> QED
      BY <3>1, <3>2
  <2>4. CASE y \in S /\ x \in B /\ x \notin S /\ y \notin B
    <3>1. y.score >= x.score /\ x.score > y.score
      BY <1>1, <2>4
    <3>2. x.score \in Nat /\ y.score \in Nat
      BY <1>0, <2>4 DEF Ratings
    <3> QED
      BY <3>1, <3>2
  <2> QED
    BY <1>1, <2>1, <2>2, <2>3, <2>4
<1>4. ASSUME NEW a \in A PROVE \E c \in C : c.id = a.id /\ c.score >= a.score
  <2>1. PICK s \in S : s.id = a.id /\ s.score >= a.score
    BY <1>0
  <2>2. CASE \A h \in B : h.id = s.id => s.score >= h.score
    BY <1>1, <2>1, <2>2
  <2>3. CASE \E h \in B : h.id = s.id /\ ~(s.score >= h.score)
    <3>1. PICK h \in B : h.id = s.id /\ ~(s.score >= h.score)
      BY <2>3
    <3>2. h.score \in Nat /\ s.score \in Nat /\ a.score \in Nat
      BY <1>0 DEF Ratings
    <3>3. \A t \in S : t.id = h.id => t = s
      BY <1>0, <3>1 DEF OnePerId
    <3>4. h.score > s.score /\ h.score >= a.score
      BY <2>1, <3>1, <3>2
    <3>5. h \in C
      BY <1>1, <3>3, <3>4
    <3> QED
      BY <2>1, <3>1, <3>4, <3>5
  <2> QED
    BY <2>2, <2>3
<1>5. ASSUME NEW a \in B PROVE \E c \in C : c.id = a.id /\ c.score >= a.score
  <2>0. a.score \in Nat
    BY DEF Ratings
  <2>1. CASE \A s \in S : s.id = a.id => a.score > s.score
    <3>1. a \in C
      BY <1>1, <2>1
    <3> QED
      BY <2>0, <3>1
  <2>2. CASE \E s \in S : s.id = a.id /\ ~(a.score > s.score)
    <3>1. PICK s \in S : s.id = a.id /\ ~(a.score > s.score)
      BY <2>2
    <3>2. s.score \in Nat
      BY <1>0 DEF Ratings
    <3>3. s.score >= a.score
      BY <2>0, <3>1, <3>2
    <3>4. \A h \in B : h.id = s.id => h = a
      BY <3>1 DEF OnePerId
    <3>5. s \in C
      BY <1>1, <3>3, <3>4
    <3> QED
      BY <3>1, <3>3, <3>5
  <2> QED
    BY <2>1, <2>2
<1> QED
  BY <1>2, <1>3, <1>4, <1>5 DEF Merged, C

(* The search's merge over the first tiers, and the hits it has asked for. *)
SearchOver(q, n, g, m) ==
  g = [k \in 0..m |-> IF k = 0 THEN {}
                      ELSE BetterCopies(g[k - 1], ToSet(Best(Hits(TierOrder[k], q), n)))]
Asked(q, n, m) == UNION {ToSet(Best(Hits(TierOrder[k], q), n)) : k \in 1..m}

(* The merge is a function, which its recursion determines.                *)
LEMMA SearchExists ==
  ASSUME NEW q, NEW n, NEW m \in Nat
  PROVE  \E g : SearchOver(q, n, g, m)
<1> DEFINE S == {k \in 0..m : \E g : SearchOver(q, n, g, k)}
           new(k) == ToSet(Best(Hits(TierOrder[k], q), n))
<1>1. 0 \in S
  <2>1. SearchOver(q, n, [k \in 0..0 |-> {}], 0)
    BY DEF SearchOver
  <2> QED
    BY <2>1
<1>2. ASSUME NEW j \in 0..m, j \in S, j < m PROVE j + 1 \in S
  <2>1. PICK g : SearchOver(q, n, g, j)
    BY <1>2
  <2> DEFINE h == [k \in 0..(j + 1) |-> IF k = 0 THEN {} ELSE BetterCopies(g[k - 1], new(k))]
  <2>0. g = [k \in 0..j |-> IF k = 0 THEN {} ELSE BetterCopies(g[k - 1], new(k))]
    BY <2>1 DEF SearchOver
  <2>2. \A k \in 0..j : h[k] = g[k]
    <3> HIDE DEF new
    <3>1. \A k \in 0..j : g[k] = IF k = 0 THEN {} ELSE BetterCopies(g[k - 1], new(k))
      BY <2>0
    <3>2. \A k \in 0..j : k \in 0..(j + 1)
      OBVIOUS
    <3> QED
      BY <3>1, <3>2
  <2>3. \A k \in 0..(j + 1) : k # 0 => k - 1 \in 0..j
    OBVIOUS
  <2>4. SearchOver(q, n, h, j + 1)
    <3>1. \A k \in 0..(j + 1) : k # 0 => h[k - 1] = g[k - 1]
      BY <2>2, <2>3
    <3>2. h = [k \in 0..(j + 1) |-> IF k = 0 THEN {} ELSE BetterCopies(h[k - 1], new(k))]
      BY <3>1
    <3> QED
      BY <3>2 DEF SearchOver
  <2>5. j + 1 \in 0..m
    BY <1>2
  <2> HIDE DEF h
  <2> QED
    BY <2>4, <2>5
<1>3. m \in S
  <2> HIDE DEF S
  <2>1. \A k \in 0..m : k \in S
    BY <1>1, <1>2, Upwards
  <2> QED
    BY <2>1
<1> QED
  BY <1>3

(* A tier's hits can be ranked.                                            *)
LEMMA TierRatable ==
  ASSUME NEW q, IsFiniteSet(q), NEW t
  PROVE  Ratable(Hits(t, q)) /\ \A h \in Hits(t, q) : h.score \in 1..Cardinality(q)
<1> DEFINE I == {j \in MemoryIds : Score(q, stored[t][j]) > 0}
           H == Hits(t, q)
<1>1. IsFiniteSet(I) /\ I \subseteq Nat
  BY MemoryAssumption, FS_Subset DEF MemoryAssumption
<1>2. \A i \in I : Score(q, stored[t][i]) \in 1..Cardinality(q)
  <2> SUFFICES ASSUME NEW i \in I PROVE Score(q, stored[t][i]) \in 1..Cardinality(q)
    OBVIOUS
  <2>1. PICK c : c = q \cap stored[t][i]
    OBVIOUS
  <2>2. c \in SUBSET q
    BY <2>1
  <2>3. Cardinality(c) <= Cardinality(q) /\ Cardinality(c) \in Nat /\ Cardinality(q) \in Nat
    BY <2>2, FS_Subset, FS_CardinalityType
  <2>4. Score(q, stored[t][i]) = Cardinality(c) /\ Cardinality(c) > 0
    BY <2>1 DEF Score
  <2> QED
    BY <2>3, <2>4
<1> DEFINE hit == [i \in I |-> Hit(i, stored[t][i], q)]
<1>3. \A i \in I : hit[i].id = i /\ hit[i].score = Score(q, stored[t][i])
  BY DEF Hit
<1>4. H = {hit[i] : i \in I}
  BY DEF Hits
<1> HIDE DEF I, hit, H
<1>5. \A h \in H : h.id \in I /\ h = hit[h.id]
  BY <1>3, <1>4
<1>6. Ratings(H) /\ \A h \in H : h.score \in 1..Cardinality(q)
  <2>1. Cardinality(q) \in Nat
    BY FS_CardinalityType
  <2>2. ASSUME NEW h \in H PROVE h.id \in Nat /\ h.score \in 1..Cardinality(q)
    <3>1. PICK i \in I : h = hit[i]
      BY <1>4
    <3>2. h.id = i /\ h.score = Score(q, stored[t][i])
      BY <1>3, <3>1
    <3> QED
      BY <1>1, <1>2, <3>2
  <2>3. \A h \in H : h.id \in Nat /\ h.score \in Nat
    BY <2>1, <2>2
  <2> QED
    BY <2>2, <2>3 DEF Ratings
<1>7. OnePerId(H)
  BY <1>5 DEF OnePerId
<1>8. IsFiniteSet(H)
  <2>1. hit \in Surjection(I, H)
    <3>1. hit \in [I -> H] /\ \A h \in H : \E i \in I : hit[i] = h
      BY <1>4, <1>5 DEF hit
    <3> QED
      BY <3>1 DEF Surjection
  <2> QED
    BY <1>1, <2>1, FS_Surjection
<1> QED
  BY <1>6, <1>7, <1>8 DEF Ratable, H

(* The search ranks the merge of what it asked of all tiers.               *)
LEMMA AllMerged ==
  ASSUME NEW q, IsFiniteSet(q), NEW n \in Nat
  PROVE  \E M : /\ Search(q, n) = Best(M, n)
                /\ Ratable(M) /\ Merged(M, Asked(q, n, Len(TierOrder)))
<1> DEFINE L == Len(TierOrder)
           new(k) == ToSet(Best(Hits(TierOrder[k], q), n))
           A(m) == Asked(q, n, m)
<1>1. L \in Nat
  BY MemoryAssumption DEF MemoryAssumption
<1>2. PICK g : SearchOver(q, n, g, L) /\ Search(q, n) = Best(g[L], n)
  <2> DEFINE u == CHOOSE f : SearchOver(q, n, f, L)
  <2>1. SearchOver(q, n, u, L)
    BY <1>1, SearchExists
  <2>2. Search(q, n) = Best(u[L], n)
    BY DEF Search, SearchOver
  <2> HIDE DEF u
  <2> QED
    BY <2>1, <2>2
<1>3. \A k : Ratable(new(k))
  <2> SUFFICES ASSUME NEW k PROVE Ratable(new(k))
    OBVIOUS
  <2>1. Ratable(Hits(TierOrder[k], q))
    BY TierRatable
  <2>2. new(k) \subseteq Hits(TierOrder[k], q)
    BY <2>1, BestOnes
  <2>3. IsFiniteSet(new(k))
    BY <2>1, <2>2, FS_Subset DEF Ratable
  <2> HIDE DEF new
  <2> QED
    BY <2>1, <2>2, <2>3 DEF Ratable, Ratings, OnePerId
<1>4. A(0) = {} /\ \A k \in 0..L : k < L => A(k + 1) = A(k) \cup new(k + 1)
  <2>1. A(0) = {}
    BY DEF Asked
  <2>2. ASSUME NEW k \in 0..L, k < L PROVE A(k + 1) = A(k) \cup new(k + 1)
    <3>1. 1..(k + 1) = (1..k) \cup {k + 1}
      OBVIOUS
    <3>2. A(k + 1) = UNION {new(l) : l \in 1..(k + 1)} /\ A(k) = UNION {new(l) : l \in 1..k}
      BY DEF Asked
    <3> HIDE DEF new
    <3> QED
      BY <3>1, <3>2
  <2> QED
    BY <2>1, <2>2
<1>5. g[0] = {} /\ \A k \in 0..L : k < L => g[k + 1] = BetterCopies(g[k], new(k + 1))
  <2>1. \A k \in 0..L : k < L => k + 1 \in 0..L /\ k + 1 # 0 /\ (k + 1) - 1 = k
    BY <1>1
  <2>2. 0 \in 0..L
    BY <1>1
  <2> QED
    BY <1>2, <2>1, <2>2 DEF SearchOver
<1> HIDE DEF new, A, L
<1> DEFINE S == {k \in 0..L : Merged(g[k], A(k)) /\ IsFiniteSet(A(k)) /\ Ratings(A(k))}
<1>6. 0 \in S
  <2>1. Merged({}, {}) /\ Ratings({})
    BY DEF Merged, OnePerId, Ratings
  <2>2. IsFiniteSet({})
    BY FS_EmptySet
  <2>3. g[0] = {} /\ A(0) = {} /\ 0 \in 0..L
    BY <1>1, <1>4, <1>5
  <2> QED
    BY <2>1, <2>2, <2>3
<1>7. ASSUME NEW k \in 0..L, k \in S, k < L PROVE k + 1 \in S
  <2>1. Merged(g[k], A(k)) /\ IsFiniteSet(A(k)) /\ Ratings(A(k))
    BY <1>7
  <2>2. IsFiniteSet(new(k + 1)) /\ Ratings(new(k + 1)) /\ OnePerId(new(k + 1))
    BY <1>3 DEF Ratable
  <2>3. A(k + 1) = A(k) \cup new(k + 1) /\ g[k + 1] = BetterCopies(g[k], new(k + 1))
    BY <1>4, <1>5, <1>7
  <2>4. Merged(g[k + 1], A(k + 1))
    BY <2>1, <2>2, <2>3, TierMerged
  <2>5. IsFiniteSet(A(k + 1)) /\ Ratings(A(k + 1))
    <3>1. PICK X : X = A(k)
      OBVIOUS
    <3>2. PICK Y : Y = new(k + 1)
      OBVIOUS
    <3>3. IsFiniteSet(X \cup Y)
      BY <2>1, <2>2, <3>1, <3>2, FS_Union
    <3>4. Ratings(X \cup Y)
      BY <2>1, <2>2, <3>1, <3>2 DEF Ratings
    <3> QED
      BY <2>3, <3>1, <3>2, <3>3, <3>4
  <2>6. k + 1 \in 0..L
    BY <1>1, <1>7
  <2> QED
    BY <2>4, <2>5, <2>6
<1>8. L \in S
  <2> HIDE DEF S
  <2>1. \A k \in 0..L : k \in S
    BY <1>1, <1>6, <1>7, Upwards
  <2> QED
    BY <1>1, <2>1
<1>9. Merged(g[L], A(L)) /\ IsFiniteSet(A(L)) /\ Ratings(A(L))
  BY <1>8
<1>10. Ratable(g[L])
  <2>1. g[L] \subseteq A(L) /\ OnePerId(g[L])
    BY <1>9 DEF Merged
  <2>2. IsFiniteSet(g[L])
    BY <1>9, <2>1, FS_Subset
  <2> QED
    BY <1>9, <2>1, <2>2 DEF Ratable, Ratings
<1> QED
  BY <1>2, <1>9, <1>10 DEF A, L

(* What is stored in any tier and matches.                                 *)
AllHits(q) == UNION {Hits(t, q) : t \in Tiers}

(* What a tier returns is stored there.                                    *)
LEMMA AskedAreHits ==
  ASSUME NEW q, IsFiniteSet(q), NEW n \in Nat
  PROVE  Asked(q, n, Len(TierOrder)) \subseteq AllHits(q)
<1> SUFFICES ASSUME NEW h \in Asked(q, n, Len(TierOrder)) PROVE h \in AllHits(q)
  OBVIOUS
<1>1. PICK k \in 1..Len(TierOrder) : h \in ToSet(Best(Hits(TierOrder[k], q), n))
  BY DEF Asked
<1>2. Ratable(Hits(TierOrder[k], q))
  BY TierRatable
<1>3. h \in Hits(TierOrder[k], q)
  BY <1>1, <1>2, BestOnes
<1>4. TierOrder[k] \in Tiers
  BY MemoryAssumption DEF Tiers, ToSet, MemoryAssumption
<1> QED
  BY <1>3, <1>4 DEF AllHits

(* A hit a tier has not returned, as too far down, has as many of the      *)
(* merged before it as were asked for.                                     *)
LEMMA MergedOrBehind ==
  ASSUME NEW q, IsFiniteSet(q), NEW n \in Nat,
         NEW M, Ratable(M), Merged(M, Asked(q, n, Len(TierOrder))), NEW g \in AllHits(q)
  PROVE  \/ \E s \in M : s.id = g.id /\ s.score >= g.score
         \/ n <= Cardinality(Better(M, g))
<1> DEFINE A == Asked(q, n, Len(TierOrder))
<1>1. PICK k \in 1..Len(TierOrder) : g \in Hits(TierOrder[k], q)
  <2>1. PICK t \in Tiers : g \in Hits(t, q)
    BY DEF AllHits
  <2>2. PICK k \in 1..Len(TierOrder) : t = TierOrder[k]
    BY MemoryAssumption DEF Tiers, ToSet, MemoryAssumption
  <2> QED
    BY <2>1, <2>2
<1> DEFINE H == Hits(TierOrder[k], q)
           B == ToSet(Best(H, n))
<1>2. Ratable(H)
  BY TierRatable
<1>3. /\ B \subseteq H
      /\ \/ g \in B
         \/ Cardinality(B) = n /\ \A h \in B : Before(h, g)
  BY <1>1, <1>2, BestOnes
<1>4. B \subseteq A
  BY DEF Asked
<1> HIDE DEF H, B, A
<1>5. \A a \in A : \E s \in M : s.id = a.id /\ s.score >= a.score
  BY DEF Merged, A
<1>6. CASE g \in B
  BY <1>4, <1>5, <1>6
<1>7. CASE Cardinality(B) = n /\ \A h \in B : Before(h, g)
  <2> DEFINE T == Better(M, g)
             f == [b \in B |-> CHOOSE s \in M : s.id = b.id /\ s.score >= b.score]
  <2>0. g \in H
    BY <1>1 DEF H
  <2>1. ASSUME NEW b \in B
        PROVE  f[b] \in T /\ f[b].id = b.id
    <3>1. f[b] \in M /\ f[b].id = b.id /\ f[b].score >= b.score
      BY <1>4, <1>5
    <3>2. Before(b, g) /\ b \in H
      BY <1>3, <1>7
    <3> HIDE DEF f
    <3>3. f[b].score \in Nat /\ f[b].id \in Nat /\ b.score \in Nat /\ g.score \in Nat
          /\ g.id \in Nat
      BY <1>2, <2>0, <3>1, <3>2 DEF Ratable, Ratings
    <3>4. Before(f[b], g)
      BY <3>1, <3>2, <3>3 DEF Before
    <3> QED
      BY <3>1, <3>4 DEF Better
  <2>2. f \in [B -> T]
    BY <2>1
  <2> HIDE DEF f
  <2>3. ASSUME NEW b \in B, NEW c \in B, f[b] = f[c] PROVE b = c
    BY <1>2, <1>3, <2>1, <2>3 DEF Ratable, OnePerId
  <2>4. f \in Injection(B, T)
    BY <2>2, <2>3 DEF Injection, IsInjective
  <2>5. IsFiniteSet(T)
    BY FS_Subset DEF Ratable, Better
  <2> HIDE DEF T
  <2>6. Cardinality(B) <= Cardinality(T)
    BY <2>4, <2>5, FS_Injection
  <2> QED
    BY <1>7, <2>6 DEF T
<1> QED
  BY <1>3, <1>6, <1>7

(* The best score there is for an id that matches.                         *)
TopScore(H, i, s) ==
  /\ \E h \in H : h.id = i /\ h.score = s
  /\ \A h \in H : h.id = i => h.score <= s

(* What matches has a best score, as no score exceeds the query's words.   *)
LEMMA TopScoreExists ==
  ASSUME NEW q, IsFiniteSet(q), NEW g \in AllHits(q)
  PROVE  \E s \in Nat : TopScore(AllHits(q), g.id, s)
<1> DEFINE S == {h.score : h \in {x \in AllHits(q) : x.id = g.id}}
<1>1. \A h \in AllHits(q) : h.score \in 1..Cardinality(q)
  BY TierRatable DEF AllHits
<1>2. Cardinality(q) \in Nat
  BY FS_CardinalityType
<1>3. S \in SUBSET (1..Cardinality(q)) /\ S # {}
  BY <1>1
<1>4. PICK s \in S : \A x \in S : x <= s
  <2> HIDE DEF S
  <2> QED
    BY <1>2, <1>3, LastPosition
<1>5. s \in Nat
  BY <1>2, <1>3
<1>6. TopScore(AllHits(q), g.id, s)
  BY <1>4 DEF TopScore
<1> QED
  BY <1>5, <1>6

(* As long as fewer than were asked for are merged, nothing that matches   *)
(* is missing, so the search returns as many as there are.                 *)
LEMMA AsManyAsThereAre ==
  ASSUME NEW q, IsFiniteSet(q), NEW n \in Nat,
         NEW M, Ratable(M), Merged(M, Asked(q, n, Len(TierOrder)))
  PROVE  /\ Cardinality({h.id : h \in AllHits(q)}) \in Nat
         /\ Fewest(Cardinality(M), n) = Fewest(Cardinality({h.id : h \in AllHits(q)}), n)
<1> DEFINE I == {h.id : h \in AllHits(q)}
           f == [s \in M |-> s.id]
<1>1. M \subseteq AllHits(q)
  BY AskedAreHits DEF Merged
<1>2. IsFiniteSet(I)
  <2>1. I \in SUBSET MemoryIds
    BY DEF AllHits, Hits, Hit
  <2> HIDE DEF I
  <2> QED
    BY <2>1, MemoryAssumption, FS_Subset DEF MemoryAssumption
<1>3. f \in [M -> I] /\ \A s, t \in M : f[s] = f[t] => s = t
  BY <1>1 DEF Ratable, OnePerId
<1>4. Cardinality(M) <= Cardinality(I) /\ Cardinality(I) \in Nat /\ Cardinality(M) \in Nat
  <2>1. f \in Injection(M, I)
    BY <1>3 DEF Injection, IsInjective
  <2> HIDE DEF f, I
  <2> QED
    BY <1>2, <2>1, FS_Injection, FS_CardinalityType DEF Ratable
<1>5. CASE Cardinality(M) < n
  <2>1. ASSUME NEW i \in I PROVE \E s \in M : f[s] = i
    <3>1. PICK g \in AllHits(q) : g.id = i
      OBVIOUS
    <3>2. ~(n <= Cardinality(Better(M, g)))
      <4> DEFINE T == Better(M, g)
      <4>1. T \in SUBSET M
        BY DEF Better
      <4> HIDE DEF T
      <4>2. Cardinality(T) <= Cardinality(M) /\ Cardinality(T) \in Nat
        BY <4>1, FS_Subset, FS_CardinalityType DEF Ratable
      <4>3. ~(n <= Cardinality(T))
        BY <1>4, <1>5, <4>2
      <4> QED
        BY <4>3 DEF T
    <3>3. \E s \in M : s.id = g.id /\ s.score >= g.score
      BY <3>2, MergedOrBehind
    <3> QED
      BY <3>1, <3>3
  <2>2. f \in Surjection(M, I)
    BY <1>3, <2>1 DEF Surjection
  <2> HIDE DEF f, I
  <2>3. Cardinality(I) <= Cardinality(M)
    BY <2>2, FS_Surjection DEF Ratable
  <2>4. Cardinality(M) = Cardinality(I)
    BY <1>4, <2>3
  <2> QED
    BY <1>4, <2>4 DEF I
<1>6. CASE ~(Cardinality(M) < n)
  <2> HIDE DEF I
  <2>1. Fewest(Cardinality(M), n) = Fewest(Cardinality(I), n)
    BY <1>4, <1>6 DEF Fewest
  <2> QED
    BY <1>4, <2>1 DEF I
<1> QED
  BY <1>5, <1>6

(* A list of the n best of some hits, or of all if they are fewer.         *)
ListsBest(f, H, n) ==
  /\ Len(f) = Fewest(Cardinality({h.id : h \in H}), n)
  /\ \A k \in DOMAIN f :
       /\ f[k] \in H /\ TopScore(H, f[k].id, f[k].score)
       /\ \A g \in H : g.id \notin {f[j].id : j \in 1..k} => Before(f[k], g)

(* Each place of the result is taken by the best of what is left.          *)
LEMMA BestOfAll ==
  ASSUME NEW q, IsFiniteSet(q), NEW n \in Nat
  PROVE  ListsBest(Search(q, n), AllHits(q), n)
<1> DEFINE found == Search(q, n)
           I == {h.id : h \in AllHits(q)}
           All == AllHits(q)
<1>1. PICK M : found = Best(M, n) /\ Ratable(M) /\ Merged(M, Asked(q, n, Len(TierOrder)))
  BY AllMerged
<1> DEFINE m == Fewest(Cardinality(M), n)
<1>2. /\ M \subseteq All /\ OnePerId(M) /\ Ratings(M)
      /\ \A g \in All : \/ \E s \in M : s.id = g.id /\ s.score >= g.score
                        \/ n <= Cardinality(Better(M, g))
  <2>1. M \subseteq All
    BY <1>1, AskedAreHits DEF Merged
  <2>2. OnePerId(M) /\ Ratings(M)
    BY <1>1 DEF Ratable
  <2>3. \A g \in All : \/ \E s \in M : s.id = g.id /\ s.score >= g.score
                       \/ n <= Cardinality(Better(M, g))
    BY <1>1, MergedOrBehind
  <2> QED
    BY <2>1, <2>2, <2>3
<1>3. m = Fewest(Cardinality(I), n)
  BY <1>1, AsManyAsThereAre
<1>4. /\ Len(found) = m /\ DOMAIN found = 1..m
      /\ \A k \in 1..m : /\ found[k] = Ranked(M)[k] /\ found[k] \in M
                         /\ Cardinality(Better(M, found[k])) = k - 1
  <2>0. Ratable(M)
    BY <1>1
  <2>2. found = Best(M, n)
    BY <1>1
  <2> HIDE DEF found
  <2>1. /\ Len(Best(M, n)) = m /\ DOMAIN Best(M, n) = 1..m
        /\ \A k \in 1..m :
             /\ Best(M, n)[k] = Ranked(M)[k] /\ Best(M, n)[k] \in M
             /\ Cardinality(Better(M, Best(M, n)[k])) = k - 1
    BY <2>0, BestOnes
  <2> HIDE DEF m
  <2> QED
    BY <2>1, <2>2
<1>5. m \in Nat /\ m <= n /\ m <= Cardinality(M) /\ Cardinality(M) \in Nat
  <2>1. Cardinality(M) \in Nat
    BY <1>1, FS_CardinalityType DEF Ratable
  <2> QED
    BY <2>1 DEF Fewest
<1>6. Ratings(All)
  BY TierRatable DEF AllHits, Ratable, Ratings
<1> HIDE DEF found, I, All, m
<1>10. \A k \in 1..m : found[k] \in M /\ found[k] = Ranked(M)[k]
  BY <1>4
<1>7. ASSUME NEW k \in 1..m, NEW g \in All, Before(g, found[k])
      PROVE  \E s \in M : s.id = g.id /\ s.score >= g.score
  <2> DEFINE T(h) == Better(M, h)
  <2>0. found[k] \in M
    BY <1>4
  <2>1. T(g) \in SUBSET T(found[k])
    <3>1. ASSUME NEW s \in M, Before(s, g) PROVE Before(s, found[k])
      <4>1. /\ s.id \in Nat /\ s.score \in Nat /\ g.id \in Nat /\ g.score \in Nat
            /\ found[k].id \in Nat /\ found[k].score \in Nat
        BY <1>2, <1>6, <2>0 DEF Ratings
      <4> QED
        BY <1>7, <3>1, <4>1 DEF Before
    <3> QED
      BY <3>1 DEF Better
  <2>2. IsFiniteSet(T(found[k])) /\ Cardinality(T(found[k])) = k - 1
    <3>1. T(found[k]) \in SUBSET M
      BY DEF Better
    <3>2. IsFiniteSet(T(found[k]))
      BY <1>1, <3>1, FS_Subset DEF Ratable
    <3> QED
      BY <1>4, <3>2
  <2> HIDE DEF T
  <2>3. Cardinality(T(g)) <= k - 1 /\ Cardinality(T(g)) \in Nat
    BY <2>1, <2>2, FS_Subset, FS_CardinalityType
  <2>4. ~(n <= Cardinality(T(g)))
    BY <1>5, <2>3
  <2> QED
    BY <1>2, <2>4 DEF T
<1>8. ASSUME NEW k \in 1..m PROVE found[k] \in All /\ TopScore(All, found[k].id, found[k].score)
  <2>1. found[k] \in M /\ found[k] \in All
    BY <1>2, <1>4
  <2>2. ASSUME NEW g \in All, g.id = found[k].id PROVE g.score <= found[k].score
    <3>1. g.score \in Nat /\ found[k].score \in Nat
      BY <1>6, <2>1 DEF Ratings
    <3> SUFFICES ASSUME g.score > found[k].score PROVE FALSE
      BY <3>1
    <3>2. Before(g, found[k])
      BY DEF Before
    <3>3. PICK s \in M : s.id = g.id /\ s.score >= g.score
      BY <1>7, <3>2
    <3>4. s = found[k]
      BY <1>2, <2>1, <2>2, <3>3 DEF OnePerId
    <3> QED
      BY <3>1, <3>3, <3>4
  <2> QED
    BY <2>1, <2>2 DEF TopScore
<1>9. ASSUME NEW k \in 1..m, NEW g \in All, g.id \notin {found[j].id : j \in 1..k}
      PROVE  Before(found[k], g)
  <2>1. found[k] \in M /\ found[k] \in All /\ g.id # found[k].id
    <3>1. found[k] \in M /\ k \in 1..k
      BY <1>10
    <3> QED
      BY <1>2, <1>9, <3>1
  <2>2. /\ g.id \in Nat /\ g.score \in Nat
        /\ found[k].id \in Nat /\ found[k].score \in Nat
    BY <1>6, <2>1 DEF Ratings
  <2> SUFFICES ASSUME ~Before(found[k], g) PROVE FALSE
    OBVIOUS
  <2>3. Before(g, found[k])
    BY <2>1, <2>2 DEF Before
  <2>4. PICK s \in M : s.id = g.id /\ s.score >= g.score
    BY <1>7, <2>3
  <2>5. Before(s, found[k])
    <3>1. s.id \in Nat /\ s.score \in Nat
      BY <1>2 DEF Ratings
    <3> QED
      BY <2>2, <2>3, <2>4, <3>1 DEF Before
  <2>6. PICK l \in 1..Cardinality(M) : Ranked(M)[l] = s
    BY <1>1, RankedInOrder
  <2>7. k \in 1..Cardinality(M) /\ Ranked(M)[k] = found[k]
    BY <1>5, <1>10
  <2>8. l < k
    BY <1>1, <2>5, <2>6, <2>7, RankedInOrder
  <2>9. l \in 1..m /\ l \in 1..k /\ found[l] = s
    BY <1>5, <1>10, <2>6, <2>8
  <2> QED
    BY <1>9, <2>4, <2>9
<1>11. ListsBest(found, All, n)
  <2>1. I = {h.id : h \in All}
    BY DEF I, All
  <2>2. Len(found) = Fewest(Cardinality({h.id : h \in All}), n)
    BY <1>3, <1>4, <2>1
  <2>3. ASSUME NEW k \in DOMAIN found
        PROVE  /\ found[k] \in All /\ TopScore(All, found[k].id, found[k].score)
               /\ \A g \in All : g.id \notin {found[j].id : j \in 1..k} => Before(found[k], g)
    <3>1. k \in 1..m
      BY <1>4
    <3> QED
      BY <1>8, <1>9, <3>1
  <2> QED
    BY <2>2, <2>3 DEF ListsBest
<1> QED
  BY <1>11 DEF found, All

(* Whatever is stored, and in whichever tier, a search over the tiers      *)
(* returns the best items there are, in order.                             *)
THEOREM SearchIsGlobal == MemorySpec => []SearchRanksGlobally
<1>1. SearchRanksGlobally
  <2>1. ASSUME NEW q \in Queries, NEW n \in 1..2
        PROVE  LET all == UNION {Hits(t, q) : t \in Tiers}
                   scores == [i \in {h.id : h \in all} |->
                               CHOOSE s \in {h.score : h \in {g \in all : g.id = i}} :
                                 \A h \in {g \in all : g.id = i} : h.score <= s]
                   found == Search(q, n)
               IN /\ Len(found) = (IF Cardinality(DOMAIN scores) < n THEN Cardinality(DOMAIN scores)
                                   ELSE n)
                  /\ \A k \in DOMAIN found :
                       /\ found[k] \in all /\ found[k].score = scores[found[k].id]
                       /\ \A i \in DOMAIN scores \ {found[j].id : j \in 1..k} :
                            \/ scores[i] < found[k].score
                            \/ scores[i] = found[k].score /\ i < found[k].id
    <3> DEFINE all == UNION {Hits(t, q) : t \in Tiers}
               ids == {h.id : h \in all}
               best(i) == CHOOSE s \in {h.score : h \in {g \in all : g.id = i}} :
                            \A h \in {g \in all : g.id = i} : h.score <= s
               scores == [i \in ids |-> best(i)]
               found == Search(q, n)
    <3>0. IsFiniteSet(q) /\ n \in Nat
      BY MemoryAssumption DEF MemoryAssumption
    <3>1. all = AllHits(q)
      BY DEF AllHits
    <3>2. /\ Len(found) = Fewest(Cardinality(ids), n)
          /\ \A k \in DOMAIN found :
               /\ found[k] \in all /\ TopScore(all, found[k].id, found[k].score)
               /\ \A g \in all : g.id \notin {found[j].id : j \in 1..k} => Before(found[k], g)
      <4>1. ListsBest(found, AllHits(q), n)
        BY <3>0, BestOfAll
      <4> HIDE DEF all, found
      <4>2. ListsBest(found, all, n)
        BY <3>1, <4>1
      <4> QED
        BY <4>2 DEF ListsBest
    <3>3. Ratings(all)
      <4>1. \A t \in Tiers : Ratings(Hits(t, q))
        BY <3>0, TierRatable DEF Ratable
      <4>2. ASSUME NEW h \in all PROVE h.id \in Nat /\ h.score \in Nat
        <5>1. PICK t \in Tiers : h \in Hits(t, q)
          OBVIOUS
        <5> QED
          BY <4>1, <5>1 DEF Ratings
      <4> HIDE DEF all
      <4> QED
        BY <4>2 DEF Ratings
    <3>4. ASSUME NEW g \in all PROVE best(g.id) \in Nat /\ TopScore(all, g.id, best(g.id))
      <4>0. \A x \in AllHits(q) : \E s \in Nat : TopScore(AllHits(q), x.id, s)
        BY <3>0, TopScoreExists
      <4> DEFINE S == {h.score : h \in {x \in all : x.id = g.id}}
      <4> HIDE DEF all
      <4>1. PICK s \in Nat : TopScore(all, g.id, s)
        BY <3>1, <4>0
      <4> DEFINE T(x) == \A h \in {y \in all : y.id = g.id} : h.score <= x
      <4>2. s \in S /\ T(s)
        BY <4>1 DEF TopScore
      <4>3. best(g.id) \in S /\ T(best(g.id))
        <5>1. best(g.id) = CHOOSE x \in S : T(x)
          OBVIOUS
        <5> HIDE DEF S, T, best
        <5> QED
          BY <4>2, <5>1
      <4> HIDE DEF best
      <4> QED
        BY <3>3, <4>3 DEF TopScore, Ratings
    <3> HIDE DEF all, best, found
    <3>5. ASSUME NEW k \in DOMAIN found
          PROVE  found[k] \in all /\ found[k].score = best(found[k].id) /\ found[k].id \in ids
      <4>1. found[k] \in all /\ TopScore(all, found[k].id, found[k].score)
        BY <3>2
      <4>2. best(found[k].id) \in Nat /\ TopScore(all, found[k].id, best(found[k].id))
            /\ found[k].score \in Nat
        BY <3>3, <3>4, <4>1 DEF Ratings
      <4>3. found[k].score <= best(found[k].id) /\ best(found[k].id) <= found[k].score
        BY <4>1, <4>2 DEF TopScore
      <4> QED
        BY <4>1, <4>2, <4>3
    <3>6. ASSUME NEW k \in DOMAIN found, NEW i \in ids \ {found[j].id : j \in 1..k}
          PROVE  \/ best(i) < found[k].score
                 \/ best(i) = found[k].score /\ i < found[k].id
      <4>1. PICK h \in all : h.id = i
        OBVIOUS
      <4>2. PICK g \in all : g.id = i /\ g.score = best(i)
        BY <3>4, <4>1 DEF TopScore
      <4>3. Before(found[k], g)
        BY <3>2, <4>2
      <4>4. found[k] \in all
        BY <3>2
      <4>5. /\ g.score \in Nat /\ g.id \in Nat
            /\ found[k].score \in Nat /\ found[k].id \in Nat
        BY <3>3, <4>4 DEF Ratings
      <4> QED
        BY <4>2, <4>3, <4>5 DEF Before
    <3>7. DOMAIN scores = ids /\ \A i \in ids : scores[i] = best(i)
      OBVIOUS
    <3> HIDE DEF scores
    <3>8. Len(found) = IF Cardinality(DOMAIN scores) < n THEN Cardinality(DOMAIN scores) ELSE n
      BY <3>2, <3>7 DEF Fewest
    <3>9. \A k \in DOMAIN found :
            /\ found[k] \in all /\ found[k].score = scores[found[k].id]
            /\ \A i \in DOMAIN scores \ {found[j].id : j \in 1..k} :
                 \/ scores[i] < found[k].score
                 \/ scores[i] = found[k].score /\ i < found[k].id
      BY <3>5, <3>6, <3>7
    <3> QED
      BY <3>8, <3>9 DEF scores, found, all, best
  <2> QED
    BY <2>1 DEF SearchRanksGlobally
<1> QED
  BY <1>1, PTL

-----------------------------------------------------------------------------
(***************************************************************************)
(* Appends of several processes to one log, for any processes and rows.    *)
(***************************************************************************)

(* What an append has read was the length of a log that only grows, so     *)
(* that what passes the key's check is still its length.                   *)
AppendsInFlight ==
  \A c \in Clients : InCall(c, "append") =>
    call[c].arg \in Nat /\ call[c].saw \in Nat /\ call[c].saw <= Len(log)
Acknowledged ==
  \A a \in acked : a[1] \in Nat \ {0} /\ a[1] <= Len(log) /\ log[a[1]] = a[2]
AppendInv == log \in Seq(Clients) /\ AppendsInFlight /\ Acknowledged
             /\ DOMAIN call = Clients

(* A call that begins has seen a part of the log and changes none of it.   *)
LEMMA CallBegins ==
  ASSUME AppendInv, NEW c \in Clients, NEW op, NEW arg, NEW saw, Begin(c, op, arg, saw),
         op = "append" => arg \in Nat /\ saw \in Nat /\ saw <= Len(log)
  PROVE  AppendInv'
<1> DEFINE new == [op |-> op, arg |-> arg, saw |-> saw]
<1>1. log' = log /\ acked' = acked /\ call' = [call EXCEPT ![c] = new]
  BY DEF Begin
<1>2. new.op = op /\ new.arg = arg /\ new.saw = saw
  OBVIOUS
<1> HIDE DEF new
<1>3. AppendsInFlight'
  <2> SUFFICES ASSUME NEW d \in Clients, InCall(d, "append")'
               PROVE  call'[d].arg \in Nat /\ call'[d].saw \in Nat /\ call'[d].saw <= Len(log)
    BY <1>1 DEF AppendsInFlight
  <2>1. CASE d = c
    BY <1>1, <1>2, <2>1 DEF InCall, AppendInv
  <2>2. CASE d # c
    BY <1>1, <2>2 DEF InCall, AppendInv, AppendsInFlight
  <2> QED
    BY <2>1, <2>2
<1> QED
  BY <1>1, <1>3 DEF AppendInv, Acknowledged

(* A call is over, and the log is as it was.                               *)
LEMMA CallOver ==
  ASSUME AppendInv, NEW c \in Clients, Return(c), log' \in Seq(Clients),
         Len(log) <= Len(log'), Acknowledged'
  PROVE  AppendInv'
<1>1. AppendsInFlight'
  <2> SUFFICES ASSUME NEW d \in Clients, InCall(d, "append")'
               PROVE  call'[d].arg \in Nat /\ call'[d].saw \in Nat /\ call'[d].saw <= Len(log')
    BY DEF AppendsInFlight
  <2>1. CASE d = c
    BY <2>1, StoresAssumption DEF InCall, Return, AppendInv
  <2>2. CASE d # c
    BY <2>2 DEF InCall, Return, AppendInv, AppendsInFlight
  <2> QED
    BY <2>1, <2>2
<1> QED
  BY <1>1 DEF AppendInv, Return

(* Rows are appended where the log ends, or refused because it has moved.  *)
LEMMA RowsAppended ==
  ASSUME AppendInv, NEW c \in Clients, RowsInserted(c)
  PROVE  AppendInv'
<1>1. CASE Taken(call[c].saw)
  BY <1>1, CallOver DEF RowsInserted, AppendInv, Acknowledged
<1>2. CASE ~Taken(call[c].saw)
  <2> DEFINE n == call[c].arg
             rows == [i \in 1..n |-> c]
  <2>1. n \in Nat /\ call[c].saw = Len(log) /\ log \in Seq(Clients)
    BY <1>2 DEF RowsInserted, Taken, AppendInv, AppendsInFlight
  <2>2. rows \in Seq(Clients) /\ Len(rows) = n
    BY <2>1
  <2>3. log' = log \o rows /\ acked' = acked \cup {<<Len(log) + i, c>> : i \in 1..n}
    BY <1>2, <2>1 DEF RowsInserted
  <2> HIDE DEF n
  <2>4. /\ log' \in Seq(Clients) /\ Len(log') = Len(log) + n
        /\ \A k \in 1..Len(log) : log'[k] = log[k]
        /\ \A k \in 1..n : log'[Len(log) + k] = c
    BY <2>1, <2>2, <2>3
  <2>5. Acknowledged'
    <3> SUFFICES ASSUME NEW a \in acked'
                 PROVE  a[1] \in Nat \ {0} /\ a[1] <= Len(log') /\ log'[a[1]] = a[2]
      BY DEF Acknowledged
    <3>1. CASE a \in acked
      BY <2>1, <2>4, <3>1 DEF AppendInv, Acknowledged
    <3>2. CASE a \notin acked
      <4>1. PICK i \in 1..n : a = <<Len(log) + i, c>>
        BY <2>3, <3>2
      <4>2. a[1] = Len(log) + i /\ a[2] = c
        BY <4>1
      <4>3. Len(log) \in Nat /\ i \in Nat /\ i >= 1 /\ i <= n
        BY <2>1
      <4>4. log'[Len(log) + i] = c
        BY <2>4
      <4>5. a[1] \in Nat \ {0} /\ a[1] <= Len(log')
        BY <2>1, <2>4, <4>2, <4>3
      <4> QED
        BY <4>2, <4>4, <4>5
    <3> QED
      BY <3>1, <3>2
  <2> QED
    BY <2>1, <2>4, <2>5, CallOver DEF RowsInserted
<1> QED
  BY <1>1, <1>2

(* A message or an event whose append returned is at the seq it was given, *)
(* for any number of processes and of appends at once.                     *)
THEOREM AppendsAreKept == StoresSpec => []AcknowledgedRowsStay
<1>1. StoresInit => AppendInv
  BY StoresAssumption DEF StoresInit, AppendInv, AppendsInFlight, Acknowledged, InCall
<1>2. AppendInv /\ [StoresNext]_storeVars => AppendInv'
  <2> SUFFICES ASSUME AppendInv, [StoresNext]_storeVars PROVE AppendInv'
    OBVIOUS
  <2>1. CASE UNCHANGED storeVars
    BY <2>1 DEF storeVars, AppendInv, AppendsInFlight, Acknowledged, InCall
  <2>2. ASSUME NEW c \in Clients, NEW n \in 1..2, AppendMessages(c, n) PROVE AppendInv'
    BY <2>2, CallBegins DEF AppendMessages, AppendInv
  <2>3. ASSUME NEW c \in Clients, AppendEvent(c) PROVE AppendInv'
    BY <2>3, CallBegins DEF AppendEvent, AppendInv
  <2>4. ASSUME NEW c \in Clients, RowsInserted(c) PROVE AppendInv'
    BY <2>4, RowsAppended
  <2>5. ASSUME NEW c \in Clients, CreateTask(c) PROVE AppendInv'
    BY <2>5, CallBegins DEF CreateTask
  <2>6. ASSUME NEW c \in Clients, NEW t \in TaskIds,
               (\E s \in {"in_progress", "completed"} : UpdateTask(c, t, s)) \/ ReleaseTask(c, t)
        PROVE AppendInv'
    BY <2>6, CallBegins DEF UpdateTask, ReleaseTask
  <2>7. ASSUME NEW c \in Clients,
               TaskCreated(c) \/ TaskUpdated(c) \/ TaskReleased(c) \/ CallFails(c)
        PROVE AppendInv'
    <3>1. Return(c) /\ log' = log /\ acked' = acked
      BY <2>7 DEF TaskCreated, TaskUpdated, TaskReleased, CallFails
    <3> QED
      BY <3>1, CallOver DEF AppendInv, Acknowledged
  <2>8. ASSUME NEW c \in Clients, NEW t \in TaskIds, DeleteTask(c, t) \/ ClaimTask(c, t)
        PROVE AppendInv'
    BY <2>8 DEF DeleteTask, ClaimTask, AppendInv, AppendsInFlight, Acknowledged, InCall
  <2> QED
    BY <2>1, <2>2, <2>3, <2>4, <2>5, <2>6, <2>7, <2>8 DEF StoresNext
<1>3. AppendInv => AcknowledgedRowsStay
  BY DEF AppendInv, Acknowledged, AcknowledgedRowsStay
<1> QED
  BY <1>1, <1>2, <1>3, PTL DEF StoresSpec

-----------------------------------------------------------------------------
(***************************************************************************)
(* Claims of several processes to the tasks of one session.                *)
(***************************************************************************)

Rows == [status : {"pending", "in_progress", "completed"}, owner : Clients \cup {Absent}]
ClaimTypes ==
  /\ row \in [TaskIds -> Rows \cup {Absent}]
  /\ holders \in [TaskIds -> SUBSET Clients] /\ DOMAIN call = Clients

(* What the calls in progress have read and will write.                    *)
TaskCallsInFlight ==
  \A c \in Clients :
    /\ InCall(c, "create") => call[c].saw \in TaskIds
    /\ InCall(c, "update") => call[c].arg.status \in {"in_progress", "completed"}
ClaimInv == ClaimTypes /\ OneClaimer /\ TaskCallsInFlight

LEMMA ARowIsNotAbsent == \A r \in Rows : r # Absent
  BY StoresAssumption DEF Rows

(* A call that begins is of the sort the invariant describes.              *)
LEMMA TaskCallBegins ==
  ASSUME ClaimInv, NEW c \in Clients, NEW op, NEW arg, NEW saw, Begin(c, op, arg, saw),
         op = "create" => saw \in TaskIds,
         op = "update" => arg.status \in {"in_progress", "completed"}
  PROVE  ClaimInv'
<1> DEFINE new == [op |-> op, arg |-> arg, saw |-> saw]
<1>1. call' = [call EXCEPT ![c] = new] /\ UNCHANGED <<row, holders>>
  BY DEF Begin
<1>2. new.op = op /\ new.arg = arg /\ new.saw = saw
  OBVIOUS
<1> HIDE DEF new
<1>3. DOMAIN call = Clients /\ DOMAIN call' = Clients
  BY <1>1 DEF ClaimInv, ClaimTypes
<1>4. TaskCallsInFlight'
  <2> SUFFICES ASSUME NEW d \in Clients
               PROVE  /\ InCall(d, "create")' => call'[d].saw \in TaskIds
                      /\ InCall(d, "update")' =>
                           call'[d].arg.status \in {"in_progress", "completed"}
    BY DEF TaskCallsInFlight
  <2>1. CASE d = c
    BY <1>1, <1>2, <1>3, <2>1 DEF InCall
  <2>2. CASE d # c
    BY <1>1, <1>3, <2>2 DEF InCall, ClaimInv, TaskCallsInFlight
  <2> QED
    BY <2>1, <2>2
<1>5. ClaimTypes' /\ OneClaimer'
  BY <1>1, <1>3 DEF ClaimInv, ClaimTypes, OneClaimer
<1> QED
  BY <1>4, <1>5 DEF ClaimInv

(* A call is over, and those of the others go on.                          *)
LEMMA TaskCallOver ==
  ASSUME ClaimInv, NEW c \in Clients, Return(c)
  PROVE  TaskCallsInFlight' /\ DOMAIN call' = Clients
<1>1. DOMAIN call = Clients /\ call' = [call EXCEPT ![c] = Absent]
  BY DEF ClaimInv, ClaimTypes, Return
<1>2. TaskCallsInFlight'
  <2> SUFFICES ASSUME NEW d \in Clients
               PROVE  /\ InCall(d, "create")' => call'[d].saw \in TaskIds
                      /\ InCall(d, "update")' =>
                           call'[d].arg.status \in {"in_progress", "completed"}
    BY DEF TaskCallsInFlight
  <2>1. CASE d = c
    BY <1>1, <2>1 DEF InCall
  <2>2. CASE d # c
    BY <1>1, <2>2 DEF InCall, ClaimInv, TaskCallsInFlight
  <2> QED
    BY <2>1, <2>2
<1> QED
  BY <1>1, <1>2

(* A call that leaves the tasks alone.                                     *)
LEMMA TasksLeftAlone ==
  ASSUME ClaimInv, NEW c \in Clients, Return(c), UNCHANGED <<row, holders>>
  PROVE  ClaimInv'
<1>1. TaskCallsInFlight' /\ DOMAIN call' = Clients
  BY TaskCallOver
<1> QED
  BY <1>1 DEF ClaimInv, ClaimTypes, OneClaimer

(* A row is written, and its holders are those it had or none: the claims  *)
(* stay right when who keeps one keeps the row.                            *)
LEMMA RowWritten ==
  ASSUME ClaimInv, NEW t \in TaskIds, NEW r \in Rows \cup {Absent}, NEW H \in SUBSET Clients,
         row' = [row EXCEPT ![t] = r], holders' = [holders EXCEPT ![t] = H],
         \A d \in H : r # Absent /\ r.owner = d,
         TaskCallsInFlight', DOMAIN call' = Clients
  PROVE  ClaimInv'
<1>1. row \in [TaskIds -> Rows \cup {Absent}] /\ holders \in [TaskIds -> SUBSET Clients]
  BY DEF ClaimInv, ClaimTypes
<1>2. /\ row'[t] = r /\ holders'[t] = H
      /\ \A u \in TaskIds \ {t} : row'[u] = row[u] /\ holders'[u] = holders[u]
  BY <1>1
<1>3. ClaimTypes'
  BY <1>1, <1>2 DEF ClaimInv, ClaimTypes
<1>4. OneClaimer'
  BY <1>2 DEF ClaimInv, OneClaimer
<1> QED
  BY <1>3, <1>4 DEF ClaimInv

(* A task is created where there is none, hence nobody who was told that   *)
(* it is theirs, however old the counter is that the call has read.        *)
LEMMA CreationKeepsClaims ==
  ASSUME ClaimInv, NEW c \in Clients, TaskCreated(c)
  PROVE  ClaimInv'
<1>1. PICK n : n = call[c].saw
  OBVIOUS
<1>2. Return(c) /\ InCall(c, "create") /\ holders' = holders
  BY DEF TaskCreated
<1>3. n \in TaskIds /\ holders \in [TaskIds -> SUBSET Clients]
  BY <1>1, <1>2 DEF ClaimInv, ClaimTypes, TaskCallsInFlight
<1>4. CASE row[n] # Absent
  <2>1. UNCHANGED <<row, holders>>
    BY <1>1, <1>2, <1>4 DEF TaskCreated
  <2> QED
    BY <1>2, <2>1, TasksLeftAlone
<1>5. CASE row[n] = Absent
  <2> DEFINE r == [status |-> "pending", owner |-> Absent]
  <2>1. row' = [row EXCEPT ![n] = r]
    BY <1>1, <1>5 DEF TaskCreated
  <2>2. r \in Rows \cup {Absent}
    BY DEF Rows
  <2> HIDE DEF r
  <2>3. holders[n] = {}
    <3>1. \A d \in holders[n] : row[n] # Absent
      BY <1>3 DEF ClaimInv, OneClaimer
    <3> QED
      BY <1>5, <3>1
  <2>4. holders' = [holders EXCEPT ![n] = {}]
    BY <1>2, <1>3, <2>3
  <2>5. TaskCallsInFlight' /\ DOMAIN call' = Clients
    BY <1>2, TaskCallOver
  <2>6. n \in TaskIds
    BY <1>3
  <2>7. {} \in SUBSET Clients /\ \A d \in {} : r # Absent /\ r.owner = d
    OBVIOUS
  <2> QED
    BY <2>1, <2>2, <2>4, <2>5, <2>6, <2>7, RowWritten
<1> QED
  BY <1>4, <1>5

(* What update_task writes over a row: a status, and the owner there is or *)
(* the caller, which ends the claims of others.                            *)
LEMMA UpdateKeepsClaims ==
  ASSUME ClaimInv, NEW c \in Clients, TaskUpdated(c)
  PROVE  ClaimInv'
<1>1. PICK t, s : t = call[c].arg.task /\ s = call[c].arg.status
  OBVIOUS
<1>2. Return(c) /\ InCall(c, "update")
  BY DEF TaskUpdated
<1>3. /\ s \in {"in_progress", "completed"}
      /\ row \in [TaskIds -> Rows \cup {Absent}] /\ holders \in [TaskIds -> SUBSET Clients]
  BY <1>1, <1>2 DEF ClaimInv, ClaimTypes, TaskCallsInFlight
<1>4. TaskCallsInFlight' /\ DOMAIN call' = Clients
  BY <1>2, TaskCallOver
<1>5. PICK w \in {c, Absent} :
        IF row[t] = Absent THEN UNCHANGED <<row, holders>>
        ELSE /\ row' = [row EXCEPT ![t] = [status |-> s, owner |-> IF w = Absent THEN @.owner ELSE w]]
             /\ holders' = IF w = Absent THEN holders ELSE [holders EXCEPT ![t] = {}]
  BY <1>1 DEF TaskUpdated
<1>6. CASE UNCHANGED <<row, holders>>
  BY <1>2, <1>6, TasksLeftAlone
<1>7. CASE t \notin TaskIds /\ ~UNCHANGED <<row, holders>>
  <2>1. row' = row /\ holders' = holders
    BY <1>3, <1>5, <1>7
  <2> QED
    BY <1>7, <2>1
<1>8. CASE t \in TaskIds /\ ~UNCHANGED <<row, holders>>
  <2>1. row[t] \in Rows /\ row[t] # Absent
    BY <1>3, <1>5, <1>8
  <2>2. PICK o : o = IF w = Absent THEN row[t].owner ELSE w
    OBVIOUS
  <2>3. PICK r : r = [status |-> s, owner |-> o]
    OBVIOUS
  <2>4. r \in Rows /\ r.owner = o /\ r # Absent
    <3>1. o \in Clients \cup {Absent}
      BY <2>1, <2>2 DEF Rows
    <3>2. r \in Rows /\ r.owner = o
      BY <1>3, <2>3, <3>1 DEF Rows
    <3> QED
      BY <3>2, ARowIsNotAbsent
  <2>5. row' = [row EXCEPT ![t] = r]
    BY <1>5, <2>1, <2>2, <2>3
  <2>6. PICK H \in SUBSET Clients : H = IF w = Absent THEN holders[t] ELSE {}
    BY <1>3, <1>8
  <2>7. holders' = [holders EXCEPT ![t] = H]
    BY <1>3, <1>5, <2>1, <2>6
  <2>8. \A d \in H : r # Absent /\ r.owner = d
    BY <1>8, <2>2, <2>4, <2>6 DEF ClaimInv, OneClaimer
  <2>9. t \in TaskIds /\ r \in Rows \cup {Absent}
    BY <1>8, <2>4
  <2> QED
    BY <1>4, <2>5, <2>7, <2>8, <2>9, RowWritten
<1> QED
  BY <1>6, <1>7, <1>8

(* A release forgets who had the task.                                     *)
LEMMA ReleaseKeepsClaims ==
  ASSUME ClaimInv, NEW c \in Clients, TaskReleased(c)
  PROVE  ClaimInv'
<1>1. PICK t : t = call[c].arg
  OBVIOUS
<1> DEFINE r == [status |-> "pending", owner |-> Absent]
<1>2. /\ Return(c)
      /\ \/ UNCHANGED <<row, holders>>
         \/ row' = [row EXCEPT ![t] = r] /\ holders' = [holders EXCEPT ![t] = {}]
  BY <1>1 DEF TaskReleased
<1>3. r \in Rows \cup {Absent}
  BY DEF Rows
<1> HIDE DEF r
<1>4. row \in [TaskIds -> Rows \cup {Absent}] /\ holders \in [TaskIds -> SUBSET Clients]
  BY DEF ClaimInv, ClaimTypes
<1>5. CASE UNCHANGED <<row, holders>>
  BY <1>2, <1>5, TasksLeftAlone
<1>6. CASE ~UNCHANGED <<row, holders>>
  <2>1. row' = [row EXCEPT ![t] = r] /\ holders' = [holders EXCEPT ![t] = {}]
    BY <1>2, <1>6
  <2>2. t \in TaskIds
    BY <1>4, <1>6, <2>1
  <2>3. TaskCallsInFlight' /\ DOMAIN call' = Clients
    BY <1>2, TaskCallOver
  <2>4. {} \in SUBSET Clients /\ \A d \in {} : r # Absent /\ r.owner = d
    OBVIOUS
  <2> QED
    BY <1>3, <2>1, <2>2, <2>3, <2>4, RowWritten
<1> QED
  BY <1>5, <1>6

(* A claim finds nobody who was told the task is theirs.                   *)
LEMMA ClaimIsAlone ==
  ASSUME ClaimInv, NEW c \in Clients, NEW t \in TaskIds, ClaimTask(c, t)
  PROVE  ClaimInv'
<1>1. /\ row[t] # Absent /\ row[t].owner = Absent
      /\ row' = [row EXCEPT ![t].owner = c] /\ holders' = [holders EXCEPT ![t] = @ \cup {c}]
      /\ call' = call
  BY DEF ClaimTask, Claimable
<1>2. /\ row \in [TaskIds -> Rows \cup {Absent}] /\ holders \in [TaskIds -> SUBSET Clients]
      /\ DOMAIN call = Clients
  BY DEF ClaimInv, ClaimTypes
<1>3. holders[t] = {}
  BY <1>1, <1>2, StoresAssumption DEF ClaimInv, OneClaimer
<1>4. row[t] \in Rows
  BY <1>1, <1>2
<1>5. PICK r : r = [row[t] EXCEPT !.owner = c]
  OBVIOUS
<1>6. r \in Rows /\ r.owner = c
  BY <1>4, <1>5 DEF Rows
<1>7. row' = [row EXCEPT ![t] = r] /\ holders' = [holders EXCEPT ![t] = {c}]
  BY <1>1, <1>3, <1>5
<1>8. TaskCallsInFlight' /\ DOMAIN call' = Clients
  BY <1>1, <1>2 DEF ClaimInv, TaskCallsInFlight, InCall
<1>9. \A d \in {c} : r # Absent /\ r.owner = d
  BY <1>6, ARowIsNotAbsent
<1> QED
  BY <1>6, <1>7, <1>8, <1>9, RowWritten

(* A task that is gone has no holders.                                     *)
LEMMA DeletionEndsClaims ==
  ASSUME ClaimInv, NEW c \in Clients, NEW t \in TaskIds, DeleteTask(c, t)
  PROVE  ClaimInv'
<1>1. /\ row' = [row EXCEPT ![t] = Absent] /\ holders' = [holders EXCEPT ![t] = {}]
      /\ call' = call
  BY DEF DeleteTask
<1>2. DOMAIN call' = Clients
  BY <1>1 DEF ClaimInv, ClaimTypes
<1>3. TaskCallsInFlight'
  BY <1>1 DEF ClaimInv, TaskCallsInFlight, InCall
<1> QED
  BY <1>1, <1>2, <1>3, RowWritten

(* Whoever was told that a task is theirs is its only owner until somebody *)
(* releases, reassigns or deletes it, for any number of processes that     *)
(* create, claim, update, release and delete at once.                      *)
THEOREM ClaimsAreExclusive == StoresSpec => []OneClaimer
<1>1. StoresInit => ClaimInv
  <2> SUFFICES ASSUME StoresInit PROVE ClaimInv
    OBVIOUS
  <2>1. ClaimTypes
    BY DEF StoresInit, ClaimTypes
  <2>2. OneClaimer
    BY DEF StoresInit, OneClaimer
  <2>3. TaskCallsInFlight
    BY DEF StoresInit, TaskCallsInFlight, InCall
  <2> QED
    BY <2>1, <2>2, <2>3 DEF ClaimInv
<1>2. ClaimInv /\ [StoresNext]_storeVars => ClaimInv'
  <2> SUFFICES ASSUME ClaimInv, [StoresNext]_storeVars PROVE ClaimInv'
    OBVIOUS
  <2>1. CASE UNCHANGED storeVars
    BY <2>1 DEF storeVars, ClaimInv, ClaimTypes, OneClaimer, TaskCallsInFlight, InCall
  <2>2. ASSUME NEW c \in Clients,
               AppendEvent(c) \/ \E n \in 1..2 : AppendMessages(c, n)
        PROVE ClaimInv'
    <3>1. PICK n : Begin(c, "append", n, Len(log))
      BY <2>2 DEF AppendEvent, AppendMessages
    <3> QED
      BY <3>1, TaskCallBegins
  <2>3. ASSUME NEW c \in Clients, RowsInserted(c) \/ CallFails(c) PROVE ClaimInv'
    <3>1. Return(c) /\ UNCHANGED <<row, holders>>
      BY <2>3 DEF RowsInserted, CallFails
    <3> QED
      BY <3>1, TasksLeftAlone
  <2>4. ASSUME NEW c \in Clients, CreateTask(c) PROVE ClaimInv'
    BY <2>4, TaskCallBegins DEF CreateTask
  <2>5. ASSUME NEW c \in Clients, NEW t \in TaskIds, NEW s \in {"in_progress", "completed"},
               UpdateTask(c, t, s)
        PROVE ClaimInv'
    <3>1. PICK a : a = [task |-> t, status |-> s]
      OBVIOUS
    <3>2. a.status = s /\ Begin(c, "update", a, row[t])
      BY <2>5, <3>1 DEF UpdateTask
    <3> QED
      BY <2>5, <3>2, TaskCallBegins
  <2>6. ASSUME NEW c \in Clients, NEW t \in TaskIds, ReleaseTask(c, t) PROVE ClaimInv'
    <3>1. Begin(c, "release", t, row[t])
      BY <2>6 DEF ReleaseTask
    <3> QED
      BY <3>1, TaskCallBegins
  <2> QED
    BY <2>1, <2>2, <2>3, <2>4, <2>5, <2>6, CreationKeepsClaims, UpdateKeepsClaims,
       ReleaseKeepsClaims, ClaimIsAlone, DeletionEndsClaims DEF StoresNext
<1>3. ClaimInv => OneClaimer
  BY DEF ClaimInv
<1> QED
  BY <1>1, <1>2, <1>3, PTL DEF StoresSpec

-----------------------------------------------------------------------------
(***************************************************************************)
(* The in-memory store implements the task board, for any number of tasks, *)
(* any owners and any patches that name dependencies by the blocked task.  *)
(***************************************************************************)

---------------------------------------------------------------------------
(* Types *)

(* The fields of a patch.                                                  *)
LEMMA PatchTyped ==
  ASSUME NEW p \in Patches
  PROVE  /\ p.status \in Statuses \cup {"deleted", None}
         /\ p.owner \in Owners \cup {None}
         /\ p.addBlocks \subseteq Ids /\ p.removeBlocks \subseteq Ids
         /\ p.addBlockedBy \subseteq Ids /\ p.removeBlockedBy \subseteq Ids
BY ConstantsAssumption DEF Board!AllPatches, Board!Ids, Ids, Board!Statuses, Statuses

(* A task is not the absence of one.                                       *)
LEMMA TasksAreSome == None \notin Tasks
BY ConstantsAssumption

(* A task that is patched is a task.                                       *)
LEMMA PatchedTyped ==
  ASSUME NEW r \in Tasks, NEW p \in Patches, p.status # "deleted"
  PROVE  Patched(r, p) \in Tasks
BY PatchTyped DEF Patched, Tasks

(* The board begins empty.                                                 *)
LEMMA InitType == Init => TypeOK
BY ConstantsAssumption DEF Init, TypeOK

(* Each call of the board keeps its types.                                 *)
LEMMA NextType == TypeOK /\ [Next]_vars => TypeOK'
<1> SUFFICES ASSUME TypeOK, [Next]_vars PROVE TypeOK'
  OBVIOUS
<1> USE ConstantsAssumption, TasksAreSome DEF TypeOK, Ids
<1>1. CASE Create
  <2>1. [status |-> "pending", owner |-> None, blocks |-> {}, blockedBy |-> {}] \in Tasks
    BY DEF Tasks, Statuses
  <2>2. next + 1 \in 1..(MaxTasks + 1) /\ next < next + 1
    BY <1>1 DEF Create
  <2>3. ASSUME NEW t \in Ids, tasks'[t] # None PROVE t < next'
    BY <1>1, <2>2, <2>3 DEF Create
  <2>4. QED
    BY <1>1, <2>1, <2>2, <2>3 DEF Create
<1>2. ASSUME NEW t \in Ids, Delete(t) PROVE TypeOK'
  <2>1. ASSUME NEW u \in Ids PROVE Without(tasks[u], t) \in Tasks \cup {None}
    BY DEF Without, Tasks
  <2>2. ASSUME NEW u \in Ids, tasks'[u] # None PROVE tasks[u] # None
    BY <1>2, <2>2 DEF Delete, Without
  <2>3. QED
    BY <1>2, <2>1, <2>2 DEF Delete
<1>3. ASSUME NEW t \in Ids, NEW p \in Patches, Update(t, p) PROVE TypeOK'
  <2>1. CASE Delete(t)
    BY <1>2, <2>1
  <2>2. CASE p.status # "deleted" /\ tasks' = [tasks EXCEPT ![t] = Patched(tasks[t], p)]
             /\ next' = next
    <3>1. tasks[t] \in Tasks
      BY <1>3 DEF Update
    <3>2. Patched(tasks[t], p) \in Tasks
      BY <2>2, <3>1, PatchedTyped
    <3>3. QED
      BY <1>3, <2>2, <3>2 DEF Update
  <2>3. QED
    BY <1>3, <2>1, <2>2 DEF Update
<1>4. ASSUME NEW t \in Ids, NEW w \in Owners, Claim(t, w) PROVE TypeOK'
  <2>1. tasks[t] # None => [tasks[t] EXCEPT !.owner = w] \in Tasks
    BY DEF Tasks
  <2>2. QED
    BY <1>4, <2>1 DEF Claim, Free
<1>5. ASSUME NEW t \in Ids, Release(t) PROVE TypeOK'
  <2>1. Released(tasks[t]) \in Tasks \cup {None}
    BY DEF Released, Tasks, Statuses
  <2>2. Released(tasks[t]) # None => tasks[t] # None
    BY DEF Released
  <2>3. QED
    BY <1>5, <2>1, <2>2 DEF Release
<1>6. CASE Ready \/ (\E t \in Ids : Get(t) \/ UpdateMissing(t)) \/ UNCHANGED vars
  BY <1>6 DEF Ready, Get, UpdateMissing, vars
<1>7. QED
  BY <1>1, <1>3, <1>4, <1>5, <1>6 DEF Next

(* Every task is well typed and has an id that was handed out. *)
THEOREM TypeCorrect == Spec => []TypeOK
BY InitType, NextType, PTL DEF Spec

---------------------------------------------------------------------------
(* The tables *)

(* The abstract board has a row for the tasks that are there, with their   *)
(* status and owner.                                                       *)
LEMMA RowsAreSome ==
  ASSUME NEW T \in [Ids -> Tasks \cup {None}], NEW t \in Ids
  PROVE  /\ RowsOf(T)[t] = None <=> T[t] = None
         /\ T[t] # None => /\ T[t] \in Tasks
                           /\ RowsOf(T)[t].status = T[t].status
                           /\ RowsOf(T)[t].owner = T[t].owner
<1>1. CASE T[t] = None
  BY <1>1 DEF RowsOf
<1>2. CASE T[t] # None
  <2>1. RowsOf(T)[t] = [status |-> T[t].status, owner |-> T[t].owner]
    BY <1>2 DEF RowsOf
  <2>2. RowsOf(T)[t] \in [status : Statuses, owner : Owners \cup {None}]
    BY <1>2, <2>1 DEF Tasks
  <2>3. RowsOf(T)[t] # None
    BY <2>2, ConstantsAssumption
  <2>4. QED
    BY <1>2, <2>1, <2>3
<1>3. QED
  BY <1>1, <1>2

(* The blockers the abstract board reads off its edges are the ones the    *)
(* task lists.                                                             *)
LEMMA BlockersAreListed ==
  ASSUME NEW T \in [Ids -> Tasks \cup {None}], NEW t \in Ids, T[t] # None
  PROVE  Board!Blockers(EdgesOf(T), t) = T[t].blockedBy
<1>1. T[t].blockedBy \subseteq Ids
  BY DEF Tasks
<1>2. ASSUME NEW b \in Ids PROVE <<b, t>> \in EdgesOf(T) <=> b \in T[t].blockedBy
  BY DEF EdgesOf
<1>3. QED
  BY <1>1, <1>2 DEF Board!Blockers, Board!Ids, Ids

(* Both stores show a task in the same way. *)
LEMMA SameView ==
  ASSUME NEW T \in [Ids -> Tasks \cup {None}], NEW t \in Ids
  PROVE  Board!View(RowsOf(T), EdgesOf(T), t) = View(T[t])
<1>1. CASE T[t] = None
  BY <1>1, RowsAreSome DEF Board!View, View
<1>2. CASE T[t] # None
  BY <1>2, RowsAreSome, BlockersAreListed DEF Board!View, View
<1>3. QED
  BY <1>1, <1>2

(* The tables V of a store, after task t of the store T was written as r. *)
Written(T, t, r, V) ==
  /\ RowsOf(V) = [RowsOf(T) EXCEPT ![t] = [status |-> r.status, owner |-> r.owner]]
  /\ \A b \in Ids : <<b, t>> \in EdgesOf(V) <=> b \in r.blockedBy
  /\ \A b \in Ids, u \in Ids \ {t} : <<b, u>> \in EdgesOf(V) <=> <<b, u>> \in EdgesOf(T)

(* Writing one task is a write of the abstract board.                      *)
LEMMA OneTaskWritten ==
  ASSUME NEW T \in [Ids -> Tasks \cup {None}], NEW t \in Ids, NEW r \in Tasks
  PROVE  Written(T, t, r, [T EXCEPT ![t] = r])
<1> r # None
  BY TasksAreSome
<1> DEFINE V == [T EXCEPT ![t] = r]
<1>1. RowsOf(V) = [RowsOf(T) EXCEPT ![t] = [status |-> r.status, owner |-> r.owner]]
  BY DEF RowsOf
<1>2. ASSUME NEW b \in Ids PROVE <<b, t>> \in EdgesOf(V) <=> b \in r.blockedBy
  BY DEF EdgesOf
<1>3. ASSUME NEW b \in Ids, NEW u \in Ids \ {t}
      PROVE  <<b, u>> \in EdgesOf(V) <=> <<b, u>> \in EdgesOf(T)
  BY DEF EdgesOf
<1>4. QED
  BY <1>1, <1>2, <1>3 DEF Written

(* Two sets of edges are equal if they have the same pairs. *)
LEMMA SameEdges ==
  ASSUME NEW E, NEW F, E \subseteq Ids \X Ids, F \subseteq Ids \X Ids,
         \A b, u \in Ids : <<b, u>> \in E <=> <<b, u>> \in F
  PROVE  E = F
OBVIOUS

(* Edges join tasks.                                                       *)
LEMMA EdgesArePairs == ASSUME NEW T PROVE EdgesOf(T) \subseteq Ids \X Ids
BY DEF EdgesOf

---------------------------------------------------------------------------
(* Refinement: every call is the board's call of the same name. *)

(* Each call of the board is a step of the abstract one.                   *)
LEMMA NextBoard ==
  ASSUME TypeOK, TypeOK', \A p \in Patches : Aligned(p), [Next]_vars
  PROVE  [Board!Next]_(Board!vars)
<1> DEFINE R == RowsOf(tasks)
           E == EdgesOf(tasks)
<1>1. tasks \in [Ids -> Tasks \cup {None}] /\ tasks' \in [Ids -> Tasks \cup {None}]
  BY DEF TypeOK
<1>2. Ids = Board!Ids
  BY DEF Ids, Board!Ids
<1>3. ASSUME NEW t \in Ids, AnswerTask(t) PROVE Board!AnswerTask(t)
  BY <1>1, <1>3, SameView DEF AnswerTask, Board!AnswerTask
<1>4. ASSUME NEW S, AnswerIds(S) PROVE Board!AnswerIds(S)
  BY <1>4 DEF AnswerIds, Board!AnswerIds
<1>5. NotFound => Board!NotFound
  BY <1>4 DEF NotFound, Board!NotFound
<1>6. CASE Create
  <2> DEFINE new == [status |-> "pending", owner |-> None, blocks |-> {}, blockedBy |-> {}]
  <2>1. /\ new \in Tasks /\ new.blockedBy = {}
        /\ [status |-> new.status, owner |-> new.owner] = [status |-> "pending", owner |-> None]
    BY DEF Tasks, Statuses
  <2>2. next \in Ids /\ tasks[next] = None /\ tasks' = [tasks EXCEPT ![next] = new]
    BY <1>6 DEF Create, TypeOK, Ids
  <2> HIDE DEF new
  <2>3. Written(tasks, next, new, tasks')
    BY <1>1, <2>1, <2>2, OneTaskWritten
  <2>4. EdgesOf(tasks') = EdgesOf(tasks)
    <3>1. \A b \in Ids : <<b, next>> \notin EdgesOf(tasks)
      BY <2>2 DEF EdgesOf
    <3>2. QED
      BY <2>1, <2>3, <3>1, SameEdges, EdgesArePairs DEF Written
  <2>5. Board!Create
    BY <1>2, <1>4, <1>6, <2>1, <2>2, <2>3, <2>4 DEF Create, Board!Create, Written
  <2>6. QED
    BY <2>5 DEF Board!Next
<1>7. ASSUME NEW t \in Ids, Delete(t) PROVE Board!Delete(t)
  <2>1. /\ tasks'[t] = None
        /\ \A u \in Ids \ {t} :
             /\ tasks'[u] = None <=> tasks[u] = None
             /\ tasks[u] # None => /\ tasks'[u].status = tasks[u].status
                                   /\ tasks'[u].owner = tasks[u].owner
                                   /\ tasks'[u].blockedBy = tasks[u].blockedBy \ {t}
    <3>1. ASSUME NEW u \in Ids \ {t}, tasks[u] # None
          PROVE  /\ tasks'[u] # None
                 /\ tasks'[u].status = tasks[u].status
                 /\ tasks'[u].owner = tasks[u].owner
                 /\ tasks'[u].blockedBy = tasks[u].blockedBy \ {t}
      <4>1. tasks[u] \in Tasks
        BY <1>1, <3>1
      <4>2. /\ Without(tasks[u], t) \in Tasks
            /\ Without(tasks[u], t).status = tasks[u].status
            /\ Without(tasks[u], t).owner = tasks[u].owner
            /\ Without(tasks[u], t).blockedBy = tasks[u].blockedBy \ {t}
        BY <3>1, <4>1 DEF Without, Tasks
      <4>3. QED
        BY <1>7, <4>2, TasksAreSome DEF Delete
    <3>2. ASSUME NEW u \in Ids \ {t}, tasks[u] = None PROVE tasks'[u] = None
      BY <1>7, <3>2 DEF Delete, Without
    <3>3. QED
      BY <1>7, <3>1, <3>2 DEF Delete
  <2>2. RowsOf(tasks') = [RowsOf(tasks) EXCEPT ![t] = None]
    BY <2>1 DEF RowsOf
  <2>3. EdgesOf(tasks') = {e \in EdgesOf(tasks) : e[1] # t /\ e[2] # t}
    <3>1. ASSUME NEW b \in Ids, NEW u \in Ids
          PROVE  <<b, u>> \in EdgesOf(tasks') <=>
                   <<b, u>> \in EdgesOf(tasks) /\ b # t /\ u # t
      BY <2>1 DEF EdgesOf
    <3>2. QED
      BY <3>1, SameEdges, EdgesArePairs
  <2>4. QED
    BY <1>5, <1>7, <2>2, <2>3 DEF Delete, Board!Delete
<1>8. ASSUME NEW t \in Ids, NEW p \in Patches, Update(t, p) PROVE Board!Update(t, p)
  <2>1. tasks[t] # None /\ RowsOf(tasks)[t] # None /\ tasks[t] \in Tasks
    BY <1>1, <1>8, RowsAreSome DEF Update
  <2>2. CASE p.status = "deleted" /\ Delete(t)
    BY <1>7, <2>1, <2>2 DEF Board!Update
  <2>3. CASE /\ p.status # "deleted"
             /\ tasks' = [tasks EXCEPT ![t] = Patched(tasks[t], p)]
             /\ AnswerTask(t)
             /\ UNCHANGED next
    <3> DEFINE r == Patched(tasks[t], p)
    <3>1. /\ r \in Tasks
          /\ r.blockedBy = (tasks[t].blockedBy \cup p.addBlockedBy) \ p.removeBlockedBy
          /\ [status |-> r.status, owner |-> r.owner] = Board!Patched(RowsOf(tasks)[t], p)
      BY <1>1, <2>1, <2>3, PatchedTyped, RowsAreSome DEF Patched, Board!Patched
    <3> HIDE DEF r
    <3>2. Written(tasks, t, r, tasks')
      <4>1. tasks' = [tasks EXCEPT ![t] = r]
        BY <2>3 DEF r
      <4>2. QED
        BY <1>1, <3>1, <4>1, OneTaskWritten
    <3>3. EdgesOf(tasks') = Board!PatchedEdges(t, p)
      <4>1. /\ p.addBlocks = {} /\ p.removeBlocks = {}
            /\ p.addBlockedBy \cap p.removeBlockedBy = {}
            /\ p.addBlockedBy \subseteq Ids
        BY <1>8, PatchTyped DEF Aligned
      <4>2. \A b \in Ids : <<b, t>> \in EdgesOf(tasks) <=> b \in tasks[t].blockedBy
        BY <2>1 DEF EdgesOf
      <4>3. ASSUME NEW b \in Ids, NEW u \in Ids
            PROVE  <<b, u>> \in EdgesOf(tasks') <=> <<b, u>> \in Board!PatchedEdges(t, p)
        BY <3>1, <3>2, <4>1, <4>2 DEF Board!PatchedEdges, Written
      <4>4. Board!PatchedEdges(t, p) \subseteq Ids \X Ids
        BY <1>8, <4>1, EdgesArePairs DEF Board!PatchedEdges
      <4>5. QED
        BY <4>3, <4>4, SameEdges, EdgesArePairs
    <3>4. QED
      BY <1>3, <2>1, <2>3, <3>1, <3>2, <3>3 DEF Board!Update, Written
  <2>4. QED
    BY <1>8, <2>2, <2>3 DEF Update
<1>9. ASSUME NEW t \in Ids, NEW w \in Owners, Claim(t, w) PROVE Board!Claim(t, w)
  <2>1. Free(tasks[t]) <=> Board!Free(RowsOf(tasks)[t])
    BY <1>1, RowsAreSome DEF Free, Board!Free
  <2>2. CASE Free(tasks[t])
    <3> DEFINE r == [tasks[t] EXCEPT !.owner = w]
    <3>1. tasks[t] \in Tasks /\ tasks[t] # None
      BY <1>1, <2>2 DEF Free
    <3>2. /\ r \in Tasks /\ r.blockedBy = tasks[t].blockedBy
          /\ r.status = tasks[t].status /\ r.owner = w
      BY <3>1 DEF Tasks
    <3>3. tasks' = [tasks EXCEPT ![t] = r] /\ AnswerTask(t)
      BY <1>9, <2>2 DEF Claim
    <3> HIDE DEF r
    <3>4. Written(tasks, t, r, tasks')
      BY <1>1, <3>2, <3>3, OneTaskWritten
    <3>5. EdgesOf(tasks') = EdgesOf(tasks)
      <4>1. \A b \in Ids : <<b, t>> \in EdgesOf(tasks) <=> b \in tasks[t].blockedBy
        BY <3>1 DEF EdgesOf
      <4>2. QED
        BY <3>2, <3>4, <4>1, SameEdges, EdgesArePairs DEF Written
    <3>6. RowsOf(tasks') = [RowsOf(tasks) EXCEPT ![t].owner = w]
      <4>1. RowsOf(tasks)[t] = [status |-> tasks[t].status, owner |-> tasks[t].owner]
        BY <3>1 DEF RowsOf
      <4>2. RowsOf(tasks') = [RowsOf(tasks) EXCEPT ![t] = [status |-> r.status, owner |-> r.owner]]
        BY <3>4 DEF Written
      <4>3. RowsOf(tasks') = [RowsOf(tasks) EXCEPT ![t] =
                                [status |-> tasks[t].status, owner |-> w]]
        BY <3>2, <4>2
      <4>4. [RowsOf(tasks)[t] EXCEPT !.owner = w] = [status |-> tasks[t].status, owner |-> w]
        BY <4>1
      <4>5. QED
        BY <4>3, <4>4
    <3>7. QED
      BY <1>3, <1>9, <2>1, <2>2, <3>3, <3>5, <3>6 DEF Claim, Board!Claim
  <2>3. CASE ~Free(tasks[t])
    BY <1>5, <1>9, <2>1, <2>3 DEF Claim, Board!Claim
  <2>4. QED
    BY <2>2, <2>3
<1>10. ASSUME NEW t \in Ids, Release(t) PROVE Board!Release(t)
  <2>1. CASE tasks[t] # None /\ tasks[t].status # "completed"
    <3> DEFINE r == Released(tasks[t])
    <3>1. tasks[t] \in Tasks
      BY <1>1, <2>1
    <3>2. /\ r \in Tasks /\ r.blockedBy = tasks[t].blockedBy
          /\ r.status = "pending" /\ r.owner = None
      BY <2>1, <3>1 DEF Released, Tasks, Statuses
    <3>3. tasks' = [tasks EXCEPT ![t] = r]
      BY <1>10 DEF Release
    <3> HIDE DEF r
    <3>4. Written(tasks, t, r, tasks')
      BY <1>1, <3>2, <3>3, OneTaskWritten
    <3>5. EdgesOf(tasks') = EdgesOf(tasks)
      <4>1. \A b \in Ids : <<b, t>> \in EdgesOf(tasks) <=> b \in tasks[t].blockedBy
        BY <2>1 DEF EdgesOf
      <4>2. QED
        BY <3>2, <3>4, <4>1, SameEdges, EdgesArePairs DEF Written
    <3>6. RowsOf(tasks)[t] # None /\ RowsOf(tasks)[t].status # "completed"
      BY <1>1, <2>1, RowsAreSome
    <3>7. QED
      BY <1>3, <1>10, <3>2, <3>4, <3>5, <3>6 DEF Release, Board!Release, Written
  <2>2. CASE ~(tasks[t] # None /\ tasks[t].status # "completed")
    <3>1. tasks' = tasks
      BY <1>1, <1>10, <2>2 DEF Release, Released
    <3>2. ~(RowsOf(tasks)[t] # None /\ RowsOf(tasks)[t].status # "completed")
      BY <1>1, <2>2, RowsAreSome
    <3>3. QED
      BY <1>3, <1>10, <3>1, <3>2 DEF Release, Board!Release
  <2>3. QED
    BY <2>1, <2>2
<1>11. CASE Ready
  <2>1. ASSUME NEW t \in Ids PROVE IsReady(t) <=> Board!IsReady(t)
    <3>1. Free(tasks[t]) <=> Board!Free(RowsOf(tasks)[t])
      BY <1>1, RowsAreSome DEF Free, Board!Free
    <3>2. \A b \in Ids : Completed(b) <=> Board!Completed(RowsOf(tasks), b)
      BY <1>1, RowsAreSome DEF Completed, Board!Completed
    <3>3. CASE Free(tasks[t])
      <4>1. tasks[t] # None /\ tasks[t].blockedBy \subseteq Ids
        BY <1>1, <3>3 DEF Free, Tasks
      <4>2. Board!Blockers(EdgesOf(tasks), t) = tasks[t].blockedBy
        BY <1>1, <4>1, BlockersAreListed
      <4>3. QED
        BY <3>1, <3>2, <4>1, <4>2 DEF IsReady, Board!IsReady
    <3>4. QED
      BY <3>1, <3>3 DEF IsReady, Board!IsReady
  <2>2. {t \in Ids : IsReady(t)} = {t \in Board!Ids : Board!IsReady(t)}
    BY <1>2, <2>1
  <2>3. Board!Ready
    BY <1>4, <1>11, <2>2 DEF Ready, Board!Ready
  <2>4. QED
    BY <2>3 DEF Board!Next
<1>12. ASSUME NEW t \in Ids, Get(t) PROVE Board!Get(t)
  BY <1>3, <1>12 DEF Get, Board!Get
<1>13. ASSUME NEW t \in Ids, UpdateMissing(t) PROVE Board!UpdateMissing(t)
  BY <1>1, <1>5, <1>13, RowsAreSome DEF UpdateMissing, Board!UpdateMissing
<1>14. CASE UNCHANGED vars
  BY <1>14 DEF vars, Board!vars
<1>15. QED
  BY <1>2, <1>6, <1>8, <1>9, <1>10, <1>11, <1>12, <1>13, <1>14
     DEF Next, Board!Next

(* The in-memory store implements the task board, if every patch names its *)
(* dependencies by the blocked task and none of them twice.                *)
THEOREM MemoryImplementsBoard ==
  ASSUME \A p \in Patches : Aligned(p)
  PROVE  Spec => BoardSpec
<1>1. Init => Board!Init
  BY ConstantsAssumption DEF Init, Board!Init, RowsOf, EdgesOf, Ids, Board!Ids
<1>2. QED
  BY <1>1, NextBoard, TypeCorrect, PTL DEF Spec, BoardSpec, Board!Spec
=============================================================================

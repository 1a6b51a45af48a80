----------------------------- MODULE TurnProofs -----------------------------
(***************************************************************************)
(* A turn: the pairing of calls and results in the history, the hooks      *)
(* around it, the permission a call needs, and what is added to a request. *)
(* A section is one component's argument, for every value of its constants.*)
(***************************************************************************)
EXTENDS Turn, Hooks, Permissions, Context, Positions, TLAPS

-----------------------------------------------------------------------------
(***************************************************************************)
(* The history.                                                            *)
(***************************************************************************)

(* The messages of a history, and a history in which calls and results are *)
(* paired, but for the calls of its last message.                          *)
Names == {"t", "u", "final"}
Parts == [role : {"user", "assistant"}, uses : SUBSET Names, results : SUBSET Names,
          elided : BOOLEAN]

Paired(v) ==
  /\ v \in Seq(Parts) /\ v # <<>>
  /\ \A i \in 1..Len(v) :
       /\ v[i].role = "user" => v[i].uses = {}
       /\ v[i].role = "assistant" => v[i].results = {}
       /\ v[i].results # {} => i > 1 /\ v[i - 1].uses = v[i].results
       /\ v[i].uses # {} /\ i < Len(v) => v[i + 1].results = v[i].uses

Closed(v) == Paired(v) /\ v[Len(v)].uses = {}

(* The calls of the reply are open while its batch or its gates are at     *)
(* work, and when the run ended there.                                     *)
Working == {"tools", "gates", "answer", "stopping"}

PairedInv ==
  /\ Paired(history)
  /\ reply.uses \subseteq Names /\ (reply.uses # {} => reply.stop = "tool_use")
  /\ step \in Working => history[Len(history)].uses = reply.uses
  /\ step \notin Working \cup {"success", "error"} => Closed(history)

(* A message appended to a history answers the open calls of the last one, *)
(* or there are none and it answers none.                                  *)
LEMMA PairedAppended ==
  ASSUME NEW v, Paired(v), NEW m \in Parts,
         m.role = "user" => m.uses = {}, m.role = "assistant" => m.results = {},
         m.results = v[Len(v)].uses
  PROVE  /\ Paired(Append(v, m))
         /\ Append(v, m)[Len(Append(v, m))].uses = m.uses
         /\ m.uses = {} => Closed(Append(v, m))
<1> DEFINE w == Append(v, m)
<1>1. v \in Seq(Parts) /\ v # <<>> /\ Len(v) \in Nat /\ Len(v) >= 1
  BY DEF Paired
<1>2. /\ w \in Seq(Parts) /\ Len(w) = Len(v) + 1 /\ w # <<>>
      /\ w[Len(v) + 1] = m /\ \A i \in 1..Len(v) : w[i] = v[i]
  BY <1>1
<1> HIDE DEF w
<1>3. ASSUME NEW i \in 1..Len(w)
      PROVE  /\ w[i].role = "user" => w[i].uses = {}
             /\ w[i].role = "assistant" => w[i].results = {}
             /\ w[i].results # {} => i > 1 /\ w[i - 1].uses = w[i].results
             /\ w[i].uses # {} /\ i < Len(w) => w[i + 1].results = w[i].uses
  <2>1. CASE i = Len(v) + 1
    <3>1. w[i] = m /\ i > 1 /\ i - 1 = Len(v) /\ w[i - 1] = v[Len(v)] /\ ~(i < Len(w))
      BY <2>1, <1>1, <1>2
    <3> QED
      BY <3>1
  <2>2. CASE i \in 1..Len(v)
    <3>1. /\ w[i] = v[i]
          /\ v[i].role = "user" => v[i].uses = {}
          /\ v[i].role = "assistant" => v[i].results = {}
          /\ v[i].results # {} => i > 1 /\ v[i - 1].uses = v[i].results
          /\ v[i].uses # {} /\ i < Len(v) => v[i + 1].results = v[i].uses
      BY <2>2, <1>2 DEF Paired
    <3>2. i > 1 => w[i - 1] = v[i - 1]
      BY <2>2, <1>1, <1>2
    <3>3. CASE i < Len(v)
      <4>1. w[i + 1] = v[i + 1]
        BY <3>3, <2>2, <1>1, <1>2
      <4> QED
        BY <3>1, <3>2, <3>3, <4>1
    <3>4. CASE i = Len(v)
      <4>1. w[i + 1] = m
        BY <3>4, <1>2
      <4> QED
        BY <3>1, <3>2, <3>4, <4>1
    <3> QED
      BY <3>3, <3>4, <2>2, <1>1
  <2> QED
    BY <2>1, <2>2, <1>1, <1>2
<1>4. Paired(w) /\ w[Len(w)].uses = m.uses
  BY <1>2, <1>3 DEF Paired
<1> QED
  BY <1>4 DEF Closed, w

(* A message without calls or results goes after a closed history.         *)
LEMMA NoteAppended ==
  ASSUME NEW v, Closed(v) PROVE Closed(Append(v, Note)) /\ Closed(WithSkills(v))
<1>1. /\ Note \in Parts /\ Note.role = "user" /\ Note.uses = {} /\ Note.results = {}
  BY DEF Note, Said, Parts, Names
<1>2. Closed(Append(v, Note))
  BY <1>1, PairedAppended DEF Closed
<1> QED
  BY <1>2 DEF WithSkills

(* Eliding old results changes no call and no result's call.               *)
LEMMA ElisionPairs ==
  ASSUME NEW v, Paired(v)
  PROVE  /\ Paired(MicroCompacted(v))
         /\ Closed(v) => Closed(MicroCompacted(v))
<1> DEFINE w == MicroCompacted(v)
           e(i) == v[i].elided \/ (i < RecentFrom(v, KeepRecent) /\ v[i].results # {})
<1>1. v \in Seq(Parts) /\ v # <<>> /\ Len(v) \in Nat /\ Len(v) >= 1 /\ DOMAIN v = 1..Len(v)
  BY DEF Paired
<1>2. w = [i \in 1..Len(v) |-> [v[i] EXCEPT !.elided = e(i)]]
  BY <1>1 DEF MicroCompacted
<1>3. \A i \in 1..Len(v) : e(i) \in BOOLEAN
  OBVIOUS
<1> HIDE DEF e
<1>4. ASSUME NEW i \in 1..Len(v)
      PROVE  /\ w[i] \in Parts
             /\ w[i].role = v[i].role /\ w[i].uses = v[i].uses /\ w[i].results = v[i].results
  <2>1. v[i] \in Parts /\ e(i) \in BOOLEAN
    BY <1>1, <1>3
  <2>2. w[i] = [v[i] EXCEPT !.elided = e(i)]
    BY <1>2
  <2> QED
    BY <2>1, <2>2 DEF Parts
<1>5. w \in Seq(Parts) /\ Len(w) = Len(v) /\ w # <<>>
  <2>1. w \in [1..Len(v) -> Parts]
    BY <1>2, <1>4
  <2> QED
    BY <2>1, <1>1
<1> HIDE DEF w
<1>6. Paired(w)
  <2> SUFFICES ASSUME NEW i \in 1..Len(w)
               PROVE  /\ w[i].role = "user" => w[i].uses = {}
                      /\ w[i].role = "assistant" => w[i].results = {}
                      /\ w[i].results # {} => i > 1 /\ w[i - 1].uses = w[i].results
                      /\ w[i].uses # {} /\ i < Len(w) => w[i + 1].results = w[i].uses
    BY <1>5 DEF Paired
  <2>1. i \in 1..Len(v) /\ (i > 1 => i - 1 \in 1..Len(v))
        /\ (i < Len(v) => i + 1 \in 1..Len(v))
    BY <1>1, <1>5
  <2>2. /\ v[i].role = "user" => v[i].uses = {}
        /\ v[i].role = "assistant" => v[i].results = {}
        /\ v[i].results # {} => i > 1 /\ v[i - 1].uses = v[i].results
        /\ v[i].uses # {} /\ i < Len(v) => v[i + 1].results = v[i].uses
    BY <2>1 DEF Paired
  <2> QED
    BY <2>1, <2>2, <1>4, <1>5
<1>7. w[Len(w)].uses = v[Len(v)].uses
  BY <1>1, <1>4, <1>5
<1> QED
  BY <1>6, <1>7 DEF Closed, w

(* A summary keeps a suffix that begins with an assistant message, so no   *)
(* result is cut from its call; with no turn kept it keeps the last        *)
(* message, whatever it is, and that does not hold.                        *)
LEMMA SummaryPairs ==
  ASSUME KeepRecent > 0, NEW v, Paired(v)
  PROVE  /\ Paired(Summarized(v))
         /\ Closed(v) => Closed(Summarized(v))
<1> DEFINE b == RecentFrom(v, KeepRecent)
           w == <<Note>> \o SubSeq(v, b, Len(v))
<1>1. v \in Seq(Parts) /\ v # <<>> /\ Len(v) \in Nat /\ Len(v) >= 1 /\ DOMAIN v = 1..Len(v)
  BY DEF Paired
<1>2. b = 1 \/ (b \in 1..Len(v) /\ v[b].role = "assistant")
  <2>0. KeepRecent \in Nat
    BY Zenon, TurnAssumption
  <2>1. KeepRecent # 0
    BY <2>0
  <2> DEFINE as == {i \in DOMAIN v : v[i].role = "assistant"}
             from == {i \in as : Cardinality({j \in as : j >= i}) = KeepRecent}
  <2>2. b = IF from = {} THEN 1 ELSE CHOOSE i \in from : TRUE
    BY <2>1 DEF RecentFrom
  <2>3. from # {} => (CHOOSE i \in from : TRUE) \in from
    OBVIOUS
  <2>4. from \subseteq as
    OBVIOUS
  <2> HIDE DEF from
  <2> QED
    BY <2>2, <2>3, <2>4, <1>1
<1> HIDE DEF b
<1>3. CASE b <= 1
  BY <1>3 DEF Summarized, b
<1>4. CASE ~(b <= 1)
  <2>1. b \in 2..Len(v) /\ v[b].role = "assistant" /\ b \in Nat
    BY <1>1, <1>2, <1>4
  <2>2. Summarized(v) = w
    BY <1>4 DEF Summarized, b
  <2>3. Note \in Parts /\ Note.role = "user" /\ Note.uses = {} /\ Note.results = {}
    BY DEF Note, Said, Parts, Names
  <2>4. /\ SubSeq(v, b, Len(v)) \in Seq(Parts) /\ Len(SubSeq(v, b, Len(v))) = Len(v) - b + 1
        /\ \A i \in 1..(Len(v) - b + 1) : SubSeq(v, b, Len(v))[i] = v[b + i - 1]
    BY <1>1, <2>1
  <2>5. /\ w \in Seq(Parts) /\ Len(w) = Len(v) - b + 2 /\ w # <<>> /\ w[1] = Note
        /\ \A j \in 2..(Len(v) - b + 2) : w[j] = SubSeq(v, b, Len(v))[j - 1]
    BY <2>3, <2>4, <1>1, <2>1
  <2>6. ASSUME NEW j \in 2..(Len(v) - b + 2) PROVE w[j] = v[b + j - 2]
    <3>1. j - 1 \in 1..(Len(v) - b + 1) /\ b + (j - 1) - 1 = b + j - 2
      BY <1>1, <2>1
    <3>2. SubSeq(v, b, Len(v))[j - 1] = v[b + (j - 1) - 1]
      BY <3>1, <2>4
    <3> QED
      BY <3>1, <3>2, <2>5
  <2> HIDE DEF w
  <2>7. \A i \in 1..Len(v) :
          /\ v[i].role = "user" => v[i].uses = {}
          /\ v[i].role = "assistant" => v[i].results = {}
          /\ v[i].results # {} => i > 1 /\ v[i - 1].uses = v[i].results
          /\ v[i].uses # {} /\ i < Len(v) => v[i + 1].results = v[i].uses
    BY DEF Paired
  <2>8. ASSUME NEW j \in 1..Len(w)
        PROVE  /\ w[j].role = "user" => w[j].uses = {}
               /\ w[j].role = "assistant" => w[j].results = {}
               /\ w[j].results # {} => j > 1 /\ w[j - 1].uses = w[j].results
               /\ w[j].uses # {} /\ j < Len(w) => w[j + 1].results = w[j].uses
    <3>1. CASE j = 1
      BY <3>1, <2>3, <2>5
    <3>2. CASE j # 1
      <4> DEFINE i == b + j - 2
      <4>1. /\ j \in 2..(Len(v) - b + 2) /\ i \in 1..Len(v) /\ w[j] = v[i]
            /\ (j = 2 => i = b) /\ (j < Len(w) => i < Len(v))
        <5>1. Len(w) = Len(v) - b + 2
          BY <2>5
        <5>2. /\ j \in 2..(Len(v) - b + 2) /\ i \in 1..Len(v)
              /\ (j = 2 => i = b) /\ (j < Len(w) => i < Len(v))
          BY <5>1, <3>2, <2>1, <1>1
        <5>3. w[j] = v[i]
          BY <5>2, <2>6
        <5> QED
          BY <5>2, <5>3
      <4>2. j < Len(w) => w[j + 1] = v[i + 1]
        <5> SUFFICES ASSUME j < Len(w) PROVE w[j + 1] = v[i + 1]
          OBVIOUS
        <5>1. j + 1 \in 2..(Len(v) - b + 2) /\ b + (j + 1) - 2 = i + 1
          BY <4>1, <2>1, <2>5, <1>1
        <5> QED
          BY <5>1, <2>6
      <4>3. j # 2 => w[j - 1] = v[i - 1]
        <5> SUFFICES ASSUME j # 2 PROVE w[j - 1] = v[i - 1]
          OBVIOUS
        <5>1. j - 1 \in 2..(Len(v) - b + 2) /\ b + (j - 1) - 2 = i - 1
          BY <4>1, <2>1, <2>5, <1>1
        <5> QED
          BY <5>1, <2>6
      <4>4. j = 2 => v[i].results = {}
        BY <4>1, <2>1, <2>7
      <4>5. j > 1
        BY <4>1
      <4> HIDE DEF i
      <4> QED
        BY <4>1, <4>2, <4>3, <4>4, <4>5, <2>7
    <3> QED
      BY <3>1, <3>2
  <2>9. Paired(w)
    BY <2>5, <2>8 DEF Paired
  <2>10. w[Len(w)] = v[Len(v)]
    <3>1. Len(w) \in 2..(Len(v) - b + 2) /\ b + Len(w) - 2 = Len(v)
      BY <1>1, <2>1, <2>5
    <3> QED
      BY <3>1, <2>6
  <2> QED
    BY <2>2, <2>9, <2>10 DEF Closed
<1> QED
  BY <1>1, <1>2, <1>3, <1>4

(* Whatever compaction a turn does, its history stays closed.              *)
LEMMA CompactionPairs ==
  ASSUME KeepRecent > 0, Closed(history)
  PROVE  /\ Closed(Elided) /\ Closed(Noted(Elided)) /\ Closed(Noted(Summarized(Elided)))
         /\ Closed(WithSkills(MicroCompacted(history))) /\ Closed(Compacted(history))
<1>1. Closed(MicroCompacted(history)) /\ Closed(Elided)
  BY ElisionPairs DEF Closed, Elided
<1>2. Closed(Summarized(Elided)) /\ Closed(Summarized(history))
  BY <1>1, SummaryPairs DEF Closed
<1>3. \A v : Closed(v) => Closed(WithSkills(v)) /\ Closed(Noted(v))
  BY NoteAppended DEF Noted
<1> QED
  BY <1>1, <1>2, <1>3 DEF Compacted

-----------------------------------------------------------------------------
(* A gate's feedback answers every call of the reply it turns down.        *)
LEMMA FeedbackPairs ==
  ASSUME PairedInv, step \in Working, Feedback PROVE Closed(history')
<1> DEFINE m == Said("user", {}, IF reply.stop = "tool_use" THEN reply.uses ELSE {})
<1>1. (IF reply.stop = "tool_use" THEN reply.uses ELSE {}) = reply.uses
  BY DEF PairedInv
<1>2. m \in Parts /\ m.role = "user" /\ m.uses = {} /\ m.results = reply.uses
  BY <1>1 DEF PairedInv, Said, Parts
<1>3. Paired(history) /\ m.results = history[Len(history)].uses
  BY <1>2 DEF PairedInv
<1> HIDE DEF m
<1>4. Closed(Append(history, m))
  BY <1>2, <1>3, PairedAppended
<1> QED
  BY <1>4 DEF Feedback, m

(* A batch's results answer the calls of its reply.                        *)
LEMMA ResultsPair ==
  ASSUME PairedInv, Loose = {}, RunBatch PROVE Closed(history')
<1> DEFINE m == Said("user", {}, reply.uses)
<1>1. m \in Parts /\ m.role = "user" /\ m.uses = {} /\ m.results = reply.uses
  BY DEF PairedInv, Said, Parts
<1>2. Paired(history) /\ m.results = history[Len(history)].uses
  BY <1>1 DEF PairedInv, RunBatch, Working
<1>3. history' = history \o <<m>>
  BY DEF RunBatch
<1> HIDE DEF m
<1>4. Closed(Append(history, m))
  BY <1>1, <1>2, PairedAppended
<1>5. history \o <<m>> = Append(history, m)
  BY <1>1, <1>2 DEF Paired
<1> QED
  BY <1>3, <1>4, <1>5

(* A reply is the provider's, so its calls end a turn of tool use.         *)
LEMMA ReplyPairs ==
  ASSUME PairedInv, Loose = {}, AfterProviderCall PROVE PairedInv'
<1> DEFINE m == Said("assistant", reply.uses, {})
<1>1. m \in Parts /\ m.role = "assistant" /\ m.uses = reply.uses /\ m.results = {}
  BY DEF PairedInv, Said, Parts
<1>2. Closed(history) /\ step = "after" /\ reply' = reply
  BY DEF PairedInv, AfterProviderCall, Working
<1> HIDE DEF m
<1>3. /\ Paired(Append(history, m))
      /\ Append(history, m)[Len(Append(history, m))].uses = reply.uses
      /\ reply.uses = {} => Closed(Append(history, m))
  BY <1>1, <1>2, PairedAppended DEF Closed
<1>4. CASE step' = "error" /\ history' = history
  BY <1>2, <1>4 DEF PairedInv, Closed, Working
<1>5. CASE /\ history' = Append(history, m)
           /\ step' = IF reply.stop # "tool_use" \/ "final" \in reply.uses
                      THEN "gates" ELSE "tools"
  <2>1. step' \in Working
    BY <1>5 DEF Working
  <2> QED
    BY <2>1, <1>2, <1>3, <1>5 DEF PairedInv
<1>6. CASE reply.uses = {} /\ history' = Append(Append(history, m), Note) /\ step' = "top"
  <2>1. Closed(history')
    BY <1>3, <1>6, NoteAppended
  <2> QED
    BY <2>1, <1>2, <1>6 DEF PairedInv, Closed, Working
<1>7. \/ step' = "error" /\ history' = history
      \/ /\ history' = Append(history, m)
         /\ step' = IF reply.stop # "tool_use" \/ "final" \in reply.uses
                    THEN "gates" ELSE "tools"
      \/ reply.uses = {} /\ history' = Append(Append(history, m), Note) /\ step' = "top"
  BY DEF AfterProviderCall, m
<1> QED
  BY <1>4, <1>5, <1>6, <1>7

(* Every step of a run, and the session's next run, keep the history       *)
(* paired.                                                                 *)
LEMMA TurnPairs ==
  ASSUME PairedInv, Loose = {}, KeepRecent > 0, [TurnNext]_turnVars PROVE PairedInv'
<1>a. /\ Paired(history) /\ reply.uses \subseteq Names
      /\ reply.uses # {} => reply.stop = "tool_use"
  BY DEF PairedInv
<1>b. Closed(history) => Paired(history)
  BY DEF Closed
<1>c. NoReply.uses = {}
  BY DEF NoReply
<1>1. ASSUME Closed(history'), reply' = reply \/ reply' = NoReply, step' \notin Working
      PROVE  PairedInv'
  BY <1>1, <1>a, <1>c DEF PairedInv, Closed
<1>2. ASSUME history' = history, reply' = reply \/ reply' = NoReply,
             step' \in {"success", "error"}
      PROVE  PairedInv'
  BY <1>2, <1>a, <1>c DEF PairedInv, Working
<1>3. ASSUME history' = history, reply' = reply, step' = step
      PROVE  PairedInv'
  BY <1>3 DEF PairedInv, Closed
<1>4. ASSUME history' = history, reply' = reply, step \in Working, step' \in Working
      PROVE  PairedInv'
  BY <1>4 DEF PairedInv, Closed
<1>5. step \notin Working \cup {"success", "error"} => Closed(history)
  BY DEF PairedInv
<1>6. CASE NextPrompt
  <2>1. history[Len(history)].uses = {} /\ history' = Append(history, Note)
        /\ step' = "top" /\ reply' = NoReply
    BY <1>6 DEF NextPrompt, RunAgain, FreshRun, Last
  <2>2. Closed(history')
    BY <2>1, <1>a, NoteAppended DEF Closed
  <2> QED
    BY <2>1, <2>2, <1>1 DEF Working
<1>7. CASE PromptBlocked
  BY <1>7, <1>2 DEF PromptBlocked, RunAgain, FreshRun
<1>8. CASE StartTurn
  BY <1>8, <1>1, <1>5 DEF StartTurn, Working
<1>9. CASE MaxTurnsReached
  BY <1>9, <1>2 DEF MaxTurnsReached
<1>10. CASE MaybeCompact
  <2>1. Closed(history) /\ step' = "request" /\ reply' = reply
    BY <1>5, <1>10 DEF MaybeCompact, Working
  <2>2. Closed(history')
    BY <2>1, <1>10, CompactionPairs DEF MaybeCompact
  <2> QED
    BY <2>1, <2>2, <1>1 DEF Working
<1>11. CASE SummaryFails
  <2>1. Closed(history) /\ step' = "error" /\ reply' = reply /\ history' = Elided
    BY <1>5, <1>11 DEF SummaryFails, Working
  <2>2. Closed(history')
    BY <2>1, CompactionPairs
  <2> QED
    BY <2>1, <2>2, <1>1 DEF Working
<1>12. CASE BeforeProviderCall
  <2>1. Closed(history) /\ reply' = reply
    BY <1>5, <1>12 DEF BeforeProviderCall, Working
  <2>2. \/ step' \in {"calling", "success", "error"} /\ history' = history
        \/ step' = "top" /\ history' = Append(history, Note)
    BY <1>12 DEF BeforeProviderCall
  <2>3. Closed(history') /\ step' \notin Working
    BY <2>1, <2>2, NoteAppended DEF Working
  <2> QED
    BY <2>1, <2>3, <1>1
<1>13. CASE ContextTooLong
  <2>1. Closed(history) /\ reply' = reply /\ step' = "calling"
    BY <1>5, <1>13 DEF ContextTooLong, Working
  <2>2. history' = WithSkills(MicroCompacted(history)) \/ history' = Compacted(history)
    BY <1>13 DEF ContextTooLong, Rung, LegacyRetry
  <2>3. Closed(history')
    BY <2>1, <2>2, CompactionPairs
  <2> QED
    BY <2>1, <2>3, <1>1 DEF Working
<1>14. CASE Overloaded
  <2>1. Closed(history) /\ reply' = reply /\ history' = history
        /\ step' \in {"calling", "error"}
    BY <1>5, <1>14 DEF Overloaded, Working
  <2> QED
    BY <2>1, <1>1 DEF Working
<1>15. CASE ProviderFails
  BY <1>15, <1>2 DEF ProviderFails
<1>16. CASE ProviderReplies
  <2>1. Closed(history) /\ history' = history /\ step' = "after" /\ reply' \in Replies
    BY <1>5, <1>16 DEF ProviderReplies, Working
  <2>2. reply'.uses \subseteq Names /\ (reply'.uses # {} => reply'.stop = "tool_use")
    BY <2>1 DEF Replies, Names
  <2> QED
    BY <2>1, <2>2, <1>b DEF PairedInv, Working, Closed
<1>17. CASE AfterProviderCall
  BY <1>17, ReplyPairs
<1>18. CASE SchemaGate
  <2>1. step \in Working /\ reply' = reply
    BY <1>18 DEF SchemaGate, Working
  <2>2. CASE Feedback
    <3>1. Closed(history') /\ step' = "top"
      BY <2>1, <2>2, FeedbackPairs DEF Feedback
    <3> QED
      BY <3>1, <2>1, <1>1 DEF Working
  <2>3. CASE step' = "answer" /\ history' = history
    BY <2>1, <2>3, <1>4 DEF Working
  <2> QED
    BY <2>2, <2>3, <1>18 DEF SchemaGate
<1>19. CASE BeforeFinalAnswer
  <2>1. step \in Working /\ reply' = reply
    BY <1>19 DEF BeforeFinalAnswer, Working
  <2>2. CASE Feedback
    <3>1. Closed(history') /\ step' = "top"
      BY <2>1, <2>2, FeedbackPairs DEF Feedback
    <3> QED
      BY <3>1, <2>1, <1>1 DEF Working
  <2>3. CASE step' = "stopping" /\ history' = history
    BY <2>1, <2>3, <1>4 DEF Working
  <2>4. CASE step' = "error" /\ history' = history
    BY <2>1, <2>4, <1>2
  <2> QED
    BY <2>2, <2>3, <2>4, <1>19 DEF BeforeFinalAnswer
<1>20. CASE StopHook
  <2>1. step \in Working /\ reply' = reply
    BY <1>20 DEF StopHook, Working
  <2>2. CASE Feedback
    <3>1. Closed(history') /\ step' = "top"
      BY <2>1, <2>2, FeedbackPairs DEF Feedback
    <3> QED
      BY <3>1, <2>1, <1>1 DEF Working
  <2>3. CASE step' \in {"success", "error"} /\ history' = history
    BY <2>1, <2>3, <1>2
  <2> QED
    BY <2>2, <2>3, <1>20 DEF StopHook
<1>21. CASE RunBatch
  <2>1. Closed(history') /\ reply' = reply
    BY <1>21, ResultsPair DEF RunBatch
  <2>2. step' \in {"reminder", "error", "top"}
    BY <1>21 DEF RunBatch, Guarded
  <2> QED
    BY <2>1, <2>2, <1>1 DEF Working
<1>22. CASE RemindAndForce
  <2>1. Closed(history) /\ reply' = reply /\ step' = "top" /\ history' = Append(history, Note)
    BY <1>5, <1>22 DEF RemindAndForce, Working
  <2> QED
    BY <2>1, <1>1, NoteAppended DEF Working
<1>23. CASE UNCHANGED turnVars
  BY <1>23, <1>3 DEF turnVars
<1> QED
  BY <1>6, <1>7, <1>8, <1>9, <1>10, <1>11, <1>12, <1>13, <1>14, <1>15, <1>16, <1>17, <1>18,
     <1>19, <1>20, <1>21, <1>22, <1>23 DEF TurnNext, TurnStep, Gates

(* Every tool_use the provider is sent is answered by the next message,    *)
(* through retries, gates, reminders, elision and summaries, wherever the  *)
(* code leaves none unanswered and a summary keeps a turn.                 *)
THEOREM CallsArePaired == Loose = {} /\ KeepRecent > 0 /\ TurnSpec => []ToolUsesAnswered
<1> SUFFICES ASSUME Loose = {}, KeepRecent > 0 PROVE TurnSpec => []ToolUsesAnswered
  OBVIOUS
<1>1. TurnInit => PairedInv
  <2> SUFFICES ASSUME TurnInit PROVE PairedInv
    OBVIOUS
  <2>1. history = <<Note>> /\ reply = NoReply /\ step = "top"
    BY DEF TurnInit
  <2>2. Note \in Parts /\ Note.uses = {} /\ Note.results = {} /\ Note.role = "user"
    BY DEF Note, Said, Parts, Names
  <2>3. /\ history \in Seq(Parts) /\ history # <<>> /\ Len(history) = 1
        /\ \A i \in 1..Len(history) : history[i] = Note
    BY <2>1, <2>2
  <2>4. Closed(history)
    BY <2>2, <2>3 DEF Closed, Paired
  <2> QED
    BY <2>1, <2>4 DEF PairedInv, Closed, NoReply, Working
<1>2. PairedInv /\ [TurnNext]_turnVars => PairedInv'
  BY TurnPairs
<1>3. PairedInv => ToolUsesAnswered
  <2> SUFFICES ASSUME PairedInv, step = "calling", NEW i \in DOMAIN history
               PROVE  /\ history[i].uses # {} =>
                           i < Len(history) /\ history[i + 1].results = history[i].uses
                      /\ history[i].results # {} =>
                           i > 1 /\ history[i - 1].uses = history[i].results
    BY DEF ToolUsesAnswered
  <2>1. Closed(history)
    BY DEF PairedInv, Working
  <2>2. history \in Seq(Parts) /\ i \in 1..Len(history) /\ Len(history) \in Nat
    BY <2>1 DEF Closed, Paired
  <2>3. /\ history[i].results # {} => i > 1 /\ history[i - 1].uses = history[i].results
        /\ history[i].uses # {} /\ i < Len(history) => history[i + 1].results = history[i].uses
    BY <2>1, <2>2 DEF Closed, Paired
  <2>4. history[i].uses # {} => i # Len(history)
    BY <2>1 DEF Closed
  <2> QED
    BY <2>2, <2>3, <2>4
<1> QED
  BY <1>1, <1>2, <1>3, PTL DEF TurnSpec

-----------------------------------------------------------------------------
(***************************************************************************)
(* A middleware among the hooks treats every value, for any chain of       *)
(* hooks, runs and answers.                                                *)
(***************************************************************************)

Actions == {"continue", "mutate", "block", "stop", "retry", "force_continue"}
Values == {"raw", "clean", "error", "none"}
HookTypes ==
  /\ place \in [HookRuns -> Chokepoints \cup {"reply", "over"}]
  /\ cursor \in [HookRuns -> Nat \ {0}]
  /\ context \in [HookRuns -> Values \ {"none"}]
  /\ current \in [HookRuns -> [action : Actions, value : Values]]
  /\ delivered \in [HookRuns -> SUBSET Values]

(* Once a dispatch about a tool has passed hook m, what the next hook is   *)
(* given and what the dispatch will deliver has been treated, unless the   *)
(* call is blocked, and then no hook follows.                              *)
Going(r) == current[r].action \in {"continue", "mutate"}
Treated(r) ==
  /\ current[r].action = "mutate" /\ current[r].value # "raw" /\ context[r] # "raw"
Past(r, m) ==
  place[r] \in {"pre", "post"} =>
    /\ cursor[r] <= Len(Chain) => Going(r)
    /\ current[r].action \in {"continue", "mutate", "block", "stop"}
    /\ cursor[r] > m /\ Going(r) => Treated(r)
HooksInv(m) == HookTypes /\ \A r \in HookRuns : Past(r, m) /\ "raw" \notin delivered[r]

(* A new dispatch hands out the raw value and has shown it to nobody.      *)
LEMMA DispatchBegins ==
  ASSUME NEW m \in DOMAIN Chain, HooksInv(m), NEW r \in HookRuns,
         NEW p \in Chokepoints \cup {"reply", "over"}, Enter(r, p, "raw"),
         delivered' \in [HookRuns -> SUBSET Values],
         \A q \in HookRuns : "raw" \notin delivered'[q]
  PROVE  HooksInv(m)'
<1>1. m \in Nat \ {0}
  BY HooksAssumption DEF HooksAssumption
<1>2. HookTypes'
  <2>1. Continue \in [action : Actions, value : Values] /\ "raw" \in Values \ {"none"}
    BY DEF Continue, Result, Actions, Values
  <2>2. HookTypes
    BY DEF HooksInv
  <2>3. /\ place' = [place EXCEPT ![r] = p] /\ cursor' = [cursor EXCEPT ![r] = 1]
        /\ context' = [context EXCEPT ![r] = "raw"] /\ current' = [current EXCEPT ![r] = Continue]
    BY DEF Enter
  <2>4. /\ place' \in [HookRuns -> Chokepoints \cup {"reply", "over"}]
        /\ cursor' \in [HookRuns -> Nat \ {0}]
        /\ context' \in [HookRuns -> Values \ {"none"}]
    BY <2>1, <2>2, <2>3 DEF HookTypes
  <2>5. current' \in [HookRuns -> [action : Actions, value : Values]]
    BY <2>1, <2>2, <2>3 DEF HookTypes
  <2> QED
    BY <2>4, <2>5 DEF HookTypes
<1>3. ASSUME NEW q \in HookRuns PROVE Past(q, m)'
  <2>1. CASE q = r
    BY <1>1, <2>1 DEF HooksInv, HookTypes, Past, Enter, Going, Continue, Result
  <2>2. CASE q # r
    BY <2>2 DEF HooksInv, HookTypes, Past, Enter, Going, Treated
  <2> QED
    BY <2>1, <2>2
<1> QED
  BY <1>2, <1>3 DEF HooksInv

(* What a hook answers at a tool's chokepoint, by its kind.                *)
LEMMA HookAnswers ==
  ASSUME Honoured, NEW m \in DOMAIN Chain, Chain[m] = "middleware", HooksInv(m),
         NEW r \in HookRuns, place[r] \in Chokepoints, cursor[r] <= Len(Chain),
         NEW ret \in Returns(r)
  PROVE  /\ ret[1] \in [action : Actions, value : Values]
         /\ ret[1].action = "mutate" => ret[1].value # "none"
         /\ place[r] \in {"pre", "post"} =>
              /\ ret[1].action \in {"continue", "mutate", "block", "stop"}
              /\ cursor[r] = m => ret[1].action # "continue"
              /\ ret[1].action = "mutate" => ret[1].value = context[r] \/ ret[1].value # "raw"
              /\ ret[1].action = "mutate" /\ cursor[r] = m => ret[1].value # "raw"
<1>1. Chain[cursor[r]] \in {"plain", "middleware", "verifier"} /\ context[r] \in Values \ {"none"}
  BY HooksAssumption DEF HooksAssumption, HooksInv, HookTypes
<1>2. CASE Chain[cursor[r]] = "plain"
  <2>1. ret[1] \in PlainReturns(r)
    BY <1>2 DEF Returns
  <2>2. Offers(place[r]) \subseteq Actions \ {"continue"}
    BY DEF Offers, Actions, Chokepoints
  <2>3. place[r] \in {"pre", "post"} => Offers(place[r]) = {"mutate", "block", "stop"}
    BY DEF Offers
  <2> QED
    BY <1>1, <1>2, <2>1, <2>2, <2>3 DEF PlainReturns, Continue, Result, Actions, Values
<1>3. CASE Chain[cursor[r]] = "middleware"
  <2>1. ret[1] \in MiddlewareReturns(r)
    BY <1>3 DEF Returns
  <2> QED
    BY <2>1 DEF MiddlewareReturns, Continue, Result, Actions, Values
<1>4. CASE Chain[cursor[r]] = "verifier"
  <2>1. ret \in VerifierReturns(r)
    BY <1>4 DEF Returns
  <2> QED
    BY <1>4, <2>1 DEF VerifierReturns, Judged, Continue, Result, Actions, Values
<1> QED
  BY <1>1, <1>2, <1>3, <1>4

(* A hook of the chain that is called keeps the invariant: the middleware  *)
(* at its place rewrites what those after it see.                          *)
LEMMA HookCalled ==
  ASSUME Honoured, NEW m \in DOMAIN Chain, Chain[m] = "middleware", HooksInv(m),
         NEW r \in HookRuns, CallHook(r)
  PROVE  HooksInv(m)'
<1>1. PICK ret \in Returns(r) :
       /\ cursor' = [cursor EXCEPT ![r] =
            IF ret[1].action \in {"continue", "mutate"} THEN @ + 1 ELSE Len(Chain) + 1]
       /\ context' = [context EXCEPT ![r] = IF ret[1].action = "mutate" THEN ret[1].value ELSE @]
       /\ current' = [current EXCEPT ![r] =
            CASE ret[1].action = "continue" -> @
              [] ret[1].action = "mutate" -> Combine(@, ret[1])
              [] OTHER -> ret[1]]
  BY DEF CallHook
<1> DEFINE res == ret[1]
<1>2. /\ res \in [action : Actions, value : Values]
      /\ res.action = "mutate" => res.value # "none"
      /\ place[r] \in {"pre", "post"} =>
           /\ res.action \in {"continue", "mutate", "block", "stop"}
           /\ cursor[r] = m => res.action # "continue"
           /\ res.action = "mutate" => res.value = context[r] \/ res.value # "raw"
           /\ res.action = "mutate" /\ cursor[r] = m => res.value # "raw"
  BY HookAnswers DEF CallHook
<1> HIDE DEF res
<1>3. /\ cursor' = [cursor EXCEPT ![r] =
            IF res.action \in {"continue", "mutate"} THEN @ + 1 ELSE Len(Chain) + 1]
      /\ context' = [context EXCEPT ![r] = IF res.action = "mutate" THEN res.value ELSE @]
      /\ current' = [current EXCEPT ![r] = IF res.action = "continue" THEN @ ELSE res]
  BY <1>1 DEF res, Combine
<1>4. UNCHANGED <<place, delivered>> /\ place[r] \in Chokepoints /\ cursor[r] <= Len(Chain)
  BY DEF CallHook
<1>5. m \in Nat \ {0} /\ Len(Chain) \in Nat /\ m <= Len(Chain)
  BY HooksAssumption DEF HooksAssumption
<1>6. HookTypes'
  BY <1>2, <1>3, <1>4, <1>5 DEF HooksInv, HookTypes, Actions
<1>7. ASSUME NEW q \in HookRuns PROVE Past(q, m)'
  <2>1. CASE q = r
    BY <1>2, <1>3, <1>4, <1>5, <2>1 DEF HooksInv, HookTypes, Past, Going, Treated
  <2>2. CASE q # r
    BY <1>3, <1>4, <2>2 DEF HooksInv, HookTypes, Past, Going, Treated
  <2> QED
    BY <2>1, <2>2
<1> QED
  BY <1>4, <1>6, <1>7 DEF HooksInv

(* A tool that runs, here or in the background, has a treated input.       *)
LEMMA RunsTreated ==
  ASSUME NEW m \in DOMAIN Chain, HooksInv(m), NEW r \in HookRuns, Allowed(r), RunsTool(r)
  PROVE  /\ delivered' \in [HookRuns -> SUBSET Values]
         /\ \A q \in HookRuns : "raw" \notin delivered'[q]
<1>1. Treated(r)
  BY HooksAssumption
  DEF Allowed, Dispatched, HooksAssumption, HooksInv, HookTypes, Past, Going
<1>2. delivered' = [delivered EXCEPT ![r] = @ \cup {current[r].value}]
  BY <1>1 DEF RunsTool, Treated
<1> QED
  BY <1>1, <1>2 DEF HooksInv, HookTypes, Treated

Middlewares == {m \in DOMAIN Chain : Chain[m] = "middleware"}
AllTreated == \A m \in Middlewares : HooksInv(m)

(* No tool runs with an input, in the foreground or the background, and    *)
(* the model is sent no tool_result block, that a middleware among the     *)
(* hooks has not treated, when the hooks return what their chokepoints     *)
(* honour, in any order and number.  What a tool left in the background    *)
(* returns comes in a notification, of which this says nothing.            *)
THEOREM TreatedBeforeUse == Honoured /\ HooksSpec => []MiddlewareHasItsSay
<1> SUFFICES ASSUME Honoured PROVE HooksSpec => []MiddlewareHasItsSay
  OBVIOUS
<1>1. HooksInit => AllTreated
  BY HooksAssumption
  DEF HooksInit, AllTreated, Middlewares, HooksInv, HookTypes, Past, Continue, Result, Actions,
      Values
<1>2. AllTreated /\ [HooksNext]_hookVars => AllTreated'
  <2> SUFFICES ASSUME [HooksNext]_hookVars, NEW m \in DOMAIN Chain, Chain[m] = "middleware",
                      HooksInv(m)
               PROVE  HooksInv(m)'
    BY DEF AllTreated, Middlewares
  <2>1. CASE UNCHANGED hookVars
    BY <2>1 DEF hookVars, HooksInv, HookTypes, Past, Going, Treated
  <2>2. ASSUME NEW r \in HookRuns, CallHook(r) PROVE HooksInv(m)'
    BY <2>2, HookCalled
  <2>3. ASSUME NEW r \in HookRuns, ToolRuns(r) PROVE HooksInv(m)'
    <3>1. delivered' \in [HookRuns -> SUBSET Values] /\ \A q \in HookRuns : "raw" \notin delivered'[q]
      BY <2>3, RunsTreated DEF ToolRuns
    <3> QED
      BY <2>3, <3>1, DispatchBegins DEF ToolRuns, Chokepoints
  <2>4. ASSUME NEW r \in HookRuns, ResultDelivered(r) PROVE HooksInv(m)'
    <3> DEFINE v == CASE current[r].action = "mutate" -> current[r].value
                      [] current[r].action \in {"block", "stop"} -> "error"
                      [] OTHER -> "raw"
    <3>1. v \in Values /\ v # "raw"
      BY <2>4, HooksAssumption
      DEF ResultDelivered, Dispatched, HooksAssumption, HooksInv, HookTypes, Past, Going, Treated, Values
    <3>2. delivered' = [delivered EXCEPT ![r] = @ \cup {v}] /\ Enter(r, "reply", "raw")
      BY <2>4 DEF ResultDelivered
    <3> HIDE DEF v
    <3>3. delivered' \in [HookRuns -> SUBSET Values] /\ \A q \in HookRuns : "raw" \notin delivered'[q]
      BY <3>1, <3>2 DEF HooksInv, HookTypes
    <3> QED
      BY <3>2, <3>3, DispatchBegins
  <2>5. ASSUME NEW r \in HookRuns,
               \/ Reply(r) \/ ToolBlocked(r) \/ AnswerGated(r) \/ StopGated(r) \/ RunStopped(r)
               \/ RunOver(r)
        PROVE HooksInv(m)'
    <3>1. /\ delivered' = delivered
          /\ \E p \in Chokepoints \cup {"reply", "over"} : Enter(r, p, "raw")
      BY <2>5 DEF Reply, ToolBlocked, AnswerGated, StopGated, RunStopped, RunOver, Chokepoints
    <3> QED
      BY <3>1, DispatchBegins DEF HooksInv, HookTypes
  <2>6. ASSUME NEW r \in HookRuns, ToolDetached(r) PROVE HooksInv(m)'
    <3>1. delivered' \in [HookRuns -> SUBSET Values] /\ \A q \in HookRuns : "raw" \notin delivered'[q]
      BY <2>6, RunsTreated DEF ToolDetached
    <3> QED
      BY <2>6, <3>1, DispatchBegins DEF ToolDetached
  <2>7. ASSUME NEW r \in HookRuns, BackgroundNotified(r) PROVE HooksInv(m)'
    BY <2>7 DEF BackgroundNotified, HooksInv, HookTypes, Past, Going, Treated
  <2> QED
    BY <2>1, <2>2, <2>3, <2>4, <2>5, <2>6, <2>7 DEF HooksNext
<1>3. AllTreated => MiddlewareHasItsSay
  BY DEF AllTreated, Middlewares, HooksInv, MiddlewareHasItsSay
<1> QED
  BY <1>1, <1>2, <1>3, PTL DEF HooksSpec

-----------------------------------------------------------------------------
(***************************************************************************)
(* Permissions: a command is allowed in every part of it.                  *)
(***************************************************************************)

(* d asks for one segment of what c asks for.                              *)
PartOf(d, c) ==
  /\ d.tool = c.tool /\ d.scope = c.scope
  /\ \E s \in ToSet(c.segments) : ToSet(d.segments) = {s}

(* d is answered no worse than c, unless c is denied: as c is, or allowed. *)
NoWorse(answer, whole) == whole = "deny" \/ answer \in {whole, "allow"}

(* A rule says no worse of a segment than of the command it is part of     *)
(* (evaluate_bash_rules).                                                  *)
LEMMA RuleOfPart ==
  ASSUME NEW rs, NEW i, NEW c, NEW d, PartOf(d, c)
  PROVE  NoWorse(RuleSays(rs, i, d), RuleSays(rs, i, c))
<1>1. CASE rs[i].kind = "bash" /\ c.tool = "Bash"
  <2> DEFINE bash == SelectSeq(SubSeq(rs, i, Len(rs)), LAMBDA r : r.kind = "bash")
             whole == {FirstMatch(bash, s) : s \in ToSet(c.segments)}
             part == {FirstMatch(bash, s) : s \in ToSet(d.segments)}
  <2>1. /\ RuleSays(rs, i, c) = IF "deny" \in whole THEN "deny"
                                 ELSE IF whole = {"allow"} THEN "allow" ELSE "none"
        /\ RuleSays(rs, i, d) = IF "deny" \in part THEN "deny"
                                 ELSE IF part = {"allow"} THEN "allow" ELSE "none"
    BY <1>1 DEF RuleSays, BashDecision, PartOf
  <2>2. part \subseteq whole /\ \E x \in whole : part = {x}
    BY DEF PartOf
  <2> HIDE DEF whole, part, bash
  <2> QED
    BY <2>1, <2>2 DEF NoWorse
<1>2. CASE ~(rs[i].kind = "bash" /\ c.tool = "Bash")
  <2>1. RuleSays(rs, i, d) = RuleSays(rs, i, c)
    BY <1>2 DEF RuleSays, PartOf
  <2> QED
    BY <2>1 DEF NoWorse
<1> QED
  BY <1>1, <1>2

(* A list of rules that has an opinion gives that of the first that has    *)
(* one (evaluate_rule_list).                                               *)
LEMMA FirstOpinion ==
  ASSUME NEW rs, DOMAIN rs \subseteq Nat, NEW c
  PROVE  LET speaks == {i \in DOMAIN rs : RuleSays(rs, i, c) \notin {"none", "passthrough"}}
         IN  \/ speaks = {} /\ RuleList(rs, c) = "none"
             \/ \E i \in speaks : (\A j \in speaks : i <= j) /\ RuleList(rs, c) = RuleSays(rs, i, c)
<1> DEFINE speaks == {i \in DOMAIN rs : RuleSays(rs, i, c) \notin {"none", "passthrough"}}
<1>1. CASE speaks = {}
  BY <1>1 DEF RuleList
<1>2. CASE speaks # {}
  <2>1. \E i \in speaks : \A j \in speaks : i <= j
    <3>1. speaks \in SUBSET Nat
      OBVIOUS
    <3> HIDE DEF speaks
    <3> QED
      BY <1>2, <3>1, FirstPosition
  <2>2. RuleList(rs, c) = RuleSays(rs, CHOOSE i \in speaks : \A j \in speaks : i <= j, c)
    BY <1>2 DEF RuleList
  <2> HIDE DEF speaks
  <2>3. PICK f \in speaks : f = (CHOOSE i \in speaks : \A j \in speaks : i <= j)
                           /\ \A j \in speaks : f <= j
    BY <2>1
  <2>4. RuleList(rs, c) = RuleSays(rs, f, c)
    BY <2>2, <2>3
  <2> QED
    BY <2>3, <2>4 DEF speaks
<1> QED
  BY <1>1, <1>2

(* A list of rules answers no worse of a part of a command than of the     *)
(* command, and passes neither through.                                    *)
LEMMA ListOfPart ==
  ASSUME NEW rs, DOMAIN rs \subseteq Nat, NEW c, NEW d, PartOf(d, c)
  PROVE  /\ NoWorse(RuleList(rs, d), RuleList(rs, c))
         /\ RuleList(rs, c) # "passthrough"
<1> DEFINE Silent == {"none", "passthrough"}
<1>1. \A i : NoWorse(RuleSays(rs, i, d), RuleSays(rs, i, c))
  BY RuleOfPart
<1>2. CASE \A i \in DOMAIN rs : RuleSays(rs, i, c) \in Silent
  <2>1. RuleList(rs, c) = "none"
    BY <1>2, FirstOpinion
  <2>2. RuleList(rs, d) \in {"none", "allow"}
    <3>1. \A i \in DOMAIN rs : RuleSays(rs, i, d) \in Silent \cup {"allow"}
      BY <1>1, <1>2 DEF NoWorse
    <3> QED
      BY <3>1, FirstOpinion
  <2> QED
    BY <2>1, <2>2 DEF NoWorse
<1>3. ASSUME NEW f \in DOMAIN rs, RuleSays(rs, f, c) \notin Silent,
             \A j \in DOMAIN rs : RuleSays(rs, j, c) \notin Silent => f <= j,
             RuleList(rs, c) = RuleSays(rs, f, c)
      PROVE  NoWorse(RuleList(rs, d), RuleList(rs, c)) /\ RuleList(rs, c) # "passthrough"
  <2>1. CASE \A i \in DOMAIN rs : RuleSays(rs, i, d) \in Silent
    <3>1. RuleList(rs, d) = "none"
      BY <2>1, FirstOpinion
    <3>2. RuleSays(rs, f, c) = "deny"
      BY <1>1, <1>3, <2>1 DEF NoWorse
    <3> QED
      BY <1>3, <3>1, <3>2 DEF NoWorse
  <2>2. ASSUME NEW g \in DOMAIN rs, RuleSays(rs, g, d) \notin Silent,
               \A j \in DOMAIN rs : RuleSays(rs, j, d) \notin Silent => g <= j,
               RuleList(rs, d) = RuleSays(rs, g, d)
        PROVE  NoWorse(RuleList(rs, d), RuleList(rs, c))
    <3>1. CASE g = f
      BY <1>1, <1>3, <2>2, <3>1 DEF NoWorse
    <3>2. CASE g < f
      <4>1. RuleSays(rs, g, c) \in Silent
        BY <1>3, <3>2
      <4>2. RuleSays(rs, g, d) = "allow"
        BY <1>1, <2>2, <4>1 DEF NoWorse
      <4> QED
        BY <1>3, <2>2, <4>2 DEF NoWorse
    <3>3. CASE f < g
      <4>1. RuleSays(rs, f, d) \in Silent
        BY <2>2, <3>3
      <4>2. RuleSays(rs, f, c) = "deny"
        BY <1>1, <1>3, <4>1 DEF NoWorse
      <4> QED
        BY <1>3, <4>2 DEF NoWorse
    <3> QED
      BY <3>1, <3>2, <3>3
  <2> QED
    BY <1>3, <2>1, <2>2, FirstOpinion
<1> QED
  BY <1>2, <1>3, FirstOpinion

(* Layers answer no worse of a segment either.                             *)
LEMMA LayersOfPart ==
  ASSUME NEW ls \in Seq(Seq(Rules)), NEW c, NEW d, PartOf(d, c)
  PROVE  NoWorse(Layered(ls, d), Layered(ls, c))
<1> DEFINE Opinions(x) == {i \in DOMAIN ls : RuleList(ls[i], x) # "none"}
           Final(x) == RuleList(ls[CHOOSE i \in Opinions(x) : \A j \in Opinions(x) : j <= i], x)
<1>1. \A i \in DOMAIN ls : NoWorse(RuleList(ls[i], d), RuleList(ls[i], c))
  <2> SUFFICES ASSUME NEW i \in DOMAIN ls
               PROVE  NoWorse(RuleList(ls[i], d), RuleList(ls[i], c))
    OBVIOUS
  <2>1. DOMAIN ls[i] \subseteq Nat
    OBVIOUS
  <2> QED
    BY <2>1, ListOfPart
<1>2. ASSUME NEW x, Opinions(x) # {}
      PROVE  \E i \in Opinions(x) : (\A j \in Opinions(x) : j <= i) /\ Final(x) = RuleList(ls[i], x)
  <2>1. Opinions(x) \in SUBSET (1..Len(ls)) /\ Len(ls) \in Nat
    OBVIOUS
  <2>2. \E i \in Opinions(x) : \A j \in Opinions(x) : j <= i
    <3> HIDE DEF Opinions
    <3> QED
      BY <1>2, <2>1, LastPosition
  <2> DEFINE last == CHOOSE i \in Opinions(x) : \A j \in Opinions(x) : j <= i
  <2>3. last \in Opinions(x) /\ \A j \in Opinions(x) : j <= last
    <3> HIDE DEF Opinions
    <3> QED
      BY <2>2
  <2>4. Final(x) = RuleList(ls[last], x)
    OBVIOUS
  <2> QED
    BY <2>3, <2>4
<1>3. CASE \E i \in DOMAIN ls : RuleList(ls[i], c) = "deny"
  BY <1>3 DEF NoWorse, Layered
<1>4. CASE \A i \in DOMAIN ls : RuleList(ls[i], c) # "deny"
  <2>1. \A i \in DOMAIN ls : RuleList(ls[i], d) # "deny"
    BY <1>1, <1>4 DEF NoWorse
  <2>2. \A x \in {c, d} : Layered(ls, x) = IF Opinions(x) = {} THEN "none" ELSE Final(x)
    BY <1>4, <2>1 DEF Layered
  <2>3. CASE Opinions(c) = {}
    <3>1. Layered(ls, c) = "none"
      BY <2>2, <2>3
    <3>2. \A i \in Opinions(d) : RuleList(ls[i], d) = "allow"
      BY <1>1, <2>3 DEF NoWorse
    <3>3. Layered(ls, d) \in {"none", "allow"}
      BY <1>2, <2>2, <3>2
    <3> QED
      BY <3>1, <3>3 DEF NoWorse
  <2>4. CASE Opinions(c) # {}
    <3>1. PICK f \in Opinions(c) : (\A j \in Opinions(c) : j <= f) /\ Final(c) = RuleList(ls[f], c)
      BY <1>2, <2>4
    <3>2. RuleList(ls[f], d) \in {RuleList(ls[f], c), "allow"} /\ f \in Opinions(d)
      BY <1>1, <1>4 DEF NoWorse
    <3>3. PICK g \in Opinions(d) : (\A j \in Opinions(d) : j <= g) /\ Final(d) = RuleList(ls[g], d)
      BY <1>2, <3>2
    <3>4. RuleList(ls[g], d) \in {RuleList(ls[f], c), "allow"}
      <4>1. CASE g \in Opinions(c)
        <5>1. g = f
          BY <3>1, <3>2, <3>3, <4>1
        <5> QED
          BY <3>2, <5>1
      <4>2. CASE g \notin Opinions(c)
        BY <1>1, <3>3, <4>2 DEF NoWorse
      <4> QED
        BY <4>1, <4>2
    <3>5. Layered(ls, c) = RuleList(ls[f], c) /\ Layered(ls, d) = RuleList(ls[g], d)
      <4>1. Opinions(c) # {} /\ Opinions(d) # {}
        BY <2>4, <3>2
      <4> HIDE DEF Opinions, Final
      <4> QED
        BY <2>2, <3>1, <3>3, <4>1
    <3> QED
      BY <3>4, <3>5 DEF NoWorse
  <2> QED
    BY <2>3, <2>4
<1> QED
  BY <1>3, <1>4

(* What is allowed is allowed segment by segment, and no layer denies it.  *)
LEMMA AllowedParts ==
  ASSUME NEW c, layers \in Seq(Seq(Rules)), rules \in Seq(Rules), Evaluate(c) = "allow"
  PROVE  /\ \A d : PartOf(d, c) => Evaluate(d) = "allow"
         /\ \A l \in ToSet(layers) : RuleList(l, c) # "deny"
<1>1. ASSUME NEW d, PartOf(d, c)
      PROVE  Evaluate(d) = "allow"
  <2>1. NoWorse(Layered(layers, d), Layered(layers, c))
    BY <1>1, LayersOfPart
  <2>2. NoWorse(RuleList(rules, d), RuleList(rules, c))
    BY <1>1, ListOfPart
  <2>3. ModeDefault(d) = ModeDefault(c)
    BY <1>1 DEF ModeDefault, PartOf
  <2> QED
    BY <2>1, <2>2, <2>3 DEF Evaluate, NoWorse
<1>2. Layered(layers, c) # "deny"
  BY DEF Evaluate
<1>3. \A l \in ToSet(layers) : RuleList(l, c) # "deny"
  BY <1>2 DEF Layered, ToSet
<1> QED
  BY <1>1, <1>3

PermTypes ==
  /\ rules \in Seq(Rules) /\ layers \in Seq(Seq(Rules))
  /\ asking \in CallsAsked \cup {NoCall}
PermInv ==
  /\ PermTypes
  /\ asking = NoCall => decision = "none" /\ asked = "no"
  /\ decision = "allow" /\ asked = "no" => Evaluate(asking) = "allow"

(* So the invariant holds throughout.                                      *)
LEMMA PermInvHolds == PermissionsSpec => []PermInv
<1>1. PermissionsInit => PermInv
  BY DEF PermissionsInit, PermInv, PermTypes
<1>2. PermInv /\ [PermissionsNext]_permVars => PermInv'
  <2> SUFFICES ASSUME PermInv, [PermissionsNext]_permVars
               PROVE  PermInv'
    OBVIOUS
  <2> USE DEF PermInv, PermTypes
  <2>1. CASE UNCHANGED permVars
    BY <2>1 DEF permVars, Evaluate, ModeDefault
  <2>2. ASSUME NEW r \in Rules, AddRule(r) \/ AddLayer(r)
        PROVE  PermInv'
    <3>1. <<r>> \in Seq(Rules) /\ asking = NoCall /\ UNCHANGED <<asking, asked, decision>>
      BY <2>2 DEF AddRule, AddLayer
    <3>2. CASE AddRule(r)
      BY <2>2, <3>1, <3>2 DEF AddRule
    <3>3. CASE AddLayer(r)
      BY <2>2, <3>1, <3>3 DEF AddLayer
    <3> QED
      BY <2>2, <3>2, <3>3
  <2>3. ASSUME NEW c \in CallsAsked, Propose(c)
        PROVE  PermInv'
    BY <2>3 DEF Propose
  <2>4. ASSUME NEW b \in BOOLEAN, Resolve(b)
        PROVE  PermInv'
    <3>1. UNCHANGED <<rules, layers, mode, asking>> /\ asking # NoCall
      BY <2>4 DEF Resolve
    <3>2. Evaluate(asking)' = Evaluate(asking)
      BY <3>1 DEF Evaluate, ModeDefault
    <3> QED
      BY <2>4, <3>1, <3>2 DEF Resolve
  <2>5. ASSUME NEW a \in {"allowed", "denied", "failed"}, CallbackAnswers(a)
        PROVE  PermInv'
    BY <2>5 DEF CallbackAnswers
  <2>6. CASE RunAborts
    <3>1. UNCHANGED <<rules, layers, mode, asking, asked, decision>>
      BY <2>6 DEF RunAborts
    <3>2. Evaluate(asking)' = Evaluate(asking)
      BY <3>1 DEF Evaluate, ModeDefault
    <3> QED
      BY <3>1, <3>2
  <2> QED
    BY <2>1, <2>2, <2>3, <2>4, <2>5, <2>6 DEF PermissionsNext
<1> QED
  BY <1>1, <1>2, PTL DEF PermissionsSpec

(* Joining commands passes nothing: each segment of a command that is      *)
(* allowed without asking would be, alone, whatever the rules, the layers  *)
(* and their order (permissions/engine.py, rules.py).                      *)
THEOREM NothingPassesByJoining == PermissionsSpec => []AllowedInEveryPart
<1>1. PermInv => AllowedInEveryPart
  <2> SUFFICES ASSUME PermInv, decision = "allow", asked = "no"
               PROVE  /\ \A s \in ToSet(asking.segments) :
                            Evaluate([asking EXCEPT !.segments = <<s>>]) = "allow"
                      /\ \A l \in ToSet(layers) : RuleList(l, asking) # "deny"
    BY DEF AllowedInEveryPart
  <2>1. Evaluate(asking) = "allow" /\ asking \in CallsAsked
    BY DEF PermInv, PermTypes
  <2>2. ASSUME NEW s \in ToSet(asking.segments)
        PROVE  Evaluate([asking EXCEPT !.segments = <<s>>]) = "allow"
    <3>1. PICK d : d = [asking EXCEPT !.segments = <<s>>]
      OBVIOUS
    <3>2. DOMAIN asking = {"tool", "scope", "segments"}
      BY <2>1 DEF CallsAsked
    <3>3. d.tool = asking.tool /\ d.scope = asking.scope /\ d.segments = <<s>>
      BY <3>1, <3>2
    <3>4. ToSet(<<s>>) = {s}
      BY DEF ToSet
    <3>5. PartOf(d, asking)
      BY <3>3, <3>4 DEF PartOf
    <3> QED
      BY <2>1, <3>1, <3>5, AllowedParts DEF PermInv, PermTypes
  <2>3. \A l \in ToSet(layers) : RuleList(l, asking) # "deny"
    BY <2>1, AllowedParts DEF PermInv, PermTypes
  <2> QED
    BY <2>2, <2>3
<1> QED
  BY <1>1, PermInvHolds, PTL

-----------------------------------------------------------------------------
(***************************************************************************)
(* Context: what is added to a request fits its budget.                    *)
(***************************************************************************)

-----------------------------------------------------------------------------
(* The sum over a text's blocks: the recursion has a solution over each    *)
(* prefix, and its values are numbers.                                     *)
SumOver(s, g, k) == g = [n \in 0..k |-> IF n = 0 THEN 0 ELSE g[n - 1] + s[n]]

(* There is a function of the partial sums of numbers.                     *)
LEMMA SumExists ==
  ASSUME NEW s, NEW k \in Nat
  PROVE  \E g : SumOver(s, g, k)
<1> DEFINE S == {j \in 0..k : \E g : SumOver(s, g, j)}
<1>1. 0 \in S
  <2>1. SumOver(s, [n \in 0..0 |-> 0], 0)
    BY DEF SumOver
  <2> QED
    BY <2>1
<1>2. ASSUME NEW j \in 0..k, j \in S, j < k PROVE j + 1 \in S
  <2>1. PICK g : SumOver(s, g, j)
    BY <1>2
  <2> DEFINE h == [n \in 0..(j + 1) |-> IF n = 0 THEN 0 ELSE g[n - 1] + s[n]]
  <2>2. \A n \in 0..j : h[n] = g[n]
    BY <2>1 DEF SumOver
  <2>3. \A n \in 0..(j + 1) : n # 0 => n - 1 \in 0..j
    OBVIOUS
  <2>4. SumOver(s, h, j + 1)
    <3>1. \A n \in 0..(j + 1) : n # 0 => h[n - 1] = g[n - 1]
      BY <2>2, <2>3
    <3>2. h = [n \in 0..(j + 1) |-> IF n = 0 THEN 0 ELSE h[n - 1] + s[n]]
      BY <3>1
    <3> QED
      BY <3>2 DEF SumOver
  <2> HIDE DEF h
  <2>5. j + 1 \in 0..k
    BY <1>2
  <2> QED
    BY <2>4, <2>5
<1> HIDE DEF S
<1>3. k \in S
  BY <1>1, <1>2, Upwards
<1> QED
  BY <1>3 DEF S

(* Their total is its last value, and a number.                            *)
LEMMA TotalIsNat ==
  ASSUME NEW s \in Seq(Nat)
  PROVE  Total(s) \in Nat
<1>1. Len(s) \in Nat /\ \A n \in 1..Len(s) : s[n] \in Nat
  OBVIOUS
<1> DEFINE g == CHOOSE g : SumOver(s, g, Len(s))
           S == {j \in 0..Len(s) : g[j] \in Nat}
<1>2. Total(s) = g[Len(s)]
  BY DEF Total, SumOver
<1>3. SumOver(s, g, Len(s))
  BY <1>1, SumExists
<1> HIDE DEF g
<1>4. 0 \in S
  BY <1>1, <1>3 DEF SumOver
<1>5. ASSUME NEW j \in 0..Len(s), j \in S, j < Len(s) PROVE j + 1 \in S
  BY <1>1, <1>3, <1>5 DEF SumOver
<1> HIDE DEF S
<1>6. \A j \in 0..Len(s) : j \in S
  BY <1>1, <1>4, <1>5, Upwards
<1>7. Len(s) \in S
  BY <1>1, <1>6
<1> QED
  BY <1>2, <1>7 DEF S

(* Nothing takes nothing.                                                  *)
LEMMA EmptyTotal == Total(<<>>) = 0
<1> DEFINE g == CHOOSE g : SumOver(<<>>, g, 0)
<1>1. Total(<<>>) = g[0]
  BY DEF Total, SumOver
<1>2. SumOver(<<>>, g, 0)
  BY SumExists
<1> HIDE DEF g
<1> QED
  BY <1>1, <1>2 DEF SumOver

(* An addition has a number of tokens.                                     *)
LEMMA TokensAreNat ==
  ASSUME NEW n \in Nat
  PROVE  Tokens(n) \in Nat
<1>1. n \div 4 \in Nat
  OBVIOUS
<1>2. \E x \in {1, n \div 4} : \A y \in {1, n \div 4} : x >= y
  BY <1>1
<1>3. Max({1, n \div 4}) \in {1, n \div 4}
  BY <1>2 DEF Max
<1> QED
  BY <1>1, <1>3 DEF Tokens

(* What additions take is a number of tokens, and none if there are none.  *)
LEMMA UsedIsNat ==
  ASSUME NEW b \in Seq(Nat), NEW m \in Seq(Nat)
  PROVE  Used(b, m) \in Nat
<1>1. Joined(b) \in Nat
  <2>1. Total(b) \in Nat
    BY TotalIsNat
  <2>2. CASE b # <<>>
    <3>1. Len(b) \in Nat /\ Len(b) >= 1
      BY <2>2
    <3> QED
      BY <2>1, <2>2, <3>1 DEF Joined
  <2> QED
    BY <2>2 DEF Joined
<1>2. [i \in DOMAIN m |-> Tokens(m[i])] \in Seq(Nat)
  <2>1. \A i \in 1..Len(m) : m[i] \in Nat
    OBVIOUS
  <2>2. \A i \in 1..Len(m) : Tokens(m[i]) \in Nat
    BY <2>1, TokensAreNat
  <2>3. Len(m) \in Nat /\ DOMAIN m = 1..Len(m)
    OBVIOUS
  <2> QED
    BY <2>2, <2>3
<1>3. Total([i \in DOMAIN m |-> Tokens(m[i])]) \in Nat
  BY <1>2, TotalIsNat
<1>4. Tokens(Joined(b)) \in Nat
  BY <1>1, TokensAreNat
<1> QED
  BY <1>3, <1>4 DEF Used

(* No additions use nothing.                                               *)
LEMMA EmptyUsed == Used(<<>>, <<>>) = 0
<1>1. [i \in DOMAIN <<>> |-> Tokens(<<>>[i])] = <<>>
  OBVIOUS
<1> QED
  BY <1>1, EmptyTotal DEF Used, Joined, Tokens

-----------------------------------------------------------------------------
(* Trimming: the fewest that are enough are enough.                        *)
LEMMA FewestAreEnough ==
  ASSUME NEW n \in Nat, NEW E \in SUBSET (0..n), E # {}
  PROVE  Fewest(n, E) \in E
<1>1. E \in SUBSET Nat
  OBVIOUS
<1>2. \E x \in E : \A y \in E : x <= y
  BY <1>1, FirstPosition
<1> QED
  BY <1>2 DEF Fewest, Min

(* The rest of the additions are additions.                                *)
LEMMA RestIsRest ==
  ASSUME NEW s \in Seq(Nat), NEW k \in 0..Len(s)
  PROVE  Rest(s, k) \in Seq(Nat) /\ Rest(s, 0) = s /\ Rest(s, Len(s)) = <<>>
  BY DEF Rest

(* An addition with a cap takes no more than it and says what it takes.    *)
Fits(u) == u.cap # NoCap => Used(u.system, u.messages) <= u.cap
                              /\ u.used = Used(u.system, u.messages)

(* What is trimmed fits its cap: some of the blocks do once the messages   *)
(* that do not are gone, if need be none of them.                          *)
LEMMA BudgetedFits ==
  ASSUME NEW c \in Additions
  PROVE  Budgeted(c) \in Additions /\ Budgeted(c).cap = c.cap /\ Fits(Budgeted(c))
<1> DEFINE n == Len(c.messages)
           p == Len(c.system)
           fm == {k \in 0..n : c.cap = NoCap \/ Used(c.system, Rest(c.messages, k)) <= c.cap}
           m == Rest(c.messages, Fewest(n, fm))
           fb == {k \in 0..p : c.cap = NoCap \/ Used(Rest(c.system, k), m) <= c.cap}
           b == Rest(c.system, Fewest(p, fb))
<1>1. /\ c.system \in Seq(Nat) /\ c.messages \in Seq(Nat) /\ n \in Nat /\ p \in Nat
      /\ c.cap # NoCap => c.cap \in Nat
  BY DEF Additions
<1>2. Fewest(n, fm) \in 0..n
  <2>1. CASE fm = {}
    BY <1>1, <2>1 DEF Fewest
  <2>2. CASE fm # {}
    <3> HIDE DEF n
    <3>1. fm \in SUBSET (0..n)
      OBVIOUS
    <3> HIDE DEF fm
    <3> QED
      BY <1>1, <2>2, <3>1, FewestAreEnough
  <2> QED
    BY <2>1, <2>2
<1>3. m \in Seq(Nat)
  BY <1>1, <1>2, RestIsRest
<1>4. fb # {}
  <2>1. CASE c.cap = NoCap
    BY <1>1, <2>1
  <2>2. CASE c.cap # NoCap /\ fm # {}
    <3>1. Fewest(n, fm) \in fm
      <4> HIDE DEF n
      <4>1. fm \in SUBSET (0..n)
        OBVIOUS
      <4> HIDE DEF fm
      <4> QED
        BY <1>1, <2>2, <4>1, FewestAreEnough
    <3>2. Used(c.system, m) <= c.cap
      BY <2>2, <3>1
    <3>3. Rest(c.system, 0) = c.system /\ 0 \in 0..p
      BY <1>1, RestIsRest
    <3> HIDE DEF m
    <3> QED
      BY <3>2, <3>3
  <2>3. CASE c.cap # NoCap /\ fm = {}
    <3>1. m = <<>>
      BY <1>1, <2>3, RestIsRest DEF Fewest
    <3>2. Rest(c.system, p) = <<>> /\ p \in 0..p
      BY <1>1, RestIsRest
    <3>3. Used(Rest(c.system, p), m) <= c.cap
      BY <1>1, <2>3, <3>1, <3>2, EmptyUsed
    <3> HIDE DEF m
    <3> QED
      BY <3>2, <3>3
  <2> QED
    BY <2>1, <2>2, <2>3
<1>5. Fewest(p, fb) \in fb
  <2> HIDE DEF m, p
  <2>1. fb \in SUBSET (0..p)
    OBVIOUS
  <2> HIDE DEF fb
  <2> QED
    BY <1>1, <1>4, <2>1, FewestAreEnough
<1>6. b \in Seq(Nat) /\ (c.cap # NoCap => Used(b, m) <= c.cap)
  <2> HIDE DEF m
  <2> QED
    BY <1>1, <1>5, RestIsRest
<1>7. Budgeted(c) = [c EXCEPT !.system = b, !.messages = m, !.used = Used(b, m),
                              !.trimmed = @ \/ b # c.system \/ m # c.messages]
  BY DEF Budgeted
<1> HIDE DEF b, m
<1>8. Used(b, m) \in Nat
  BY <1>3, <1>6, UsedIsNat
<1>9. Budgeted(c) \in Additions
  BY <1>3, <1>6, <1>7, <1>8 DEF Additions
<1>10. /\ Budgeted(c).cap = c.cap /\ Budgeted(c).system = b /\ Budgeted(c).messages = m
       /\ Budgeted(c).used = Used(b, m)
  BY <1>7 DEF Additions
<1> QED
  BY <1>6, <1>9, <1>10 DEF Fits

-----------------------------------------------------------------------------
(* Joining additions makes additions.                                      *)
LEMMA JoinedAdditions ==
  ASSUME NEW a \in Additions, NEW c \in Additions
  PROVE  Join(a, c) \in Additions
  BY DEF Join, Additions

(* Adding nothing is an addition.                                          *)
LEMMA EmptyAddition == Empty \in Additions
  BY DEF Empty, Additions

(* The additions of several builders, joined one by one.                   *)
JoinOver(cs, g, k) == g = [n \in 0..k |-> IF n = 0 THEN Empty ELSE Join(g[n - 1], cs[n])]

(* There is a function that joins additions one by one.                    *)
LEMMA JoinExists ==
  ASSUME NEW cs, NEW k \in Nat
  PROVE  \E g : JoinOver(cs, g, k)
<1> DEFINE S == {j \in 0..k : \E g : JoinOver(cs, g, j)}
<1>1. 0 \in S
  <2>1. JoinOver(cs, [n \in 0..0 |-> Empty], 0)
    BY DEF JoinOver
  <2> QED
    BY <2>1
<1>2. ASSUME NEW j \in 0..k, j \in S, j < k PROVE j + 1 \in S
  <2>1. PICK g : JoinOver(cs, g, j)
    BY <1>2
  <2> DEFINE h == [n \in 0..(j + 1) |-> IF n = 0 THEN Empty ELSE Join(g[n - 1], cs[n])]
  <2>2. \A n \in 0..j : h[n] = g[n]
    BY <2>1 DEF JoinOver
  <2>3. \A n \in 0..(j + 1) : n # 0 => n - 1 \in 0..j
    OBVIOUS
  <2>4. JoinOver(cs, h, j + 1)
    <3>1. \A n \in 0..(j + 1) : n # 0 => h[n - 1] = g[n - 1]
      BY <2>2, <2>3
    <3>2. h = [n \in 0..(j + 1) |-> IF n = 0 THEN Empty ELSE Join(h[n - 1], cs[n])]
      BY <3>1
    <3> QED
      BY <3>2 DEF JoinOver
  <2> HIDE DEF h
  <2>5. j + 1 \in 0..k
    BY <1>2
  <2> QED
    BY <2>4, <2>5
<1> HIDE DEF S
<1>3. k \in S
  BY <1>1, <1>2, Upwards
<1> QED
  BY <1>3 DEF S

(* A chain of builders adds up to additions.                               *)
LEMMA ChainedAdditions ==
  ASSUME NEW k \in Nat, NEW cs \in [1..k -> Contributions]
  PROVE  Chained(cs) \in Additions
<1>1. Len(cs) = k /\ \A n \in 1..k : cs[n] \in Additions
  BY ContextAssumption
<1> DEFINE g == CHOOSE g : JoinOver(cs, g, k)
           S == {j \in 0..k : g[j] \in Additions}
<1>2. Chained(cs) = g[k]
  BY <1>1 DEF Chained, JoinOver
<1>3. JoinOver(cs, g, k)
  BY JoinExists
<1> HIDE DEF g
<1>4. 0 \in S
  BY <1>3, EmptyAddition DEF JoinOver
<1>5. ASSUME NEW j \in 0..k, j \in S, j < k PROVE j + 1 \in S
  <2>1. g[j + 1] = Join(g[j], cs[j + 1])
    BY <1>3, <1>5 DEF JoinOver
  <2>2. g[j] \in Additions /\ cs[j + 1] \in Additions /\ j + 1 \in 0..k
    BY <1>1, <1>5
  <2>3. Join(g[j], cs[j + 1]) \in Additions
    BY <2>2, JoinedAdditions
  <2> QED
    BY <2>1, <2>2, <2>3
<1> HIDE DEF S
<1>6. k \in S
  BY <1>4, <1>5, Upwards
<1> QED
  BY <1>2, <1>6 DEF S

-----------------------------------------------------------------------------
(* What is merged are additions; a single hook's fit, since it has trimmed *)
(* them itself and nothing joins them.                                     *)
ContextInv ==
  /\ merging \in [heard : 0..Len(Injections), union : Additions]
  /\ merging.heard = 0 => merging.union = Empty
  /\ Len(Injections) <= 1 => Fits(merging.union)
  /\ WithinContextBudget

(* What a hook adds is an addition.                                        *)
LEMMA HookAdds ==
  ASSUME ContextInv, HookBuilds
  PROVE  ContextInv'
<1> DEFINE h == merging.heard
           u == merging.union
<1>1. /\ Len(Injections) \in Nat /\ h \in 0..Len(Injections) /\ h < Len(Injections)
      /\ u \in Additions /\ sent' = sent
      /\ h + 1 \in 1..Len(Injections)
  BY ContextAssumption DEF ContextInv, HookBuilds
<1>2. Len(Injections[h + 1]) \in Nat
  BY <1>1, ContextAssumption
<1>3. PICK cs \in [1..Len(Injections[h + 1]) -> Contributions] :
        merging' = [heard |-> h + 1, union |-> Join(u, Budgeted(Chained(cs)))]
  BY DEF HookBuilds
<1>4. PICK b : b = Budgeted(Chained(cs))
  OBVIOUS
<1>5. b \in Additions /\ Fits(b)
  BY <1>2, <1>4, ChainedAdditions, BudgetedFits
<1>6. merging' = [heard |-> h + 1, union |-> Join(u, b)] /\ Join(u, b) \in Additions
  BY <1>1, <1>3, <1>4, <1>5, JoinedAdditions
<1>7. Len(Injections) <= 1 => Fits(Join(u, b))
  <2> SUFFICES ASSUME Len(Injections) <= 1 PROVE Fits(Join(u, b))
    OBVIOUS
  <2>1. u = Empty
    BY <1>1 DEF ContextInv
  <2>2. /\ Join(u, b).system = <<>> \o b.system /\ Join(u, b).messages = <<>> \o b.messages
        /\ Join(u, b).cap = b.cap /\ Join(u, b).used = 0 + b.used
    BY <2>1 DEF Join, Empty
  <2>3. /\ <<>> \o b.system = b.system /\ <<>> \o b.messages = b.messages /\ 0 + b.used = b.used
    BY <1>5 DEF Additions
  <2> QED
    BY <1>5, <2>2, <2>3 DEF Fits
<1> QED
  BY <1>1, <1>6, <1>7 DEF ContextInv, WithinContextBudget

(* A request that is merged within its budget fits it.                     *)
LEMMA RequestFits ==
  ASSUME ContextInv, RequestMade
  PROVE  ContextInv'
<1> DEFINE u == merging.union
<1>1. u \in Additions /\ Len(Injections) \in Nat
  BY ContextAssumption DEF ContextInv
<1>2. UnionOf(u) \in Additions /\ Fits(UnionOf(u))
  <2>1. CASE Len(Injections) > 1 /\ u.cap # NoCap
    BY <1>1, <2>1, BudgetedFits DEF UnionOf
  <2>2. CASE ~(Len(Injections) > 1 /\ u.cap # NoCap)
    <3>1. UnionOf(u) = u
      BY <2>2 DEF UnionOf
    <3>2. Fits(u)
      BY <1>1, <2>2 DEF Fits, ContextInv
    <3> QED
      BY <1>1, <3>1, <3>2
  <2> QED
    BY <2>1, <2>2
<1>3. PICK v : v = UnionOf(u)
  OBVIOUS
<1>4. sent' = [v EXCEPT !.tools = Offered(@)]
  BY <1>3 DEF RequestMade
<1>5. /\ sent'.cap = v.cap /\ sent'.system = v.system /\ sent'.messages = v.messages
      /\ sent'.used = v.used
  BY <1>2, <1>3, <1>4 DEF Additions
<1>6. WithinContextBudget'
  BY <1>2, <1>3, <1>5 DEF Fits, WithinContextBudget
<1>7. merging' = [heard |-> 0, union |-> Empty]
  BY DEF RequestMade, NoUnion
<1>8. Fits(Empty)
  BY DEF Fits, Empty
<1> QED
  BY <1>1, <1>6, <1>7, <1>8, EmptyAddition DEF ContextInv

(* What several hooks add to a request fits the cap that counts, and is    *)
(* reported as what it takes: for any hooks, builders and contributions.   *)
THEOREM AdditionsFit == ContextSpec => []WithinContextBudget
<1>1. ContextInit => ContextInv
  <2> SUFFICES ASSUME ContextInit PROVE ContextInv
    OBVIOUS
  <2>1. merging = [heard |-> 0, union |-> Empty] /\ sent = Empty /\ Len(Injections) \in Nat
    BY ContextAssumption DEF ContextInit, NoUnion
  <2>2. Fits(Empty) /\ Empty.cap = NoCap
    BY DEF Fits, Empty
  <2> QED
    BY <2>1, <2>2, EmptyAddition DEF ContextInv, WithinContextBudget
<1>2. ContextInv /\ [ContextNext]_contextVars => ContextInv'
  <2> SUFFICES ASSUME ContextInv, [ContextNext]_contextVars PROVE ContextInv'
    OBVIOUS
  <2>1. CASE UNCHANGED contextVars
    BY <2>1 DEF ContextInv, contextVars, WithinContextBudget
  <2> QED
    BY <2>1, HookAdds, RequestFits DEF ContextNext
<1>3. ContextInv => WithinContextBudget
  BY DEF ContextInv
<1> QED
  BY <1>1, <1>2, <1>3, PTL DEF ContextSpec
=============================================================================

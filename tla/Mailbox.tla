------------------------------ MODULE Mailbox ------------------------------
(***************************************************************************)
(* Peer messages: send_message puts them in the inbox of an address, the   *)
(* top of a turn of a session with that address drains the inbox into its  *)
(* history, one append and one yield at a time, and an embedder matches    *)
(* requests and responses with a Correlator.                               *)
(*                                                                         *)
(* Workers of one definition share its name, hence their address, so       *)
(* several sessions may drain one inbox; there is one address here, since  *)
(* inboxes of different addresses do not meet.  A message is a number in   *)
(* the order of its send; a request's answers are messages.  The lock      *)
(* makes a send or a drain one step.                                       *)
(***************************************************************************)
EXTENDS Naturals, Sequences, FiniteSets, SequencesExt

CONSTANTS
  Readers,      \* sessions whose mailbox_address is the inbox's
  Messages,     \* messages sent: 1..Messages
  Requests      \* request ids

VARIABLES
  sent,      \* messages sent so far
  replyTo,   \* in_reply_to of each message, or "none"
  inbox,     \* InMemoryMailbox._inboxes of the address
  drained,   \* the local list of each drain, not yet appended
  view,      \* peer messages in each reader's history
  dropped,   \* messages whose drain was abandoned (history)
  awaited,   \* Correlator._pending
  responses  \* Correlator._responses

mailVars == <<sent, replyTo, inbox, drained, view, dropped, awaited, responses>>

MailboxInit ==
  /\ sent = 0
  /\ replyTo = [m \in 1..Messages |-> "none"]
  /\ inbox = <<>>
  /\ drained = [r \in Readers |-> <<>>]
  /\ view = drained
  /\ dropped = {}
  /\ awaited = <<>>
  /\ responses = [q \in Requests |-> 0]

Send(q) ==
  /\ sent < Messages
  /\ sent' = sent + 1
  /\ replyTo' = [replyTo EXCEPT ![sent'] = q]
  /\ inbox' = Append(inbox, sent')
  /\ UNCHANGED <<drained, view, dropped, awaited, responses>>

(* Mutant: the inbox is read and not deleted.                              *)
Peek(r) ==
  /\ drained[r] = <<>> /\ inbox # <<>>
  /\ drained' = [drained EXCEPT ![r] = inbox]
  /\ UNCHANGED <<sent, replyTo, inbox, view, dropped, awaited, responses>>

(* InMemoryMailbox.drain at the top of a turn.                             *)
DrainInbox(r) ==
  /\ drained[r] = <<>> /\ inbox # <<>>
  /\ drained' = [drained EXCEPT ![r] = inbox]
  /\ inbox' = <<>>
  /\ UNCHANGED <<sent, replyTo, view, dropped, awaited, responses>>

(* _drain_mailbox appends a message and yields its event to the consumer.  *)
AppendPeerMessage(r) ==
  /\ drained[r] # <<>>
  /\ view' = [view EXCEPT ![r] = Append(@, Head(drained[r]))]
  /\ drained' = [drained EXCEPT ![r] = Tail(@)]
  /\ UNCHANGED <<sent, replyTo, inbox, dropped, awaited, responses>>

(* The consumer drops the iterator, or the session's store fails: the rest *)
(* of the list is gone with the generator.                                 *)
AbandonDrain(r) ==
  /\ drained[r] # <<>>
  /\ dropped' = dropped \cup ToSet(drained[r])
  /\ drained' = [drained EXCEPT ![r] = <<>>]
  /\ UNCHANGED <<sent, replyTo, inbox, view, awaited, responses>>

Opens(q) ==
  awaited' = IF Contains(awaited, q) \/ responses[q] # 0 THEN awaited
             ELSE Append(awaited, q)

Open(q) ==
  /\ Opens(q)
  /\ UNCHANGED <<sent, replyTo, inbox, drained, view, dropped, responses>>

(* Only the first response to an open request is taken.                    *)
Resolve(m) ==
  /\ \E r \in Readers : Contains(view[r], m)
  /\ Contains(awaited, replyTo[m])
  /\ awaited' = Remove(awaited, replyTo[m])
  /\ responses' = [responses EXCEPT ![replyTo[m]] = m]
  /\ UNCHANGED <<sent, replyTo, inbox, drained, view, dropped>>

MailboxNext ==
  \/ \E q \in Requests \cup {"none"} : Send(q)
  \/ \E r \in Readers : DrainInbox(r) \/ AppendPeerMessage(r) \/ AbandonDrain(r)
  \/ \E q \in Requests : Open(q)
  \/ \E m \in 1..Messages : Resolve(m)

MailboxSpec == MailboxInit /\ [][MailboxNext]_mailVars

-----------------------------------------------------------------------------
(* Each message sent is in exactly one place: the inbox, what one reader   *)
(* has drained or read, or lost with an abandoned drain; and a reader gets *)
(* its mail in the order of the sends.  Readers that share an address      *)
(* neither duplicate nor overwrite each other's mail.                      *)
Got(r) == ToSet(view[r]) \cup ToSet(drained[r])
Increasing(s) == \A i, j \in DOMAIN s : i < j => s[i] < s[j]

MailOnceInOrder ==
  /\ 1..sent = ToSet(inbox) \cup dropped \cup UNION {Got(r) : r \in Readers}
  /\ ToSet(inbox) \cap dropped = {}
  /\ \A r \in Readers :
       /\ Got(r) \cap (ToSet(inbox) \cup dropped) = {}
       /\ \A s \in Readers \ {r} : Got(r) \cap Got(s) = {}
       /\ Increasing(view[r] \o drained[r])
  /\ Increasing(inbox)

(* A request keeps the response that resolved it: no later message, and no *)
(* second open, changes or reopens it.                                     *)
FirstResponseStays ==
  [][\A q \in Requests : responses[q] # 0 => responses'[q] = responses[q]]_mailVars
=============================================================================

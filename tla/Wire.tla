-------------------------------- MODULE Wire --------------------------------
(***************************************************************************)
(* A conversation with a provider: the history is translated into a        *)
(* request, the provider streams its reply in its own events, an adapter   *)
(* turns them into the events of the loop and stream_turn assembles the    *)
(* message.  OpenAI's Responses API keeps the conversation itself: its     *)
(* adapter names the last response and sends what follows it.  A request   *)
(* ends with the messages of the context builders, which the session does  *)
(* not keep.                                                               *)
(*                                                                         *)
(* A call's input is the sequence of the pieces it is streamed in, a text  *)
(* the sequence of its deltas.  Providers stream as they do: Anthropic one *)
(* block after the other, OpenAI's calls interleaved, Gemini whole calls,  *)
(* which a later chunk may repeat.                                         *)
(***************************************************************************)
EXTENDS Naturals, Sequences, FiniteSets, SequencesExt

CONSTANTS
  Calls,       \* tool calls of a reply
  Pieces,      \* deltas of a call's input, or of the text
  Rounds       \* provider calls

ASSUME WireAssumption == "" \notin Calls /\ Pieces \in Nat /\ Rounds \in Nat

VARIABLES
  provider,
  streaming,
  view,      \* the messages: number, role, calls made or answered, response id
  dialogue,  \* all there were, with the context of each request in its place
  kept,      \* the provider's own copy of the conversation, by response
  worksOn,   \* what the provider works on: the items it was sent or had
  wire,      \* per call: sent pieces, and whether it is open or over
  spoken,    \* text deltas streamed
  tracked,   \* the adapter's calls in the order of their start
  ended,     \* calls the adapter has reported the end of
  asm        \* stream_turn: content, buffers, inputs

wireVars == <<provider, streaming, view, dialogue, kept, worksOn, wire, spoken, tracked, ended,
              asm>>

Providers == {"anthropic", "chat", "responses", "gemini"}
NewAsm == [content |-> <<>>, text |-> <<>>, meta |-> {}, inputs |-> [c \in Calls |-> <<>>]]
NewWire == [c \in Calls |-> [sent |-> 0, state |-> "unsent"]]

WireInit ==
  /\ provider \in Providers
  /\ streaming = FALSE
  /\ view = <<[id |-> 1, role |-> "user", calls |-> <<>>, response |-> 0]>>
  /\ dialogue = view
  /\ kept = <<>> /\ worksOn = <<>>
  /\ wire = NewWire /\ spoken = 0 /\ tracked = <<>> /\ ended = {} /\ asm = NewAsm

-----------------------------------------------------------------------------
(* Requests.  An item is what one message says, one call of it, or one     *)
(* result; each adapter lays the items of a message out in its own way.    *)

Item(m, k, c) == [message |-> m.id, kind |-> k, call |-> c]
TextOf(m) == IF m.calls = <<>> \/ m.role = "assistant" THEN <<Item(m, "text", "")>> ELSE <<>>
CallItems(m) ==
  LET k == IF m.role = "assistant" THEN "call" ELSE "result"
  IN  [i \in DOMAIN m.calls |-> Item(m, k, m.calls[i])]

(* Assistant content in its order, each result a user message of its own.  *)
TextFirst(m) == TextOf(m) \o CallItems(m)
AnthropicMessages(ms) == FlattenSeq([i \in DOMAIN ms |-> TextFirst(ms[i])])

(* Text first and then calls; results first and then text.                 *)
ResultsFirst(m) == IF m.role = "assistant" THEN TextFirst(m) ELSE CallItems(m) \o TextOf(m)
ChatMessages(ms) == FlattenSeq([i \in DOMAIN ms |-> ResultsFirst(ms[i])])

GeminiContents(ms) == FlattenSeq([i \in DOMAIN ms |-> TextFirst(ms[i])])

ResponsesInput(ms) == FlattenSeq([i \in DOMAIN ms |-> ResultsFirst(ms[i])])

(* The last message with a response id, 0 if there is none.                *)
PreviousResponse(ms) ==
  LET with == {i \in DOMAIN ms : ms[i].response # 0}
  IN  IF with = {} THEN 0 ELSE CHOOSE i \in with : \A j \in with : j <= i

(* Mutant: the reply that is named is sent again.                          *)
StatefulPayloadFrom(ms) ==
  LET p == PreviousResponse(ms)
  IN  IF p = 0 THEN ResponsesInput(ms)
      ELSE kept[ms[p].response] \o ResponsesInput(SubSeq(ms, p, Len(ms)))

(* build_payload with previous_response_id "auto", and what the provider   *)
(* then has in front of it.                                                *)
StatefulPayload(ms) ==
  LET p == PreviousResponse(ms)
  IN  IF p = 0 THEN ResponsesInput(ms)
      ELSE kept[ms[p].response] \o ResponsesInput(SubSeq(ms, p + 1, Len(ms)))

Numbered(m) == [m EXCEPT !.id = Len(dialogue) + 1]
ContextMessage == Numbered([id |-> 0, role |-> "context", calls |-> <<>>, response |-> 0])

(* The request of a turn, with what its context builders return or without.*)
Send ==
  /\ ~streaming
  /\ Last(view).role = "user" /\ Len(kept) < Rounds
  /\ \E ms \in {view, Append(view, ContextMessage)} :
       /\ dialogue' = IF ms = view THEN dialogue ELSE Append(dialogue, ContextMessage)
       /\ worksOn' = CASE provider = "anthropic" -> AnthropicMessages(ms)
                       [] provider = "chat" -> ChatMessages(ms)
                       [] provider = "gemini" -> GeminiContents(ms)
                       [] provider = "responses" -> StatefulPayload(ms)
  /\ streaming' = TRUE
  /\ wire' = NewWire /\ spoken' = 0 /\ tracked' = <<>> /\ ended' = {} /\ asm' = NewAsm
  /\ UNCHANGED <<provider, view, kept>>

-----------------------------------------------------------------------------
(* stream_turn on the adapter's events.                                    *)

FlushText(a) ==
  IF a.text = <<>> THEN a
  ELSE [a EXCEPT !.content = Append(@, [call |-> "", said |-> a.text]), !.text = <<>>]

OnTextDelta(a, n) == [a EXCEPT !.text = Append(@, n)]
OnStart(a, c) ==
  [FlushText(a) EXCEPT !.meta = @ \cup {c}, !.inputs[c] = <<>>]
OnInputDelta(a, c, n) == [a EXCEPT !.inputs[c] = Append(@, n)]
OnEnd(a, c) ==
  IF c \notin a.meta THEN a
  ELSE [a EXCEPT !.content = Append(@, [call |-> c, said |-> a.inputs[c]]),
                 !.meta = @ \ {c}, !.inputs[c] = <<>>]

(* The provider streams a piece of text.                                   *)
TextDelta ==
  /\ streaming /\ spoken < Pieces
  /\ provider = "anthropic" => \A c \in Calls : wire[c].state # "open"
  /\ spoken' = spoken + 1
  /\ asm' = OnTextDelta(asm, spoken')
  /\ UNCHANGED <<provider, streaming, view, dialogue, kept, worksOn, wire, tracked, ended>>

(* A call starts: a content block, an output item, or the first chunk with *)
(* its index.                                                              *)
CallStarts(c) ==
  /\ streaming /\ provider # "gemini" /\ wire[c].state = "unsent"
  /\ provider = "anthropic" => \A d \in Calls : wire[d].state # "open"
  /\ wire' = [wire EXCEPT ![c].state = "open"]
  /\ tracked' = Append(tracked, c)
  /\ asm' = OnStart(asm, c)
  /\ UNCHANGED <<provider, streaming, view, dialogue, kept, worksOn, spoken, ended>>

(* Mutant: a chunk without an id goes to the call started last.            *)
RoutedToLast(c) == Last(tracked)

(* The call a delta belongs to, by content index, item id or chunk index.  *)
Routed(c) == c

InputDelta(c) ==
  /\ streaming /\ wire[c].state = "open" /\ wire[c].sent < Pieces
  /\ wire' = [wire EXCEPT ![c].sent = @ + 1]
  /\ asm' = OnInputDelta(asm, Routed(c), wire'[c].sent)
  /\ UNCHANGED <<provider, streaming, view, dialogue, kept, worksOn, spoken, tracked, ended>>

(* content_block_stop, or output_item.done; chat completions have none.    *)
CallStops(c) ==
  /\ streaming /\ provider \in {"anthropic", "responses"} /\ wire[c].state = "open"
  /\ wire' = [wire EXCEPT ![c].state = "over"]
  /\ ended' = ended \cup {c}
  /\ asm' = OnEnd(asm, c)
  /\ UNCHANGED <<provider, streaming, view, dialogue, kept, worksOn, spoken, tracked>>

(* A part of Gemini's with a whole call, for the first time or repeated.   *)
(* Its calls have no ids: a second call that equals the first is a repeat  *)
(* to the adapter, which drops it, and the same member of Calls here.      *)
GeminiPart(c) ==
  /\ streaming /\ provider = "gemini"
  /\ wire' = [wire EXCEPT ![c] = [sent |-> 1, state |-> "over"]]
  /\ IF c \in ended THEN UNCHANGED <<ended, asm>>
     ELSE /\ ended' = ended \cup {c}
          /\ asm' = OnEnd(OnInputDelta(OnStart(asm, c), c, 1), c)
  /\ UNCHANGED <<provider, streaming, view, dialogue, kept, worksOn, spoken, tracked>>

(* The end of a chat stream ends every call that was started.              *)
ChatFlush(a) ==
  LET upto[n \in 0 .. Len(tracked)] == IF n = 0 THEN a ELSE OnEnd(upto[n - 1], tracked[n])
  IN upto[Len(tracked)]

CallsOf(content) ==
  FlattenSeq([i \in DOMAIN content |->
                IF content[i].call = "" THEN <<>> ELSE <<content[i].call>>])

(* message_end: the reply joins the history and, with its response id, the *)
(* provider's own copy.                                                    *)
MessageEnd ==
  /\ streaming
  /\ \A c \in Calls : wire[c].state = "open" => provider = "chat"
  /\ streaming' = FALSE
  /\ asm' = FlushText(IF provider = "chat" THEN ChatFlush(asm) ELSE asm)
  /\ LET reply == Numbered([id |-> 0, role |-> "assistant", calls |-> CallsOf(asm'.content),
                            response |-> IF provider = "responses" THEN Len(kept) + 1 ELSE 0])
     IN  /\ view' = Append(view, reply) /\ dialogue' = Append(dialogue, reply)
         /\ kept' = Append(kept, worksOn \o ResponsesInput(<<reply>>))
  /\ UNCHANGED <<provider, worksOn, wire, spoken, tracked, ended>>

(* The results of the reply's calls, or the user's next message.           *)
Answer ==
  /\ ~streaming /\ Last(view).role = "assistant"
  /\ LET answer == Numbered([id |-> 0, role |-> "user", calls |-> Last(view).calls,
                             response |-> 0])
     IN  view' = Append(view, answer) /\ dialogue' = Append(dialogue, answer)
  /\ UNCHANGED <<provider, streaming, kept, worksOn, wire, spoken, tracked, ended, asm>>

(* A compaction that keeps the last turn: a summary stands for the rest of *)
(* the view.                                                               *)
Compact ==
  /\ ~streaming /\ Len(view) > 2
  /\ Last(view).role = "user" /\ view[1].id # 0
  /\ view' = <<[id |-> 0, role |-> "user", calls |-> <<>>, response |-> 0]>>
               \o SubSeq(view, Len(view) - 1, Len(view))
  /\ UNCHANGED <<provider, streaming, dialogue, kept, worksOn, wire, spoken, tracked, ended, asm>>

WireNext ==
  \/ Send \/ TextDelta \/ MessageEnd \/ Answer \/ Compact
  \/ \E c \in Calls : CallStarts(c) \/ InputDelta(c) \/ CallStops(c) \/ GeminiPart(c)

WireSpec == WireInit /\ [][WireNext]_wireVars

-----------------------------------------------------------------------------
(* A reply has each call the provider streamed once, with every piece of   *)
(* its input and of no other call's, and the text in its order, however    *)
(* calls are interleaved, repeated or left to be closed by the end.        *)
CallsAssembled ==
  (~streaming /\ Last(view).role = "assistant") =>
    LET blocks(c) == {i \in DOMAIN asm.content : asm.content[i].call = c}
        text == FlattenSeq([i \in DOMAIN asm.content |->
                  IF asm.content[i].call = "" THEN asm.content[i].said ELSE <<>>])
    IN  /\ \A c \in Calls :
             IF wire[c].state = "unsent" THEN blocks(c) = {}
             ELSE /\ Cardinality(blocks(c)) = 1
                  /\ \A i \in blocks(c) : asm.content[i].said = [n \in 1..wire[c].sent |-> n]
        /\ text = [n \in 1..spoken |-> n]

(* Items show messages: each of them once, in order, and nothing else.     *)
Shows(items, ms) ==
  /\ [i \in DOMAIN items |-> items[i].message]
       = FlattenSeq([i \in DOMAIN ms |-> [k \in DOMAIN TextFirst(ms[i]) |-> ms[i].id]])
  /\ \A m \in ToSet(ms) : ToSet(TextFirst(m)) \subseteq ToSet(items)

(* What the session has for its next reply: its view and the context.      *)
Asked == IF Last(dialogue).role = "context" THEN Append(view, Last(dialogue)) ELSE view

(* The provider answers the session's view and the context of the request, *)
(* none of it doubled, missing or out of order.  With Responses it answers *)
(* all there has been instead, each message once: the context of every     *)
(* request so far, what a compaction took out, and never its summary.      *)
ProviderSeesTheConversation ==
  streaming => Shows(worksOn, IF provider = "responses" THEN dialogue ELSE Asked)

(* Violated.  docs/usage/context-and-memory.md calls the messages of a     *)
(* context builder ephemeral, and appended to the request for this turn:   *)
(* the provider answers no context but this request's.  A server that      *)
(* keeps the conversation keeps what it was sent.                          *)
ContextIsForItsTurn ==
  streaming =>
    \A x \in ToSet(worksOn) :
      x.message # 0 /\ dialogue[x.message].role = "context" => x.message = Len(dialogue)

(* Violated.  docs/architecture/subsystems.md calls the view the trimmed   *)
(* copy that is sent to the model, in which a compaction replaces old      *)
(* messages by a summary: the provider answers no message that is not in   *)
(* the view, but context.  With Responses it goes on from the last reply,  *)
(* behind which there is nothing of the summary.                           *)
CompactionIsSent ==
  streaming =>
    \A x \in ToSet(worksOn) :
      \/ \E m \in ToSet(view) : m.id = x.message
      \/ dialogue[x.message].role = "context"
=============================================================================

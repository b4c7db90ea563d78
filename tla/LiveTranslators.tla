-------------------------- MODULE LiveTranslators --------------------------
(***************************************************************************)
(* The live translators of stream_live_compat.go and responses.go, and the *)
(* connection they write to.  A translator takes the chunks of an OpenAI   *)
(* stream (Consume) and its end (Finish) and writes events one by one, any *)
(* of which may fail: each step of this module writes one event, or none.  *)
(*                                                                         *)
(* A chunk is what its one choice says: whether the delta carries text,    *)
(* and its tool call fragments, each naming a call by its index, with or   *)
(* without a piece of arguments ("bare": no id, type, name or arguments).  *)
(* Data are known by their places in the stream: <<n, 0>> is the text of   *)
(* chunk n and <<n, i>> what its i-th fragment carries.                    *)
(***************************************************************************)
EXTENDS Integers, Sequences, FiniteSets, FiniteSetsExt

CONSTANT Tools   \* indices of tool calls

ASSUME ToolsAssumption == Tools \subseteq Nat

VARIABLES
  t,        \* the translator: its fields, and where its method stands (todo, at, left)
  view,     \* what the client has got, comments included
  header,   \* status line: "none", "sse", "implicit", "499", "502", "503"
  broken,   \* writing to the client fails
  stored    \* the entry of responsesStore under this response's id

clientVars == <<header, view, broken, stored>>
translatorVars == <<t, clientVars>>

\* The item that holds the text: a block of Claude, the message of a response.
TextItem == -1
Items == Tools \cup {TextItem}

NoPiece == <<0, 0>>
NoData == [kind |-> "none"]

Event(kind, item, index, piece) == [kind |-> kind, item |-> item, index |-> index, piece |-> piece]
Mark(kind) == Event(kind, TextItem, 0, NoPiece)

Extended(f, x, v) == [y \in DOMAIN f \cup {x} |-> IF y = x THEN v ELSE f[y]]

Meaningful(chunk) == \E i \in DOMAIN chunk.tools : ~chunk.tools[i].bare

-----------------------------------------------------------------------------
(* What the client has got: how many frames and comments, the last frame and  *)
(* how often it was the kind that ends a stream, the data of text and calls,  *)
(* and the blocks (Claude) or items (Responses) as the frames say, unjudged.  *)

EmptyView ==
  [comments |-> 0, frames |-> 0, last |-> "none", ends |-> 0,
   shown |-> [item \in Items |-> <<>>], phase |-> "before", blocks |-> [i \in {} |-> 0]]

LastKind ==
  CASE t.protocol = "claude" -> "message_stop"
    [] t.protocol = "gemini" -> "finish"
    [] t.protocol = "responses" -> "[DONE]"

Shows(v, item, pieces) == [v EXCEPT !.shown[item] = @ \o pieces]
SetBlock(v, i, block) == [v EXCEPT !.blocks = Extended(@, i, block)]

ReceiveClaude(v, e) ==
  CASE e.kind = "message_start" -> [v EXCEPT !.phase = "blocks"]
    [] e.kind = "content_block_start" ->
         SetBlock(v, e.index, [open |-> TRUE, deltas |-> 0, item |-> e.item])
    [] e.kind = "content_block_delta" ->
         Shows([v EXCEPT !.blocks[e.index].deltas = @ + 1], v.blocks[e.index].item, <<e.piece>>)
    [] e.kind = "content_block_stop" -> [v EXCEPT !.blocks[e.index].open = FALSE]
    [] e.kind = "message_delta" -> [v EXCEPT !.phase = "closing"]
    [] e.kind = "message_stop" -> [v EXCEPT !.phase = "stopped"]

\* A function call comes with all of its arguments.
ReceiveGemini(v, e) ==
  CASE e.kind = "text" -> Shows(v, TextItem, <<e.piece>>)
    [] e.kind = "functionCall" -> Shows(v, e.item, e.piece)
    [] e.kind = "finish" -> v

StageAfter(item, kind) ==
  CASE kind = "item added" -> IF item = TextItem THEN "added" ELSE "open"
    [] kind \in {"part added", "delta"} -> "open"
    [] kind = "content done" -> IF item = TextItem THEN "filled" ELSE "closed"
    [] kind = "part done" -> "closed"
    [] kind = "item done" -> "done"

ReceiveResponses(v, e) ==
  CASE e.kind = "response.created" -> [v EXCEPT !.phase = "in progress"]
    [] e.kind = "response.completed" -> [v EXCEPT !.phase = "completed"]
    [] e.kind = "response.failed" -> [v EXCEPT !.phase = "failed"]
    [] e.kind = "[DONE]" -> [v EXCEPT !.phase = "stopped"]
    [] OTHER -> SetBlock(IF e.kind = "delta" THEN Shows(v, e.item, <<e.piece>>) ELSE v,
                         e.item, StageAfter(e.item, e.kind))

Receive(v, e) ==
  LET w == [v EXCEPT !.frames = @ + 1, !.last = e.kind,
                     !.ends = IF e.kind = LastKind THEN @ + 1 ELSE @]
  IN CASE t.protocol = "claude" -> ReceiveClaude(w, e)
       [] t.protocol = "gemini" -> ReceiveGemini(w, e)
       [] t.protocol = "responses" -> ReceiveResponses(w, e)

\* Writing the status line: only the first one counts.
Status(s) == header' = IF header = "none" THEN s ELSE header

\* One event, and the translator after it or after its failure.  writeStreamHeaders
\* goes out in front of the first one.  A write that fails ends the method with an
\* error, and every later write fails too: the translator does not finish.
write(e, u, failed) ==
  /\ Status("sse")
  /\ UNCHANGED stored
  /\ \/ ~broken /\ UNCHANGED broken /\ view' = Receive(view, e) /\ t' = u
     \/ /\ broken' = TRUE /\ UNCHANGED view
        /\ t' = [failed EXCEPT !.started = TRUE, !.finished = FALSE, !.todo = "error"]

emit(e, u) == write(e, u, u)

\* A step that writes nothing.
Silently(u) == t' = u /\ UNCHANGED clientVars

-----------------------------------------------------------------------------
(* What the methods have in common.  `todo` names the step a method has come  *)
(* to ("idle" between two calls, "error" when it has returned one), `at` the  *)
(* next piece of data, `left` the calls that Finish has still to close.      *)

NewTranslator(protocol) ==
  [protocol |-> protocol, started |-> FALSE, hasContent |-> FALSE, finished |-> FALSE,
   todo |-> "idle", at |-> <<1, 0>>, left |-> {}, calls |-> [x \in {} |-> 0],
   nextIndex |-> 0, textOpen |-> FALSE, textIndex |-> 0,     \* Claude
   messageStarted |-> FALSE, contentStarted |-> FALSE, text |-> <<>>]   \* Responses

At(step) == t.todo = step

\* Claude passes over a chunk whose fragments are all bare.
Fragments(chunk) ==
  IF t.protocol = "claude" /\ ~Meaningful(chunk) THEN <<>> ELSE chunk.tools

\* On to the next fragment of the chunk, or to the end of Consume.
Onward(u, chunk) ==
  IF u.at[2] < Len(Fragments(chunk))
  THEN [u EXCEPT !.todo = "tools", !.at = <<@[1], @[2] + 1>>]
  ELSE [u EXCEPT !.todo = "idle", !.at = <<@[1] + 1, 0>>]

Fragment(chunk) == chunk.tools[t.at[2]]

IsContent(chunk) ==
  \/ chunk.text
  \/ IF t.protocol = "gemini" THEN \E i \in DOMAIN chunk.tools : chunk.tools[i].args
                              ELSE Meaningful(chunk)

BeginConsume(chunk) ==
  LET u == [t EXCEPT !.hasContent = @ \/ IsContent(chunk)]
  IN IF chunk.text THEN [u EXCEPT !.todo = "text"] ELSE Onward(u, chunk)

NothingToFinish(u) == ~u.hasContent /\ ~u.started

\* Mutant of MustFinish: it does not look whether the stream is finished.
MustFinishAgain(u) == ~NothingToFinish(u)

MustFinish(u) == ~u.finished /\ ~NothingToFinish(u)

\* Mutant of FirstStep: the response is stored before its items are finished.
FirstStepStores(u) == IF u.protocol = "responses" THEN "put" ELSE "finish"

\* Responses finishes the message first, Claude and Gemini have one list.
FirstStep(u) ==
  IF u.protocol = "responses" /\ u.messageStarted THEN "text done" ELSE "finish"

BeginFinish(u) ==
  IF MustFinish(u) THEN [u EXCEPT !.todo = FirstStep(u), !.left = DOMAIN u.calls]
                   ELSE [u EXCEPT !.todo = "idle", !.finished = TRUE]

Completed(u) == [u EXCEPT !.todo = "idle", !.finished = TRUE]

-----------------------------------------------------------------------------
(* Claude: numbered content blocks, opened when their first data arrives.   *)
(* `calls` maps a tool call to the index of its block.                      *)

ensureStarted == ~t.started /\ emit(Mark("message_start"), [t EXCEPT !.started = TRUE])

ensureTextBlock ==
  /\ ~t.textOpen
  /\ emit(Event("content_block_start", TextItem, t.nextIndex, NoPiece),
          [t EXCEPT !.textIndex = t.nextIndex, !.nextIndex = @ + 1, !.textOpen = TRUE])

closeTextBlock ==
  /\ t.textOpen
  /\ emit(Event("content_block_stop", TextItem, t.textIndex, NoPiece), [t EXCEPT !.textOpen = FALSE])

textDelta(chunk) ==
  /\ t.textOpen
  /\ emit(Event("content_block_delta", TextItem, t.textIndex, t.at), Onward(t, chunk))

openToolBlock(tool) ==
  /\ tool \notin DOMAIN t.calls
  /\ emit(Event("content_block_start", tool, t.nextIndex, NoPiece),
          [t EXCEPT !.calls = Extended(@, tool, t.nextIndex), !.nextIndex = @ + 1])

toolDelta(tool, chunk) ==
  /\ tool \in DOMAIN t.calls
  /\ IF Fragment(chunk).args
     THEN emit(Event("content_block_delta", tool, t.calls[tool], t.at), Onward(t, chunk))
     ELSE Silently(Onward(t, chunk))

consumeToolCall(chunk) ==
  /\ ~t.textOpen
  /\ LET tool == Fragment(chunk).tool IN openToolBlock(tool) \/ toolDelta(tool, chunk)

ClaudeConsume(chunk) ==
  \/ At("text") /\ t.started /\ (ensureTextBlock \/ textDelta(chunk))
  \/ At("tools") /\ t.started /\ (closeTextBlock \/ consumeToolCall(chunk))

\* The blocks are closed in the order they were opened.
stopToolBlock ==
  /\ t.left # {}
  /\ LET first == Min({t.calls[x] : x \in t.left})
     IN emit(Event("content_block_stop", TextItem, first, NoPiece),
             [t EXCEPT !.left = {x \in t.left : t.calls[x] # first}])

messageDelta ==
  /\ t.left = {}
  /\ emit(Mark("message_delta"), [t EXCEPT !.todo = "stop"])

ClaudeFinish ==
  \/ /\ At("finish") /\ t.started
     /\ closeTextBlock \/ (~t.textOpen /\ (stopToolBlock \/ messageDelta))
  \/ At("stop") /\ emit(Mark("message_stop"), Completed(t))

ClaudeStep(chunk) ==
  \/ t.todo \in {"text", "tools", "finish"} /\ ensureStarted
  \/ ClaudeConsume(chunk)
  \/ ClaudeFinish

-----------------------------------------------------------------------------
(* Gemini: text passes at once, tool calls are collected and written when   *)
(* the stream ends, in the order of their indices.  `calls` maps a tool     *)
(* call to the pieces of its arguments.                                     *)

geminiEmit(e, u) == emit(e, [u EXCEPT !.started = TRUE])

\* Mutant of collect: only the first piece of a call is kept.
collectFirstPiece(calls, fragment, piece) ==
  IF fragment.tool \in DOMAIN calls THEN calls
  ELSE Extended(calls, fragment.tool, IF fragment.args THEN <<piece>> ELSE <<>>)

collect(calls, fragment, piece) ==
  LET known == IF fragment.tool \in DOMAIN calls THEN calls[fragment.tool] ELSE <<>>
  IN Extended(calls, fragment.tool, IF fragment.args THEN Append(known, piece) ELSE known)

GeminiConsume(chunk) ==
  \/ At("text") /\ geminiEmit(Event("text", TextItem, 0, t.at), Onward(t, chunk))
  \/ /\ At("tools")
     /\ Silently(Onward([t EXCEPT !.calls = collect(@, Fragment(chunk), t.at)], chunk))

GeminiFinish ==
  /\ At("finish")
  /\ \/ /\ t.left # {}
        /\ LET tool == Min(t.left)
           IN geminiEmit(Event("functionCall", tool, 0, t.calls[tool]), [t EXCEPT !.left = @ \ {tool}])
     \/ t.left = {} /\ geminiEmit(Mark("finish"), Completed(t))

-----------------------------------------------------------------------------
(* Responses: a message item for the text and an item per call, opened when  *)
(* their first data arrives.  `calls` maps a call to its output index and    *)
(* the pieces of its arguments, `text` holds those of the message.           *)

\* The first event is preceded by response.created, whose error is ignored: the
\* event itself returns it.
emitEvent(e, u) ==
  \/ ~t.started /\ write(Mark("response.created"), [t EXCEPT !.started = TRUE], u)
  \/ t.started /\ emit(e, u)

messageEvent(kind, u) == emitEvent(Mark(kind), u)

\* Mutant of ensureMessageItem: it does not remember the item.
ensureMessageItemAgain ==
  \/ ~t.messageStarted /\ messageEvent("item added", [t EXCEPT !.messageStarted = TRUE])
  \/ /\ t.messageStarted
     /\ messageEvent("part added", [t EXCEPT !.messageStarted = FALSE, !.contentStarted = TRUE])

ensureMessageItem ==
  \/ ~t.messageStarted /\ messageEvent("item added", [t EXCEPT !.messageStarted = TRUE])
  \/ /\ t.messageStarted /\ ~t.contentStarted
     /\ messageEvent("part added", [t EXCEPT !.contentStarted = TRUE])

outputTextDelta(chunk) ==
  /\ t.contentStarted
  /\ emitEvent(Event("delta", TextItem, 0, t.at), Onward([t EXCEPT !.text = Append(@, t.at)], chunk))

nextFunctionOutputIndex == (IF t.messageStarted THEN 1 ELSE 0) + Cardinality(DOMAIN t.calls)

openCall(tool) ==
  /\ tool \notin DOMAIN t.calls
  /\ emitEvent(Event("item added", tool, nextFunctionOutputIndex, NoPiece),
       [t EXCEPT !.calls = Extended(@, tool, [index |-> nextFunctionOutputIndex, args |-> <<>>])])

argumentsDelta(chunk, tool) ==
  /\ tool \in DOMAIN t.calls
  /\ IF Fragment(chunk).args
     THEN emitEvent(Event("delta", tool, t.calls[tool].index, t.at),
                    Onward([t EXCEPT !.calls[tool].args = Append(@, t.at)], chunk))
     ELSE Silently(Onward(t, chunk))

ResponsesConsume(chunk) ==
  \/ At("text") /\ (ensureMessageItem \/ outputTextDelta(chunk))
  \/ /\ At("tools")
     /\ LET tool == Fragment(chunk).tool IN openCall(tool) \/ argumentsDelta(chunk, tool)

MessageDone(step, kind, next) == At(step) /\ messageEvent(kind, [t EXCEPT !.todo = next])

finishMessage ==
  \/ MessageDone("text done", "content done", "part done")
  \/ MessageDone("part done", "part done", "message done")
  \/ MessageDone("message done", "item done", "finish")

\* Call after call in the order of their indices, two events for each.
finishCalls ==
  /\ t.left # {}
  /\ LET tool == Min(t.left)
         about(kind) == Event(kind, tool, t.calls[tool].index, NoPiece)
     IN \/ At("finish") /\ emitEvent(about("content done"), [t EXCEPT !.todo = "call done"])
        \/ /\ At("call done")
           /\ emitEvent(about("item done"), [t EXCEPT !.todo = "finish", !.left = @ \ {tool}])

\* responsesStore.put, in the middle of Finish.
StoreResponse ==
  /\ stored' = [kind |-> "response", text |-> t.text, calls |-> t.calls]
  /\ t' = [t EXCEPT !.todo = "completed"]
  /\ UNCHANGED <<header, view, broken>>

ResponsesFinish ==
  \/ finishMessage
  \/ finishCalls
  \/ At("put") /\ StoreResponse
  \/ At("finish") /\ t.left = {} /\ Silently([t EXCEPT !.todo = "put"])
  \/ At("completed") /\ emitEvent(Mark("response.completed"), [t EXCEPT !.todo = "done"])
  \/ At("done") /\ emitEvent(Mark("[DONE]"), Completed(t))

\* Error, and writeResponsesStreamError in front of any translator ("refuse").
ResponsesError ==
  \/ At("fail") /\ emitEvent(Mark("response.failed"), [t EXCEPT !.todo = "failed"])
  \/ At("refuse") /\ emit(Mark("response.failed"), [t EXCEPT !.todo = "failed"])
  \/ At("failed") /\ emit(Mark("[DONE]"), [t EXCEPT !.todo = "idle"])

-----------------------------------------------------------------------------
(* The translator's type decides which methods run.                         *)

TranslatorStep(chunk) ==
  \/ t.protocol = "claude" /\ ClaudeStep(chunk)
  \/ t.protocol = "gemini" /\ (GeminiConsume(chunk) \/ GeminiFinish)
  \/ t.protocol = "responses" /\ (ResponsesConsume(chunk) \/ ResponsesFinish \/ ResponsesError)
=============================================================================

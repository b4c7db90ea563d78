---------------------------- MODULE CompatStream ----------------------------
(***************************************************************************)
(* A stream translated for a Claude, Gemini or Responses client: the       *)
(* attempts of executeTranslatedCompatStream or executeResponsesStream     *)
(* and, in each, relayOpenAIStream with its reader goroutine.  The main    *)
(* goroutine waits for a line of the upstream, the keep-alive ticker, the  *)
(* idle timer or the client's context; complete events go through the      *)
(* translator, whose output is written event by event and may fail at any  *)
(* of them.                                                                *)
(*                                                                         *)
(* A line is what ReadString returns: its kind, the chunk of a "data" line *)
(* and the error that came with it.  The prefetch lets an attempt reach    *)
(* the relay only when the upstream has sent something meaningful, so the  *)
(* first line of an attempt is data.  Keys, scheduler and breaker are left *)
(* to the module of the request's attempts.                                *)
(***************************************************************************)
EXTENDS LiveTranslators

CONSTANTS
  Protocols,     \* protocols of the requests
  Chunks,        \* what an upstream chunk can say
  MaxChunks,     \* bound on the chunks of one upstream stream
  MaxAttempts,   \* crossKeyAttemptBudget(MaxRetries) + 5
  KeepAlive,     \* StreamKeepAliveSec > 0
  MaxComments,   \* bound on the keep-alives of a request
  SilentFallback \* SilentFallbackOnExhaustion

ASSUME CompatAssumption ==
  /\ Protocols \subseteq {"claude", "gemini", "responses"}
  /\ Chunks \subseteq [text : BOOLEAN,
                       tools : Seq([tool : Tools, args : BOOLEAN, bare : BOOLEAN])]
  /\ MaxChunks \in Nat \ {0} /\ MaxAttempts \in Nat \ {0} /\ MaxComments \in Nat
  /\ KeepAlive \in BOOLEAN /\ SilentFallback \in BOOLEAN

VARIABLES
  pc,         \* main goroutine
  attempts,   \* upstream calls made
  chunks,     \* chunks of this attempt's upstream stream, as read
  upstream,   \* "sending", "done" ([DONE] read) or "ended" (body at its end)
  reading,    \* a goroutine is in ReadString on this attempt's body
  stale,      \* such goroutines of earlier attempts, on closed bodies
  lineCh,     \* channel with room for one line
  data,       \* the payload collected in dataLines
  ending,     \* why the relay ends: "no", "eof", "err", "idle", "ctx"
  cancelled,  \* ctx is done
  outcome,    \* how the request ended
  charged     \* usage recorded

upVars == <<chunks, upstream, reading, stale, lineCh>>
vars == <<pc, attempts, upVars, data, ending, translatorVars, cancelled,
          outcome, charged>>

Init ==
  /\ pc = "attempt" /\ attempts = 0
  /\ chunks = <<>> /\ upstream = "sending" /\ reading = FALSE /\ stale = 0
  /\ lineCh = <<>> /\ data = NoData /\ ending = "no"
  /\ \E protocol \in Protocols : t = NewTranslator(protocol)
  /\ view = EmptyView
  /\ header = "none" /\ broken = FALSE /\ cancelled = FALSE
  /\ stored = NoData /\ outcome = "none" /\ charged = FALSE

-----------------------------------------------------------------------------
(* The reader goroutine: one line, into a channel that has room for it.     *)

Deliver(kind, err) ==
  /\ reading
  /\ reading' = FALSE
  /\ lineCh' = Append(lineCh, [kind |-> kind, ord |-> Len(chunks'), err |-> err])

Ended(err) == IF err = "nil" THEN upstream ELSE "ended"

ReadChunk(chunk, err) ==
  /\ upstream = "sending" /\ Len(chunks) < MaxChunks
  /\ chunks' = Append(chunks, chunk)
  /\ upstream' = Ended(err)
  /\ Deliver("chunk", err)

\* A data line cut in two by the end of the body, or not JSON at all.
ReadMalformed(err) ==
  /\ upstream = "sending"
  /\ upstream' = Ended(err)
  /\ UNCHANGED chunks
  /\ Deliver("malformed", err)

ReadDone(err) ==
  /\ upstream = "sending" /\ chunks # <<>>
  /\ upstream' = IF err = "nil" THEN "done" ELSE "ended"
  /\ UNCHANGED chunks
  /\ Deliver("[DONE]", err)

ReadBlank ==
  /\ data # NoData
  /\ UNCHANGED <<chunks, upstream>>
  /\ Deliver("blank", "nil")

ReadEnd(err) ==
  /\ chunks # <<>> \/ data # NoData
  /\ upstream' = "ended"
  /\ UNCHANGED chunks
  /\ Deliver("none", err)

\* The upstream ends every complete data line's event with a blank line.
ReadString ==
  /\ \/ /\ data = NoData
        /\ \E err \in {"nil", "eof", "err"} :
             \/ \E chunk \in Chunks : ReadChunk(chunk, err)
             \/ ReadMalformed(err) \/ ReadDone(err)
     \/ ReadBlank
     \/ \E err \in {"eof", "err"} : ReadEnd(err)
  /\ UNCHANGED <<pc, attempts, stale, data, ending, translatorVars,
                 cancelled, outcome, charged>>

\* Mutant of StaleReaderEnds: without room in the channel nobody takes the line.
StaleReaderStuck ==
  /\ stale > 0 /\ pc = "wait"
  /\ stale' = stale - 1
  /\ UNCHANGED <<pc, attempts, chunks, upstream, reading, lineCh, data, ending, t,
                 clientVars, cancelled, outcome, charged>>

StaleReaderEnds ==
  /\ stale > 0
  /\ stale' = stale - 1
  /\ UNCHANGED <<pc, attempts, chunks, upstream, reading, lineCh, data, ending, t,
                 clientVars, cancelled, outcome, charged>>

-----------------------------------------------------------------------------
(* The attempts.                                                            *)

Return(o) == pc' = "returned" /\ outcome' = o

ClientGone ==
  /\ pc = "attempt" /\ attempts < MaxAttempts
  /\ cancelled /\ t.protocol # "responses"
  /\ Status("499") /\ Return("cancelled")
  /\ UNCHANGED <<attempts, upVars, data, ending, t, view, broken, stored,
                 cancelled, charged>>

\* executeResponsesStream does not look at the context itself.
MayTry == pc = "attempt" /\ attempts < MaxAttempts /\ (cancelled => t.protocol = "responses")

\* writeResponsesStreamError; the other protocols answer with a status alone.
EndWith(s, o) ==
  /\ Status(s) /\ outcome' = o
  /\ IF t.protocol = "responses"
     THEN pc' = "closing" /\ t' = [t EXCEPT !.todo = "refuse"]
     ELSE pc' = "returned" /\ UNCHANGED t

QueueTimeout ==
  /\ MayTry
  /\ EndWith("503", "queue timeout")
  /\ UNCHANGED <<attempts, upVars, data, ending, view, broken, stored, cancelled, charged>>

\* No key, an upstream that cannot be opened or an empty stream: next key.
OpenFails ==
  /\ MayTry
  /\ attempts' = attempts + 1
  /\ UNCHANGED <<pc, upVars, data, ending, translatorVars, cancelled,
                 outcome, charged>>

\* An error that is not to be retried ends a Responses request.
OpenRefused ==
  /\ MayTry /\ t.protocol = "responses"
  /\ EndWith("502", "error")
  /\ UNCHANGED <<attempts, upVars, data, ending, view, broken, stored, cancelled, charged>>

OpenUpstream ==
  /\ pc = "attempt" /\ attempts < MaxAttempts /\ ~cancelled
  /\ attempts' = attempts + 1
  /\ pc' = "wait"
  /\ t' = NewTranslator(t.protocol) /\ chunks' = <<>> /\ upstream' = "sending" /\ lineCh' = <<>>
  /\ data' = NoData /\ ending' = "no" /\ reading' = TRUE
  /\ UNCHANGED <<stale, clientVars, cancelled, outcome, charged>>

\* All attempts used up.  The silent fallback lets a fresh translator finish.
Exhausted ==
  /\ pc = "attempt" /\ attempts = MaxAttempts
  /\ IF SilentFallback /\ t.protocol # "responses"
     THEN /\ t' = BeginFinish(NewTranslator(t.protocol))
          /\ Status("implicit") /\ pc' = "closing" /\ outcome' = "fallback"
     ELSE EndWith("502", "error")
  /\ UNCHANGED <<attempts, upVars, data, ending, view, broken, stored, cancelled, charged>>

-----------------------------------------------------------------------------
(* The relay.                                                               *)

TakeLine ==
  /\ pc = "wait" /\ lineCh # <<>>
  /\ LET line == Head(lineCh) IN
     /\ lineCh' = <<>>
     /\ data' = IF line.kind \in {"chunk", "malformed", "[DONE]"} THEN line ELSE data
     /\ ending' = IF line.err = "nil" THEN ending ELSE line.err
     /\ IF line.kind = "blank" \/ line.err # "nil"
        THEN pc' = "flush" /\ UNCHANGED reading
        ELSE pc' = "wait" /\ reading' = TRUE
  /\ UNCHANGED <<attempts, chunks, upstream, stale, translatorVars, cancelled,
                 outcome, charged>>

\* A comment frame; the first byte written without a status line implies 200.
WriteKeepAlive ==
  /\ pc = "wait" /\ KeepAlive /\ ~broken
  /\ view.comments < MaxComments
  /\ view' = [view EXCEPT !.comments = @ + 1]
  /\ Status("implicit")
  /\ UNCHANGED <<pc, attempts, upVars, data, ending, t, broken, stored,
                 cancelled, outcome, charged>>

Interrupt(why) ==
  /\ pc = "wait"
  /\ ending' = why
  /\ pc' = "flush"
  /\ UNCHANGED <<attempts, upVars, data, translatorVars, cancelled, outcome, charged>>

IdleTimeout == Interrupt("idle")
ContextDone == cancelled /\ Interrupt("ctx")

AfterFlush == IF ending = "no" THEN "wait" ELSE "finish"

\* Errors of flushData are ignored when the stream was interrupted.
FlushErrorsCount == ending \in {"no", "eof"}

Flush ==
  /\ pc = "flush"
  /\ data' = NoData
  /\ CASE data.kind = "chunk" ->
            t' = BeginConsume(chunks[data.ord]) /\ pc' = "emit" /\ UNCHANGED ending
       [] data.kind = "[DONE]" ->
            t' = BeginFinish(t) /\ pc' = "emit" /\ UNCHANGED ending
       [] data.kind = "malformed" /\ FlushErrorsCount ->
            pc' = "leave" /\ ending' = "malformed" /\ UNCHANGED t
       [] OTHER ->
            pc' = "emit" /\ UNCHANGED <<t, ending>>
  /\ UNCHANGED <<attempts, upVars, clientVars, cancelled, outcome, charged>>

\* What the method has come to: its next event, or the store.
Translate ==
  /\ pc \in {"emit", "finishing", "closing"}
  /\ TranslatorStep(chunks[t.at[1]])
  /\ UNCHANGED <<pc, attempts, upVars, data, ending, cancelled, outcome, charged>>

\* The method has returned the error of a write.
WriteFailed ==
  /\ t.todo = "error" /\ t' = [t EXCEPT !.todo = "idle"]
  /\ \/ pc = "closing" /\ pc' = "returned" /\ UNCHANGED ending
     \/ pc = "emit" /\ ~FlushErrorsCount /\ pc' = "finish" /\ UNCHANGED ending
     \/ /\ pc = "finishing" \/ (pc = "emit" /\ FlushErrorsCount)
        /\ pc' = "leave" /\ ending' = "write"
  /\ UNCHANGED <<attempts, upVars, data, clientVars, cancelled, outcome, charged>>

Emitted ==
  /\ pc = "emit" /\ t.todo = "idle"
  /\ pc' = AfterFlush
  /\ reading' = (reading \/ AfterFlush = "wait")
  /\ UNCHANGED <<attempts, chunks, upstream, stale, lineCh, data, ending, t,
                 clientVars, cancelled, outcome, charged>>

Finish ==
  /\ pc = "finish"
  /\ t' = BeginFinish(t)
  /\ pc' = "finishing"
  /\ UNCHANGED <<attempts, upVars, data, ending, clientVars, cancelled, outcome, charged>>

Finished ==
  /\ pc = "finishing" /\ t.todo = "idle"
  /\ pc' = "leave"
  /\ UNCHANGED <<attempts, upVars, data, ending, translatorVars, cancelled,
                 outcome, charged>>

\* What relayOpenAIStream returns.
RelayError ==
  CASE ending \in {"malformed", "write"} -> ending
    [] ending \notin {"malformed", "write"} /\ ~t.hasContent /\ ~t.started -> "empty"
    [] OTHER -> "nil"

\* Mutant of Retriable: any failure of the relay goes to the next key.
RetriableAlways == RelayError # "nil"

Retriable == RelayError = "empty" /\ ~t.started

\* The relay has returned: close the body, release the key, decide.
Leave ==
  /\ pc = "leave"
  /\ stale' = stale + (IF reading THEN 1 ELSE 0)
  /\ reading' = FALSE
  /\ CASE Retriable -> pc' = "attempt" /\ UNCHANGED <<t, outcome, charged>>
       [] ~Retriable /\ RelayError # "nil" ->
            /\ outcome' = "interrupted" /\ UNCHANGED charged
            /\ IF t.protocol = "responses"
               THEN pc' = "closing" /\ t' = [t EXCEPT !.todo = "fail"]
               ELSE pc' = "returned" /\ UNCHANGED t
       [] OTHER -> Return("success") /\ charged' = TRUE /\ UNCHANGED t
  /\ UNCHANGED <<attempts, chunks, upstream, lineCh, data, ending, clientVars, cancelled>>

\* The last words to the client have been written.
Closed ==
  /\ pc = "closing" /\ t.todo = "idle"
  /\ pc' = "returned"
  /\ UNCHANGED <<attempts, upVars, data, ending, translatorVars, cancelled, outcome, charged>>

CancelContext ==
  /\ ~cancelled /\ pc # "returned"
  /\ cancelled' = TRUE
  /\ UNCHANGED <<pc, attempts, upVars, data, ending, translatorVars, outcome, charged>>

Terminated == pc = "returned" /\ stale = 0 /\ UNCHANGED vars

Main ==
  \/ ClientGone \/ QueueTimeout \/ OpenFails \/ OpenRefused \/ OpenUpstream \/ Exhausted
  \/ TakeLine \/ IdleTimeout \/ ContextDone \/ Flush
  \/ Translate \/ WriteFailed \/ Emitted
  \/ Finish \/ Finished \/ Leave \/ Closed

Next == Main \/ WriteKeepAlive \/ ReadString \/ StaleReaderEnds \/ CancelContext \/ Terminated

\* The idle timer makes the main goroutine move on; a closed body ends a Read.
Spec == Init /\ [][Next]_vars /\ WF_vars(Main) /\ WF_vars(StaleReaderEnds)

-----------------------------------------------------------------------------
(* What the clients of each protocol rely on.                               *)

\* A view counts for the client whose protocol it is.
ViewOf(protocol) == IF t.protocol = protocol THEN view ELSE EmptyView

ClaudeClient == INSTANCE ClaudeProtocol
  WITH phase <- ViewOf("claude").phase, frames <- ViewOf("claude").frames,
       blocks <- LET B == ViewOf("claude").blocks
                 IN [i \in DOMAIN B |-> [open |-> B[i].open, deltas |-> B[i].deltas]]

ResponsesClient == INSTANCE ResponsesProtocol
  WITH Message <- TextItem, phase <- ViewOf("responses").phase,
       items <- ViewOf("responses").blocks, frames <- ViewOf("responses").frames

\* The pieces of data of an item that the upstream sent, in order.  White space
\* that Claude passes over does not count.
Carries(item, n, i) ==
  IF i = 0 THEN item = TextItem /\ chunks[n].text
  ELSE LET fragment == Fragments(chunks[n])[i] IN fragment.tool = item /\ fragment.args

Pieces(item) ==
  {piece \in UNION {{n} \X (0 .. Len(Fragments(chunks[n]))) : n \in DOMAIN chunks} :
     Carries(item, piece[1], piece[2])}

Before(p, q) == p[1] < q[1] \/ (p[1] = q[1] /\ p[2] < q[2])

\* The sequence lists some of the pieces in order, from the first one on.
Relays(shown, pieces) ==
  /\ \A k \in DOMAIN shown :
       /\ shown[k] \in pieces
       /\ \A p \in pieces : Before(p, shown[k]) => \E j \in 1 .. k-1 : shown[j] = p
  /\ \A j, k \in DOMAIN shown : j < k => Before(shown[j], shown[k])

-----------------------------------------------------------------------------
(* Properties.                                                              *)

\* Type invariant of the relay and its attempts.
TypeOK ==
  /\ pc \in {"attempt", "wait", "flush", "emit", "finish", "finishing", "leave", "closing", "returned"}
  /\ attempts \in 0 .. MaxAttempts
  /\ stale \in 0 .. MaxAttempts
  /\ {reading, broken, cancelled, charged} \subseteq BOOLEAN
  /\ Len(lineCh) <= 1 /\ (reading => lineCh = <<>>)
  /\ ending \in {"no", "eof", "err", "idle", "ctx", "malformed", "write"}
  /\ header \in {"none", "sse", "implicit", "499", "502", "503"}

\* Whatever the upstream streams, when it breaks, and over however many
\* attempts, a Claude client sees a legal event sequence: one message_start
\* (comment stream_live_compat.go 57-58), blocks with their own indices, no
\* delta outside its block, nothing after message_stop (547-655).
ImplementsClaudeProtocol == ClaudeClient!ProtocolSpec

\* The client never gets text or arguments out of order, twice or in another
\* block than the one they belong to, and a stream that ended normally was
\* relayed completely (547-655, 722-764, 796-894).
AnswerRelayed ==
  \A item \in Items :
    /\ Relays(view.shown[item], Pieces(item))
    /\ outcome = "success" /\ ending = "eof" =>
         \A p \in Pieces(item) : \E k \in DOMAIN view.shown[item] : view.shown[item][k] = p

\* A request that counts as answered, and only such a one, is charged, and its
\* stream carries its last frame exactly once, even if the upstream went silent
\* or broke (models.go 63-64, stream_live_compat.go 433-504).
AnsweredStreamsEnd ==
  /\ charged <=> outcome = "success"
  /\ view.ends <= 1
  /\ outcome = "success" => view.last = LastKind

\* A Responses client sees a legal event sequence: created once and first, every
\* item added before its data and finished once before response.completed, which
\* is written only after all of them, and a failure reported at most once, never
\* behind a completion (responses.go 310-589, 642-688, 726-760).
ImplementsResponsesProtocol == ResponsesClient!ProtocolSpec

\* What a later request continues from (previous_response_id) is what the client
\* was shown: the stored response holds exactly the deltas written to it, a
\* response reported as failed is not stored, one reported as completed is
\* (responses.go 448-457, responses_store.go 31-43).
StoredIsWhatWasShown ==
  /\ stored # NoData =>
       /\ stored.text = view.shown[TextItem]
       /\ DOMAIN stored.calls = DOMAIN view.blocks \ {TextItem}
       /\ \A tool \in DOMAIN stored.calls : stored.calls[tool].args = view.shown[tool]
       /\ view.last # "response.failed" /\ outcome # "error"
  /\ outcome = "success" /\ t.protocol = "responses" => stored # NoData

\* The request ends, and with it every reader goroutine: the channel has room
\* for the line nobody waits for any more (396-404).
RequestReturns == <>[](pc = "returned" /\ ~reading /\ stale = 0)

-----------------------------------------------------------------------------
(* What comments say of the code and it does not do.                        *)

\* The next attempt starts with nothing written: "客户端完全感知不到刚才那次失败"
\* (stream_live_compat.go 190-191).
RetryUnseen == pc = "attempt" => view = EmptyView /\ header = "none"

\* A stream that went idle or broke is not taken for a success: 198-202.
InterruptedIsReported ==
  outcome = "success" => ending = "eof" \/ upstream = "done"

\* A relay error means that the translator's last frame has been attempted:
\* "translator.Finish() 已经在 relay 内部调用过" (200).
StreamErrorMeansFinished ==
  outcome = "interrupted" /\ ~broken => t.finished

\* The silent fallback is a legal answer without content (models.go 72-73).
FallbackIsAStream == outcome = "fallback" => view.frames > 0

\* The idle timeout ends the request, it does not retry (models.go 63-64).
IdleStopsRetries == [][pc = "leave" /\ ending = "idle" => pc' # "attempt"]_vars

\* A tool call delta counts as content (stream_live_compat.go 53-55).
ToolCallIsContent ==
  pc = "attempt" /\ data = NoData /\ ending = "eof" =>
    \A n \in DOMAIN chunks : ~Meaningful(chunks[n])
=============================================================================

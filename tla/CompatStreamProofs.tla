------------------------- MODULE CompatStreamProofs -------------------------
(***************************************************************************)
(* The steps of the Responses translator and of the stream around a        *)
(* translator keep the invariant of TranslatorProofs too, and so the       *)
(* clients see legal event sequences that carry the upstream's data in     *)
(* order, ended once when the request counts as answered, and a stored     *)
(* response is what its client was shown: for any chunks and any number of *)
(* attempts.                                                               *)
(***************************************************************************)
EXTENDS TranslatorProofs

-----------------------------------------------------------------------------
(* The view after an event of Responses.                                    *)

PhaseKinds == {"response.created", "response.completed", "response.failed", "[DONE]"}
ItemKinds == {"item added", "part added", "delta", "content done", "part done", "item done"}

PhaseAfter(kind) ==
  CASE kind = "response.created" -> "in progress"
    [] kind = "response.completed" -> "completed"
    [] kind = "response.failed" -> "failed"
    [] kind = "[DONE]" -> "stopped"

ChangesPhase(v, w, phase) ==
  /\ v.frames = w.frames /\ v.last = w.last /\ v.ends = w.ends /\ v.phase = phase
  /\ v.blocks = w.blocks /\ v.comments = w.comments /\ v.shown = w.shown
  /\ IsView(v)

LEMMA PhaseView ==
  ASSUME NEW w, IsView(w), NEW phase
  PROVE  ChangesPhase([w EXCEPT !.phase = phase], w, phase)
<1> DEFINE v == [w EXCEPT !.phase = phase]
<1>1. /\ v.frames = w.frames /\ v.last = w.last /\ v.ends = w.ends /\ v.phase = phase
      /\ v.blocks = w.blocks /\ v.comments = w.comments /\ v.shown = w.shown
  BY DEF IsView
<1>2. IsView(v)
  BY <1>1 DEF IsView
<1> QED
  BY <1>1, <1>2 DEF ChangesPhase

ChangesBlocks(v, w, blocks) ==
  /\ v.frames = w.frames /\ v.last = w.last /\ v.ends = w.ends /\ v.phase = w.phase
  /\ v.blocks = blocks /\ v.comments = w.comments /\ v.shown = w.shown
  /\ IsView(v)

LEMMA BlocksView ==
  ASSUME NEW w, IsView(w), NEW i, NEW block
  PROVE  ChangesBlocks(SetBlock(w, i, block), w, Extended(w.blocks, i, block))
<1> DEFINE v == SetBlock(w, i, block)
           B == Extended(w.blocks, i, block)
<1>0. v = [w EXCEPT !.blocks = B]
  BY DEF SetBlock
<1> HIDE DEF B, v
<1>1. /\ v.frames = w.frames /\ v.last = w.last /\ v.ends = w.ends /\ v.phase = w.phase
      /\ v.blocks = B /\ v.comments = w.comments /\ v.shown = w.shown
  BY <1>0 DEF IsView
<1>2. IsView(v)
  BY <1>0, <1>1 DEF IsView
<1> QED
  BY <1>1, <1>2 DEF ChangesBlocks, v, B

LEMMA ResponsesReceivesPhase ==
  ASSUME ViewTypes, Responses, NEW e, view' = Receive(view, e), e.kind \in PhaseKinds,
         broken' \in BOOLEAN
  PROVE  /\ ViewTypes'
         /\ view'.frames = view.frames + 1 /\ view'.last = e.kind
         /\ view'.ends = IF e.kind = "[DONE]" THEN view.ends + 1 ELSE view.ends
         /\ view'.shown = view.shown /\ view'.blocks = view.blocks
         /\ view'.phase = PhaseAfter(e.kind)
<1> DEFINE w == Counted(e)
<1>1. view' = ReceiveResponses(w, e) /\ LastKind = "[DONE]"
  BY DEF Receive, LastKind, Responses, Counted
<1>2. /\ w.last = e.kind /\ w.shown = view.shown /\ w.frames = view.frames + 1
      /\ w.ends = IF e.kind = LastKind THEN view.ends + 1 ELSE view.ends
      /\ w.blocks = view.blocks
      /\ IsView(w)
  BY CountedView
<1>3. view.blocks = [i \in DOMAIN view.blocks |-> view.blocks[i]]
  BY DEF ViewTypes
<1> HIDE DEF w
<1>4. view' = [w EXCEPT !.phase = PhaseAfter(e.kind)]
  BY <1>1 DEF ReceiveResponses, PhaseKinds, PhaseAfter
<1>5. ChangesPhase(view', w, PhaseAfter(e.kind))
  BY <1>2, <1>4, PhaseView
<1>6. ViewTypes'
  BY <1>2, <1>3, <1>5 DEF ChangesPhase, IsView, ViewTypes
<1> QED
  BY <1>1, <1>2, <1>5, <1>6 DEF ChangesPhase

LEMMA ResponsesReceivesItem ==
  ASSUME ViewTypes, Responses, NEW e, view' = Receive(view, e), e.kind \in ItemKinds,
         e.item \in Items, e.piece \in Piece, broken' \in BOOLEAN
  PROVE  /\ ViewTypes'
         /\ view'.frames = view.frames + 1 /\ view'.last = e.kind
         /\ view'.ends = view.ends /\ view'.phase = view.phase
         /\ view'.blocks = Extended(view.blocks, e.item, StageAfter(e.item, e.kind))
         /\ e.kind # "delta" => view'.shown = view.shown
         /\ e.kind = "delta" =>
              /\ view'.shown[e.item] = Append(view.shown[e.item], e.piece)
              /\ \A i \in Items : i # e.item => view'.shown[i] = view.shown[i]
<1> DEFINE w == Counted(e)
           stage == StageAfter(e.item, e.kind)
<1>1. view' = ReceiveResponses(w, e) /\ LastKind = "[DONE]"
  BY DEF Receive, LastKind, Responses, Counted
<1>2. /\ w.last = e.kind /\ w.shown = view.shown /\ w.frames = view.frames + 1
      /\ w.ends = IF e.kind = LastKind THEN view.ends + 1 ELSE view.ends
      /\ w.blocks = view.blocks /\ w.phase = view.phase
      /\ IsView(w)
  BY CountedView
<1>3. view.shown \in [Items -> Seq(Piece)]
  BY DEF ViewTypes
<1> DEFINE B == Extended(view.blocks, e.item, stage)
<1>4. B = [i \in DOMAIN B |-> B[i]]
  BY DEF Extended
<1> HIDE DEF w, stage
<1>5. CASE e.kind = "delta"
  <2> DEFINE v == Shows(w, e.item, <<e.piece>>)
  <2>1. view' = SetBlock(v, e.item, stage)
    BY <1>1, <1>5 DEF ReceiveResponses, stage
  <2>2. view.shown[e.item] \o <<e.piece>> = Append(view.shown[e.item], e.piece)
    <3>1. view.shown[e.item] \in Seq(Piece)
      BY <1>3
    <3> QED
      BY <3>1, ConcatOfOne
  <2>3. ShowsMore(v, w, e.item, <<e.piece>>)
    <3>1. <<e.piece>> \in Seq(Piece)
      OBVIOUS
    <3> QED
      BY <1>2, <3>1, ShowsView
  <2> HIDE DEF v
  <2>4. ChangesBlocks(view', v, Extended(v.blocks, e.item, stage))
    BY <2>1, <2>3, BlocksView DEF ShowsMore
  <2>5. view'.blocks = B
    BY <1>2, <2>3, <2>4 DEF ShowsMore, ChangesBlocks
  <2> HIDE DEF B
  <2>6. ViewTypes'
    BY <1>4, <2>4, <2>5 DEF ChangesBlocks, IsView, ViewTypes
  <2> QED
    BY <1>1, <1>2, <1>5, <2>2, <2>3, <2>4, <2>5, <2>6 DEF ShowsMore, ChangesBlocks, B, stage
<1>6. CASE e.kind # "delta"
  <2>1. view' = SetBlock(w, e.item, stage)
    BY <1>1, <1>6 DEF ReceiveResponses, ItemKinds, stage
  <2>4. ChangesBlocks(view', w, Extended(w.blocks, e.item, stage))
    BY <2>1, <1>2, BlocksView
  <2>5. view'.blocks = B
    BY <1>2, <2>4 DEF ChangesBlocks
  <2> HIDE DEF B
  <2>6. ViewTypes'
    BY <1>4, <2>4, <2>5 DEF ChangesBlocks, IsView, ViewTypes
  <2> QED
    BY <1>1, <1>2, <1>6, <2>4, <2>5, <2>6 DEF ChangesBlocks, B, stage, ItemKinds
<1> QED
  BY <1>5, <1>6

\* The protocol's actions, said of the views.
LEMMA PhaseFrame ==
  ASSUME Responses, Responses', view'.frames = view.frames + 1, view'.blocks = view.blocks,
         \/ view.phase = "before" /\ view'.phase = "in progress"
         \/ view.phase \in {"before", "in progress"} /\ view'.phase = "failed"
         \/ view.phase \in {"completed", "failed"} /\ view'.phase = "stopped"
  PROVE  ResponsesClient!ProtocolNext
<1>1. ViewOf("responses") = view /\ ViewOf("responses")' = view'
  BY DEF ViewOf, Responses
<1> QED
  BY <1>1, Zenon DEF ResponsesClient!ProtocolNext, ResponsesClient!NextFrame,
       ResponsesClient!Created, ResponsesClient!Failed, ResponsesClient!Stopped

LEMMA CompletedFrame ==
  ASSUME Responses, Responses', view'.frames = view.frames + 1, view'.blocks = view.blocks,
         view.phase = "in progress", view'.phase = "completed", DOMAIN view.blocks # {},
         \A i \in DOMAIN view.blocks : view.blocks[i] = "done"
  PROVE  ResponsesClient!ProtocolNext
<1>1. ViewOf("responses") = view /\ ViewOf("responses")' = view'
  BY DEF ViewOf, Responses
<1> QED
  BY <1>1, Zenon DEF ResponsesClient!ProtocolNext, ResponsesClient!NextFrame,
       ResponsesClient!Completed

LEMMA ItemAddedFrame ==
  ASSUME Responses, Responses', view'.frames = view.frames + 1,
         view.phase = "in progress", view'.phase = "in progress",
         NEW i, i \notin DOMAIN view.blocks,
         view'.blocks = Extended(view.blocks, i, StageAfter(i, "item added"))
  PROVE  ResponsesClient!ProtocolNext
<1>1. ViewOf("responses") = view /\ ViewOf("responses")' = view'
  BY DEF ViewOf, Responses
<1> DEFINE B == view.blocks
           C == view'.blocks
<1>2. StageAfter(i, "item added") = IF i = TextItem THEN "added" ELSE "open"
  BY DEF StageAfter
<1>3. C = [j \in DOMAIN B \cup {i} |->
             IF j # i THEN B[j] ELSE IF i = TextItem THEN "added" ELSE "open"]
  BY <1>2 DEF Extended
<1>4. i \in DOMAIN C
  BY DEF Extended
<1> HIDE DEF B, C
<1>5. B = ViewOf("responses").blocks /\ C = ViewOf("responses")'.blocks
  BY <1>1 DEF B, C
<1>6. ResponsesClient!ItemAdded(i)
  BY <1>1, <1>3, <1>5, Zenon DEF ResponsesClient!ItemAdded, ResponsesClient!NextFrame, B
<1> QED
  BY <1>4, <1>5, <1>6, Zenon DEF ResponsesClient!ProtocolNext

LEMMA StageFrame ==
  ASSUME ViewTypes, Responses, Responses', view'.frames = view.frames + 1,
         view.phase = "in progress", view'.phase = "in progress",
         NEW i, i \in DOMAIN view.blocks, NEW kind \in ItemKinds,
         view'.blocks = Extended(view.blocks, i, StageAfter(i, kind)),
         \/ kind = "part added" /\ i = TextItem /\ view.blocks[i] = "added"
         \/ kind = "delta" /\ view.blocks[i] = "open"
         \/ kind = "content done" /\ view.blocks[i] = "open"
         \/ kind = "part done" /\ i = TextItem /\ view.blocks[i] = "filled"
         \/ kind = "item done" /\ view.blocks[i] = "closed"
  PROVE  ResponsesClient!ProtocolNext
<1>1. ViewOf("responses") = view /\ ViewOf("responses")' = view'
  BY DEF ViewOf, Responses
<1> DEFINE B == view.blocks
           C == view'.blocks
           to == StageAfter(i, kind)
<1>2. C = [B EXCEPT ![i] = to]
  <2>1. B = [j \in DOMAIN B |-> B[j]]
    BY DEF ViewTypes
  <2>2. [B EXCEPT ![i] = to] = [j \in DOMAIN B |-> IF j = i THEN to ELSE B[j]]
    BY <2>1
  <2>3. Extended(B, i, to) = [j \in DOMAIN B |-> IF j = i THEN to ELSE B[j]]
    BY DEF Extended
  <2> QED
    BY <2>2, <2>3
<1>3. to = CASE kind \in {"part added", "delta"} -> "open"
             [] kind = "content done" -> (IF i = TextItem THEN "filled" ELSE "closed")
             [] kind = "part done" -> "closed"
             [] kind = "item done" -> "done"
  BY DEF StageAfter
<1> HIDE DEF B, C, to
<1>4. B = ViewOf("responses").blocks /\ C = ViewOf("responses")'.blocks
  BY <1>1 DEF B, C
<1>5. ASSUME NEW from, B[i] = from
      PROVE  ResponsesClient!Stage(i, from, to)
  BY <1>1, <1>2, <1>4, <1>5, Zenon DEF ResponsesClient!Stage, ResponsesClient!NextFrame
<1>6. i \in DOMAIN ViewOf("responses").blocks
  BY <1>1
<1> USE DEF ResponsesClient!ProtocolNext
<1>7. CASE kind = "part added" /\ i = TextItem /\ view.blocks[i] = "added"
  <2>1. ResponsesClient!PartAdded
    BY <1>3, <1>5, <1>6, <1>7 DEF ResponsesClient!PartAdded, B
  <2> QED
    BY <2>1, Zenon
<1>8. CASE kind = "delta" /\ view.blocks[i] = "open"
  <2>1. ResponsesClient!Delta(i)
    BY <1>3, <1>5, <1>8 DEF ResponsesClient!Delta, B
  <2> QED
    BY <2>1, <1>6, Zenon
<1>9. CASE kind = "content done" /\ view.blocks[i] = "open"
  <2>1. ResponsesClient!ContentDone(i)
    BY <1>3, <1>5, <1>9 DEF ResponsesClient!ContentDone, B
  <2> QED
    BY <2>1, <1>6, Zenon
<1>10. CASE kind = "part done" /\ i = TextItem /\ view.blocks[i] = "filled"
  <2>1. ResponsesClient!PartDone
    BY <1>3, <1>5, <1>6, <1>10 DEF ResponsesClient!PartDone, B
  <2> QED
    BY <2>1, Zenon
<1>11. CASE kind = "item done" /\ view.blocks[i] = "closed"
  <2>1. ResponsesClient!ItemDone(i)
    BY <1>3, <1>5, <1>11 DEF ResponsesClient!ItemDone, B
  <2> QED
    BY <2>1, <1>6, Zenon
<1> QED
  BY <1>7, <1>8, <1>9, <1>10, <1>11

-----------------------------------------------------------------------------
(* The steps of the Responses translator.                                   *)

ResponsesBefore ==
  /\ Responses /\ Places
  /\ TranslatorTypes /\ ViewTypes /\ Control /\ ShownOK /\ EndsOK /\ ResponsesOK /\ StoredOK

ResponsesAfter(chunk) ==
  /\ Moves(chunk)
  /\ TranslatorTypes' /\ ViewTypes' /\ ShownOK' /\ EndsOK' /\ ResponsesOK' /\ StoredOK'
  /\ [ResponsesClient!ProtocolNext]_(ResponsesClient!protocolVars)

\* The event reached the client, and the translator is u.
Arrives(e, u) ==
  /\ ~broken /\ ~broken' /\ UNCHANGED stored
  /\ view' = Receive(view, e) /\ t' = u /\ TranslatorTypes' /\ broken' \in BOOLEAN

\* What the client is told of an item is known to the translator.
Knows(u) ==
  /\ IsTranslator(u) /\ CallsTyped(u) /\ u.protocol = t.protocol
  /\ u.contentStarted => u.messageStarted
  /\ pc # "closing" => DOMAIN u.calls # {} \/ u.messageStarted

LEMMA ResponsesWriteFails ==
  ASSUME ResponsesBefore, NEW e, NEW u, NEW f, write(e, u, f), IsTranslator(u), CallsTyped(u),
         u.protocol = t.protocol, Knows(f)
  PROVE  Fails \/ Arrives(e, u)
<1>1. TranslatorTypes' /\ t'.protocol = t.protocol
  BY WriteTyped DEF Knows
<1>2. CASE ~broken /\ UNCHANGED broken /\ view' = Receive(view, e) /\ t' = u
  BY <1>1, <1>2 DEF write, ResponsesBefore, ViewTypes, Arrives
<1>3. CASE /\ broken' = TRUE /\ UNCHANGED view
           /\ t' = [f EXCEPT !.started = TRUE, !.finished = FALSE, !.todo = "error"]
  <2>1. /\ t'.todo = "error" /\ t'.started /\ ~t'.finished /\ t'.calls = f.calls
        /\ t'.messageStarted = f.messageStarted /\ t'.contentStarted = f.contentStarted
    BY <1>3 DEF IsTranslator, Knows
  <2>2. UNCHANGED stored
    BY DEF write
  <2> QED
    BY <1>1, <1>3, <2>1, <2>2 DEF Fails, Knows, ItemsKnown
<1> QED
  BY <1>2, <1>3 DEF write

\* The first event is preceded by another one.
LEMMA ResponsesWrites ==
  ASSUME ResponsesBefore, NEW e, NEW u, emitEvent(e, u), Knows(u)
  PROVE  \/ Fails
         \/ ~t.started /\ Arrives(Mark("response.created"), [t EXCEPT !.started = TRUE])
         \/ t.started /\ Arrives(e, u)
<1>1. CASE ~t.started /\ write(Mark("response.created"), [t EXCEPT !.started = TRUE], u)
  <2> DEFINE v == [t EXCEPT !.started = TRUE]
  <2>1. IsTranslator(v) /\ v.calls = t.calls /\ v.left = t.left /\ v.protocol = t.protocol
    BY DEF ResponsesBefore, TranslatorTypes, IsTranslator
  <2> HIDE DEF v
  <2>2. CallsTyped(v)
    BY <2>1, SameCallsTyped DEF ResponsesBefore
  <2>3. write(Mark("response.created"), v, u)
    BY <1>1 DEF v
  <2> QED
    BY <1>1, <2>1, <2>2, <2>3, ResponsesWriteFails DEF v
<1>2. CASE t.started /\ emit(e, u)
  BY <1>2, ResponsesWriteFails DEF emit, Knows
<1> QED
  BY <1>1, <1>2 DEF emitEvent

\* While the request is not answered, nothing is stored and the stream is not over.
LEMMA NotOver ==
  ASSUME ResponsesBefore, ~broken, t.todo \in ConsumeSteps \cup (FinishSteps \ {"completed", "done"})
  PROVE  /\ ~t.finished /\ outcome = "none" /\ ~Over /\ stored = NoData
         /\ pc # "closing" /\ pc # "returned"
         /\ view.phase = IF t.started THEN "in progress" ELSE "before"
<1>1. ~t.finished /\ outcome = "none" /\ pc # "closing" /\ pc # "returned"
  BY DEF ResponsesBefore, Control, FlowOK, EndingOK, Places, ConsumeSteps, FinishSteps, ErrorSteps
<1>2. ~Over
  BY <1>1 DEF Over, Said
<1>3. stored = NoData
  BY <1>1 DEF ResponsesBefore, StoredOK, ConsumeSteps, FinishSteps
<1>4. view.phase = IF t.started THEN "in progress" ELSE "before"
  BY <1>2 DEF ResponsesBefore, ResponsesOK, ResponsesPhase, ConsumeSteps, FinishSteps
<1> QED
  BY <1>1, <1>2, <1>3, <1>4

\* A stream that is not over stays so.
LEMMA EndsStay ==
  ASSUME EndsOK, ~Over, ~Over', ~broken, ~broken', view'.ends = view.ends
  PROVE  EndsOK'
BY DEF EndsOK

LEMMA ResponsesCreates ==
  ASSUME ResponsesBefore, NEW chunk, UNCHANGED Rest, ~t.started,
         t.todo \in ConsumeSteps \cup FinishSteps \cup {"fail"},
         Arrives(Mark("response.created"), [t EXCEPT !.started = TRUE])
  PROVE  ResponsesAfter(chunk)
<1> DEFINE e == Mark("response.created")
           u == [t EXCEPT !.started = TRUE]
<1>1. /\ IsTranslator(t) /\ TranslatorTypes /\ Responses /\ ViewTypes /\ ResponsesStage
      /\ ~broken /\ ResponsesOK
  BY DEF ResponsesBefore, TranslatorTypes, ResponsesOK, Arrives
<1>2. /\ u.calls = t.calls /\ u.left = t.left /\ u.protocol = t.protocol
      /\ u.started /\ u.todo = t.todo /\ u.at = t.at /\ u.finished = t.finished
      /\ u.hasContent = t.hasContent /\ u.messageStarted = t.messageStarted
      /\ u.contentStarted = t.contentStarted /\ u.text = t.text
  BY <1>1 DEF IsTranslator
<1>3. e.kind = "response.created"
  BY DEF Mark, Event
<1>4. Arrives(e, u)
  OBVIOUS
<1> HIDE DEF e, u
<1>5. ~broken' /\ UNCHANGED stored /\ t' = u /\ TranslatorTypes' /\ broken' \in BOOLEAN
      /\ view' = Receive(view, e)
  BY <1>4 DEF Arrives
<1>6. /\ ViewTypes' /\ view'.frames = view.frames + 1 /\ view'.last = "response.created"
      /\ view'.ends = view.ends /\ view'.shown = view.shown /\ view'.blocks = view.blocks
      /\ view'.phase = "in progress"
  BY <1>1, <1>3, <1>5, ResponsesReceivesPhase DEF PhaseKinds, PhaseAfter
<1>7. t.todo \in ConsumeSteps \cup {"fail"} /\ ~ItemsKnown
  BY <1>1 DEF ResponsesStage
<1>8. ~t.finished /\ (pc \notin {"closing", "returned"} => t.todo \in ConsumeSteps)
  BY <1>1, <1>7 DEF ResponsesBefore, Control, FlowOK, EndingOK, Places, ConsumeSteps, FinishSteps, ErrorSteps
<1>9. ~Over /\ ~Over'
  BY <1>2, <1>5, <1>7, <1>8 DEF Over, Said, ConsumeSteps
<1>10. Moves(chunk)
  BY <1>1, <1>2, <1>5, <1>7 DEF Moves, SameFlags, Stays
<1>11. ShownOK'
  BY <1>1, <1>2, <1>5, <1>6, ShownKept DEF ResponsesBefore, Control, Responses, Gemini, Rest, upVars
<1>12. EndsOK'
  BY <1>1, <1>5, <1>6, <1>9, EndsStay DEF ResponsesBefore
<1>13. ResponsesOK'
  <2>1. ResponsesStage'
    BY <1>1, <1>2, <1>5, <1>7, <1>8 DEF ResponsesStage, ItemsKnown, ConsumeSteps, FinishSteps, Rest
  <2>2. ResponsesItems' /\ ResponsesData'
    <3>1. MessageStage' = MessageStage /\ \A x : CallStage(x)' = CallStage(x)
      BY <1>2, <1>5 DEF MessageStage, CallStage, Afterwards
    <3>2. ResponsesItems'
      BY <1>1, <1>2, <1>5, <1>6, <3>1 DEF ResponsesOK, ResponsesItems
    <3>3. ResponsesData'
      BY <1>1, <1>2, <1>5, <1>6 DEF ResponsesOK, ResponsesData
    <3> QED
      BY <3>2, <3>3
  <2>3. view'.phase = ResponsesPhase'
    BY <1>2, <1>5, <1>6, <1>7, <1>9 DEF ResponsesPhase, ConsumeSteps
  <2> QED
    BY <1>6, <2>1, <2>2, <2>3 DEF ResponsesOK
<1>14. StoredOK'
  <2>1. stored = NoData
    BY DEF ResponsesBefore, StoredOK
  <2> QED
    BY <1>2, <1>5, <1>7, <1>8, <2>1 DEF StoredOK, ConsumeSteps
<1>15. [ResponsesClient!ProtocolNext]_(ResponsesClient!protocolVars)
  <2>1. view.phase = "before" /\ Responses'
    BY <1>1, <1>2, <1>5, <1>7, <1>9 DEF ResponsesOK, ResponsesPhase, ConsumeSteps, Responses
  <2> QED
    BY <1>1, <1>6, <2>1, PhaseFrame
<1> QED
  BY <1>5, <1>6, <1>10, <1>11, <1>12, <1>13, <1>14, <1>15 DEF ResponsesAfter

\* An event about an item.
OpenSteps == ConsumeSteps \cup {"text done", "part done", "message done", "finish", "call done"}

ItemEvent(e, u) ==
  /\ Arrives(e, u) /\ t.started
  /\ e.kind \in ItemKinds /\ e.item \in Items /\ e.piece \in Piece
  /\ t.todo \in OpenSteps /\ u.todo \in {"idle"} \cup OpenSteps
  /\ u.protocol = t.protocol /\ u.started /\ u.finished = t.finished

ItemShown(e) ==
  /\ ViewTypes' /\ view'.frames = view.frames + 1 /\ view'.last = e.kind
  /\ view'.ends = view.ends /\ view.phase = "in progress" /\ view'.phase = "in progress"
  /\ view'.blocks = Extended(view.blocks, e.item, StageAfter(e.item, e.kind))
  /\ e.kind # "delta" => view'.shown = view.shown
  /\ e.kind = "delta" =>
       /\ view'.shown[e.item] = Append(view.shown[e.item], e.piece)
       /\ \A i \in Items : i # e.item => view'.shown[i] = view.shown[i]

LEMMA ItemArrives ==
  ASSUME ResponsesBefore, UNCHANGED Rest, NEW e, NEW u, ItemEvent(e, u)
  PROVE  /\ ItemShown(e) /\ EndsOK' /\ StoredOK' /\ view'.phase = ResponsesPhase'
         /\ Responses /\ Responses' /\ ~broken /\ ~broken' /\ t' = u /\ TranslatorTypes'
         /\ ~t.finished /\ pc # "closing" /\ pc # "returned"
<1>1. /\ ViewTypes /\ Responses /\ ~broken /\ ~broken' /\ UNCHANGED stored /\ t' = u
      /\ view' = Receive(view, e) /\ broken' \in BOOLEAN /\ TranslatorTypes' /\ EndsOK
  BY DEF ResponsesBefore, ItemEvent, Arrives
<1>2. /\ ViewTypes' /\ view'.frames = view.frames + 1 /\ view'.last = e.kind
      /\ view'.ends = view.ends /\ view'.phase = view.phase
      /\ view'.blocks = Extended(view.blocks, e.item, StageAfter(e.item, e.kind))
      /\ e.kind # "delta" => view'.shown = view.shown
      /\ e.kind = "delta" =>
           /\ view'.shown[e.item] = Append(view.shown[e.item], e.piece)
           /\ \A i \in Items : i # e.item => view'.shown[i] = view.shown[i]
  BY <1>1, ResponsesReceivesItem DEF ItemEvent
<1>3. t.todo \in ConsumeSteps \cup (FinishSteps \ {"completed", "done"})
  BY DEF ItemEvent, OpenSteps, FinishSteps
<1>4. /\ ~t.finished /\ outcome = "none" /\ ~Over /\ stored = NoData
      /\ pc # "closing" /\ pc # "returned" /\ view.phase = "in progress"
  BY <1>1, <1>3, NotOver DEF ItemEvent
<1>5. ItemShown(e)
  BY <1>2, <1>4 DEF ItemShown
<1>6. ~t'.finished /\ t'.started /\ t'.todo \in {"idle"} \cup OpenSteps /\ outcome' = "none"
  BY <1>1, <1>4 DEF ItemEvent, Rest
<1>7. ~Over'
  BY <1>6 DEF Over, Said
<1>8. EndsOK'
  BY <1>1, <1>2, <1>4, <1>7, EndsStay
<1>9. StoredOK'
  BY <1>1, <1>4, <1>6 DEF StoredOK, OpenSteps, ConsumeSteps
<1>10. view'.phase = ResponsesPhase'
  BY <1>2, <1>4, <1>6, <1>7 DEF ResponsesPhase, OpenSteps, ConsumeSteps
<1>11. Responses'
  BY <1>1 DEF Responses, ItemEvent
<1> QED
  BY <1>1, <1>4, <1>5, <1>8, <1>9, <1>10, <1>11

LEMMA ItemDone ==
  ASSUME ResponsesBefore, UNCHANGED Rest, NEW e, NEW u, ItemEvent(e, u), NEW chunk,
         Moves(chunk), ShownOK', ResponsesStage', ResponsesItems', ResponsesData',
         ResponsesClient!ProtocolNext
  PROVE  ResponsesAfter(chunk)
<1>1. ItemShown(e) /\ EndsOK' /\ StoredOK' /\ view'.phase = ResponsesPhase' /\ TranslatorTypes'
  BY ItemArrives
<1>2. view'.last # "response.failed" /\ ViewTypes'
  BY <1>1 DEF ItemShown, ItemEvent, ItemKinds
<1>3. ResponsesOK'
  BY <1>1, <1>2 DEF ResponsesOK
<1> QED
  BY <1>1, <1>2, <1>3 DEF ResponsesAfter

\* The message is no call.
LEMMA TextIsNoCall ==
  ASSUME TranslatorTypes
  PROVE  TextItem \notin DOMAIN t.calls /\ TextItem \notin Tools
<1>1. TextItem \notin Tools
  BY ToolsAssumption DEF TextItem
<1> QED
  BY <1>1 DEF TranslatorTypes, CallsTyped

Puts(C, B, i, stage) ==
  /\ DOMAIN C = DOMAIN B \cup {i}
  /\ C[i] = stage
  /\ \A y \in DOMAIN B : y # i => C[y] = B[y]

LEMMA ExtendedBlocks ==
  ASSUME NEW B, NEW i, NEW stage
  PROVE  Puts(Extended(B, i, stage), B, i, stage)
BY DEF Extended, Puts

\* The message item is added.
LEMMA ItemAdds ==
  ASSUME ResponsesBefore, NEW chunk, UNCHANGED Rest, At("text"), ~t.messageStarted,
         messageEvent("item added", [t EXCEPT !.messageStarted = TRUE])
  PROVE  Fails \/ ResponsesAfter(chunk)
<1> DEFINE e == Mark("item added")
           u == [t EXCEPT !.messageStarted = TRUE]
<1>1. /\ IsTranslator(t) /\ TranslatorTypes /\ Responses /\ ViewTypes /\ ResponsesStage
      /\ t.todo = "text" /\ ResponsesOK /\ ReaderOK /\ ShownOK
  BY DEF ResponsesBefore, TranslatorTypes, ResponsesOK, At, Control
<1>2. /\ IsTranslator(u) /\ u.calls = t.calls /\ u.left = t.left /\ u.protocol = t.protocol
      /\ u.started = t.started /\ u.todo = t.todo /\ u.at = t.at /\ u.finished = t.finished
      /\ u.hasContent = t.hasContent /\ u.messageStarted
      /\ u.contentStarted = t.contentStarted /\ u.text = t.text
  BY <1>1 DEF IsTranslator
<1>3. Knows(u) /\ emitEvent(e, u)
  BY <1>1, <1>2, SameCallsTyped DEF Knows, messageEvent
<1>4. e.kind = "item added" /\ e.item = TextItem /\ e.item \in Items /\ e.piece \in Piece
  BY DEF Mark, Event, NoPiece, Piece, Items
<1> HIDE DEF e, u
<1>5. CASE Fails \/ (~t.started /\ Arrives(Mark("response.created"), [t EXCEPT !.started = TRUE]))
  BY <1>1, <1>5, ResponsesCreates DEF ConsumeSteps
<1>6. CASE t.started /\ Arrives(e, u)
  <2>1. ItemEvent(e, u)
    BY <1>1, <1>2, <1>4, <1>6 DEF ItemEvent, ItemKinds, OpenSteps, ConsumeSteps
  <2>2. /\ ItemShown(e) /\ Responses /\ Responses' /\ ~broken /\ ~broken' /\ t' = u
        /\ TranslatorTypes' /\ ~t.finished /\ pc # "closing" /\ pc # "returned"
    BY <2>1, ItemArrives
  <2>3. ResponsesItems /\ ResponsesData
    BY <1>1, <2>2 DEF ResponsesOK
  <2>4. TextItem \notin DOMAIN t.calls
    BY <1>1, TextIsNoCall
  <2>5. /\ view'.blocks = Extended(view.blocks, TextItem, "added") /\ view'.shown = view.shown
        /\ ViewTypes'
    BY <1>4, <2>2 DEF ItemShown, StageAfter
  <2>6. Puts(view'.blocks, view.blocks, TextItem, "added")
    BY <2>5, ExtendedBlocks
  <2>7. Moves(chunk)
    BY <1>1, <1>2, <2>2 DEF Moves, SameFlags, Stays, ConsumeSteps
  <2>8. ShownOK'
    BY <1>1, <1>2, <2>2, <2>5, ShownKept DEF Responses, Gemini, Rest, upVars
  <2>9. ResponsesStage'
    BY <1>1, <1>2, <2>2, <1>6 DEF ResponsesStage, ItemsKnown, ConsumeSteps, FinishSteps, Rest
  <2>10. ResponsesItems'
    <3>1. MessageStage' = "added"
      BY <1>1, <1>2, <2>2 DEF MessageStage, ResponsesStage
    <3>2. \A x : CallStage(x)' = CallStage(x)
      BY <1>2, <2>2 DEF CallStage, Afterwards
    <3> QED
      BY <1>2, <2>2, <2>3, <2>4, <2>6, <3>1, <3>2 DEF ResponsesItems, Puts
  <2>11. ResponsesData'
    BY <1>2, <2>2, <2>3, <2>5 DEF ResponsesData
  <2>12. ResponsesClient!ProtocolNext
    <3>1. TextItem \notin DOMAIN view.blocks
      BY <2>3, <2>4 DEF ResponsesItems
    <3> QED
      BY <1>4, <2>2, <3>1, ItemAddedFrame DEF ItemShown
  <2> QED
    BY <2>1, <2>7, <2>8, <2>9, <2>10, <2>11, <2>12, ItemDone
<1> QED
  BY <1>3, <1>5, <1>6, ResponsesWrites

\* Its part is added.
LEMMA PartAdds ==
  ASSUME ResponsesBefore, NEW chunk, UNCHANGED Rest, At("text"), t.messageStarted, ~t.contentStarted,
         messageEvent("part added", [t EXCEPT !.contentStarted = TRUE])
  PROVE  Fails \/ ResponsesAfter(chunk)
<1> DEFINE e == Mark("part added")
           u == [t EXCEPT !.contentStarted = TRUE]
<1>1. /\ IsTranslator(t) /\ TranslatorTypes /\ Responses /\ ViewTypes /\ ResponsesStage
      /\ t.todo = "text" /\ ResponsesOK /\ ReaderOK /\ ShownOK
  BY DEF ResponsesBefore, TranslatorTypes, ResponsesOK, At, Control
<1>2. /\ IsTranslator(u) /\ u.calls = t.calls /\ u.left = t.left /\ u.protocol = t.protocol
      /\ u.started = t.started /\ u.todo = t.todo /\ u.at = t.at /\ u.finished = t.finished
      /\ u.hasContent = t.hasContent /\ u.messageStarted = t.messageStarted
      /\ u.contentStarted /\ u.text = t.text
  BY <1>1 DEF IsTranslator
<1>3. Knows(u) /\ emitEvent(e, u)
  BY <1>1, <1>2, SameCallsTyped DEF Knows, messageEvent
<1>4. e.kind = "part added" /\ e.item = TextItem /\ e.item \in Items /\ e.piece \in Piece
  BY DEF Mark, Event, NoPiece, Piece, Items
<1> HIDE DEF e, u
<1>5. CASE Fails \/ (~t.started /\ Arrives(Mark("response.created"), [t EXCEPT !.started = TRUE]))
  BY <1>1, <1>5, ResponsesCreates DEF ConsumeSteps
<1>6. CASE t.started /\ Arrives(e, u)
  <2>1. ItemEvent(e, u)
    BY <1>1, <1>2, <1>4, <1>6 DEF ItemEvent, ItemKinds, OpenSteps, ConsumeSteps
  <2>2. /\ ItemShown(e) /\ Responses /\ Responses' /\ ~broken /\ ~broken' /\ t' = u
        /\ TranslatorTypes' /\ ~t.finished /\ pc # "closing" /\ pc # "returned"
    BY <2>1, ItemArrives
  <2>3. ResponsesItems /\ ResponsesData
    BY <1>1, <2>2 DEF ResponsesOK
  <2>4. TextItem \notin DOMAIN t.calls
    BY <1>1, TextIsNoCall
  <2>5. /\ view'.blocks = Extended(view.blocks, TextItem, "open") /\ view'.shown = view.shown
        /\ ViewTypes'
    BY <1>4, <2>2 DEF ItemShown, StageAfter
  <2>6. Puts(view'.blocks, view.blocks, TextItem, "open")
    BY <2>5, ExtendedBlocks
  <2>7. Moves(chunk)
    BY <1>1, <1>2, <2>2 DEF Moves, SameFlags, Stays, ConsumeSteps
  <2>8. ShownOK'
    BY <1>1, <1>2, <2>2, <2>5, ShownKept DEF Responses, Gemini, Rest, upVars
  <2>9. ResponsesStage'
    BY <1>1, <1>2, <2>2, <1>6 DEF ResponsesStage, ItemsKnown, ConsumeSteps, FinishSteps, Rest
  <2>10. ResponsesItems'
    <3>1. MessageStage' = "open"
      BY <1>1, <1>2, <2>2 DEF MessageStage, Afterwards
    <3>2. \A x : CallStage(x)' = CallStage(x)
      BY <1>2, <2>2 DEF CallStage, Afterwards
    <3> QED
      BY <1>2, <2>2, <2>3, <2>4, <2>6, <3>1, <3>2 DEF ResponsesItems, Puts
  <2>11. ResponsesData'
    BY <1>2, <2>2, <2>3, <2>5 DEF ResponsesData
  <2>12. ResponsesClient!ProtocolNext
    <3>1. TextItem \in DOMAIN view.blocks /\ view.blocks[TextItem] = "added"
      BY <2>3 DEF ResponsesItems, MessageStage
    <3> QED
      BY <1>1, <1>4, <2>2, <3>1, StageFrame DEF ItemShown, ItemKinds
  <2> QED
    BY <2>1, <2>7, <2>8, <2>9, <2>10, <2>11, <2>12, ItemDone
<1> QED
  BY <1>3, <1>5, <1>6, ResponsesWrites

\* A piece of text goes to the message.
LEMMA TextAdds ==
  ASSUME ResponsesBefore, UNCHANGED Rest, At("text"), outputTextDelta(chunks[t.at[1]])
  PROVE  Fails \/ ResponsesAfter(chunks[t.at[1]])
<1> DEFINE chunk == chunks[t.at[1]]
           e == Event("delta", TextItem, 0, t.at)
           text == Append(t.text, t.at)
           t1 == [t EXCEPT !.text = text]
           u == Onward(t1, chunk)
<1>1. /\ IsTranslator(t) /\ TranslatorTypes /\ Responses /\ ViewTypes /\ ResponsesStage
      /\ t.todo = "text" /\ ResponsesOK /\ ReaderOK /\ ShownOK /\ PlaceOK /\ t.contentStarted
  BY DEF ResponsesBefore, TranslatorTypes, ResponsesOK, At, Control, outputTextDelta
<1>2. text \in Seq(Piece) /\ t.at \in Piece
  BY <1>1 DEF IsTranslator
<1>g. emitEvent(e, u)
  BY DEF outputTextDelta
<1> HIDE DEF text
<1>3. IsTranslator(t1) /\ t1.text = text /\ t1.at = t.at /\ t1 = [t EXCEPT !.text = t1.text]
  BY <1>1, <1>2 DEF IsTranslator
<1> HIDE DEF t1
<1>4. IsTranslator(u) /\ u = [t1 EXCEPT !.todo = u.todo, !.at = u.at] /\ u.todo \in {"idle", "tools"}
  BY <1>3, OnwardTyped
<1>5. u.todo = Onward(t, chunk).todo /\ u.at = Onward(t, chunk).at
  BY <1>1, <1>3, OnwardFields
<1> HIDE DEF u
<1>f. /\ t1.calls = t.calls /\ t1.left = t.left /\ t1.protocol = t.protocol /\ t1.started = t.started
      /\ t1.finished = t.finished /\ t1.hasContent = t.hasContent
      /\ t1.messageStarted = t.messageStarted /\ t1.contentStarted = t.contentStarted
  BY <1>1, <1>3 DEF IsTranslator
<1>6. /\ u.calls = t.calls /\ u.left = t.left /\ u.protocol = t.protocol /\ u.started = t.started
      /\ u.finished = t.finished /\ u.hasContent = t.hasContent
      /\ u.messageStarted = t.messageStarted /\ u.contentStarted = t.contentStarted
      /\ u.text = text
  BY <1>f, <1>3, <1>4 DEF IsTranslator
<1>7. Knows(u) /\ t.messageStarted /\ t.started
  BY <1>1, <1>4, <1>6, SameCallsTyped DEF Knows, ResponsesStage, ItemsKnown
<1>8. e.kind = "delta" /\ e.item = TextItem /\ e.item \in Items /\ e.piece = t.at /\ e.piece \in Piece
  BY <1>2 DEF Event, Items
<1> HIDE DEF e
<1>9. CASE t.started /\ Arrives(e, u)
  <2>1. ItemEvent(e, u)
    BY <1>1, <1>4, <1>6, <1>8, <1>9 DEF ItemEvent, ItemKinds, OpenSteps, ConsumeSteps
  <2>2. /\ ItemShown(e) /\ Responses /\ Responses' /\ ~broken /\ ~broken' /\ t' = u
        /\ TranslatorTypes' /\ ~t.finished /\ pc # "closing" /\ pc # "returned"
    BY <2>1, ItemArrives
  <2>3. ResponsesItems /\ ResponsesData
    BY <1>1, <2>2 DEF ResponsesOK
  <2>4. TextItem \notin DOMAIN t.calls
    BY <1>1, TextIsNoCall
  <2>5. /\ view'.blocks = Extended(view.blocks, TextItem, "open") /\ ViewTypes'
        /\ view'.shown[TextItem] = Append(view.shown[TextItem], t.at)
        /\ \A i \in Items : i # TextItem => view'.shown[i] = view.shown[i]
    BY <1>8, <2>2 DEF ItemShown, StageAfter
  <2>6. Puts(view'.blocks, view.blocks, TextItem, "open")
    BY <2>5, ExtendedBlocks
  <2>d. Advances(chunk)
    BY <1>1, <1>5, <1>6, <2>2 DEF Advances, ConsumeSteps
  <2>7. Moves(chunk)
    BY <1>6, <2>2, <2>d DEF Moves, SameFlags
  <2>8. ShownOK'
    <3>1. \A item : Carries(item, t.at[1], t.at[2]) <=> item = TextItem
      BY <1>1, <2>2, PieceOfItem DEF ConsumeSteps
    <3>2. \A item \in Items :
            view'.shown[item] = IF Carries(item, t.at[1], t.at[2])
                                THEN Append(view.shown[item], t.at) ELSE view.shown[item]
      <4> SUFFICES ASSUME NEW item \in Items
                   PROVE  view'.shown[item] = IF Carries(item, t.at[1], t.at[2])
                            THEN Append(view.shown[item], t.at) ELSE view.shown[item]
        OBVIOUS
      <4>1. CASE item = TextItem
        BY <2>5, <3>1, <4>1
      <4>2. CASE item # TextItem
        BY <2>5, <3>1, <4>2
      <4> QED
        BY <4>1, <4>2
    <3>3. ~Gemini /\ UNCHANGED chunks /\ t.todo \in ConsumeSteps
      BY <1>1 DEF Responses, Gemini, Rest, upVars, ConsumeSteps
    <3>4. t'.protocol = t.protocol /\ t'.started
      BY <1>6, <1>7, <2>2
    <3> QED
      BY <1>1, <2>2, <2>5, <2>d, <3>2, <3>3, <3>4, ShownTaken
  <2>9. ResponsesStage'
    BY <1>1, <1>4, <1>6, <1>7, <2>2 DEF ResponsesStage, ItemsKnown, ConsumeSteps, FinishSteps, Rest
  <2>10. ResponsesItems'
    <3>1. MessageStage' = "open"
      BY <1>1, <1>4, <1>6, <2>2 DEF MessageStage, Afterwards
    <3>2. \A x : CallStage(x)' = CallStage(x)
      BY <1>1, <1>4, <1>6, <2>2 DEF CallStage, Afterwards
    <3> QED
      BY <1>6, <1>7, <2>2, <2>3, <2>4, <2>6, <3>1, <3>2 DEF ResponsesItems, Puts
  <2>11. ResponsesData'
    <3>1. t'.text = view'.shown[TextItem]
      BY <1>6, <2>2, <2>3, <2>5 DEF ResponsesData, text
    <3>2. \A x \in Tools : view'.shown[x] = view.shown[x]
      BY <1>1, <2>5, TextIsNoCall DEF Items
    <3> QED
      BY <1>6, <2>2, <2>3, <3>1, <3>2 DEF ResponsesData
  <2>12. ResponsesClient!ProtocolNext
    <3>1. TextItem \in DOMAIN view.blocks /\ view.blocks[TextItem] = "open"
      BY <1>1, <1>7, <2>2, <2>3 DEF ResponsesItems, MessageStage, Afterwards
    <3> QED
      BY <1>1, <1>8, <2>2, <3>1, StageFrame DEF ItemShown, ItemKinds
  <2> QED
    BY <2>1, <2>7, <2>8, <2>9, <2>10, <2>11, <2>12, ItemDone
<1> QED
  BY <1>7, <1>9, <1>g, ResponsesWrites

\* A call is opened.
LEMMA CallOpens ==
  ASSUME ResponsesBefore, NEW chunk, UNCHANGED Rest, At("tools"), NEW tool \in Tools, openCall(tool)
  PROVE  Fails \/ ResponsesAfter(chunk)
<1> DEFINE e == Event("item added", tool, nextFunctionOutputIndex, NoPiece)
           call == [index |-> nextFunctionOutputIndex, args |-> <<>>]
           C == Extended(t.calls, tool, call)
           u == [t EXCEPT !.calls = C]
<1>1. /\ IsTranslator(t) /\ TranslatorTypes /\ Responses /\ ViewTypes /\ ResponsesStage
      /\ t.todo = "tools" /\ ResponsesOK /\ ReaderOK /\ ShownOK /\ tool \notin DOMAIN t.calls
  BY DEF ResponsesBefore, TranslatorTypes, ResponsesOK, At, Control, openCall
<1>g. emitEvent(e, u)
  BY DEF openCall
<1>c. IsCall("responses", call) /\ call.args = <<>>
  BY DEF IsCall
<1> HIDE DEF C
<1>2. /\ IsTranslator(u) /\ u.calls = C /\ u.left = t.left /\ u.protocol = t.protocol
      /\ u.started = t.started /\ u.todo = t.todo /\ u.at = t.at /\ u.finished = t.finished
      /\ u.hasContent = t.hasContent /\ u.messageStarted = t.messageStarted
      /\ u.contentStarted = t.contentStarted /\ u.text = t.text
  BY <1>1 DEF IsTranslator
<1>4. e.kind = "item added" /\ e.item = tool /\ e.item \in Items /\ e.piece \in Piece
  BY DEF Event, NoPiece, Piece, Items
<1> HIDE DEF e, u, call
<1>d. Puts(C, t.calls, tool, call)
  BY ExtendedBlocks DEF C
<1>e. CallsTyped(u)
  <2>1. u.calls = Extended(t.calls, tool, call) /\ IsCall(t.protocol, call)
    BY <1>1, <1>2, <1>c DEF C, Responses
  <2> QED
    BY <1>1, <1>2, <2>1, ExtendedTyped
<1>3. Knows(u)
  BY <1>1, <1>2, <1>d, <1>e DEF Knows, ResponsesStage, Puts
<1>5. CASE Fails \/ (~t.started /\ Arrives(Mark("response.created"), [t EXCEPT !.started = TRUE]))
  BY <1>1, <1>5, ResponsesCreates DEF ConsumeSteps
<1>6. CASE t.started /\ Arrives(e, u)
  <2>1. ItemEvent(e, u)
    BY <1>1, <1>2, <1>4, <1>6 DEF ItemEvent, ItemKinds, OpenSteps, ConsumeSteps
  <2>2. /\ ItemShown(e) /\ Responses /\ Responses' /\ ~broken /\ ~broken' /\ t' = u
        /\ TranslatorTypes' /\ ~t.finished /\ pc # "closing" /\ pc # "returned"
    BY <2>1, ItemArrives
  <2>3. ResponsesItems /\ ResponsesData
    BY <1>1, <2>2 DEF ResponsesOK
  <2>4. TextItem \notin DOMAIN t.calls /\ TextItem # tool
    BY <1>1, TextIsNoCall
  <2>5. /\ view'.blocks = Extended(view.blocks, tool, "open") /\ view'.shown = view.shown
        /\ ViewTypes'
    BY <1>4, <2>2, <2>4 DEF ItemShown, StageAfter
  <2>6. Puts(view'.blocks, view.blocks, tool, "open")
    BY <2>5, ExtendedBlocks
  <2>7. Moves(chunk)
    BY <1>1, <1>2, <2>2 DEF Moves, SameFlags, Stays, ConsumeSteps
  <2>8. ShownOK'
    BY <1>1, <1>2, <2>2, <2>5, ShownKept DEF Responses, Gemini, Rest, upVars
  <2>9. ResponsesStage'
    BY <1>1, <1>2, <1>d, <2>2, <1>6 DEF ResponsesStage, ItemsKnown, ConsumeSteps, FinishSteps, Rest, Puts
  <2>10. ResponsesItems'
    <3>1. MessageStage' = MessageStage
      BY <1>1, <1>2, <2>2 DEF MessageStage, Afterwards
    <3>2. \A x : CallStage(x)' = "open" /\ CallStage(x) = "open"
      BY <1>1, <1>2, <2>2 DEF CallStage, Afterwards
    <3>3. DOMAIN view'.blocks = DOMAIN t'.calls \cup (IF t'.messageStarted THEN {TextItem} ELSE {})
      BY <1>2, <1>d, <2>2, <2>3, <2>6 DEF ResponsesItems, Puts
    <3>4. t'.messageStarted => view'.blocks[TextItem] = MessageStage'
      BY <1>2, <2>2, <2>3, <2>4, <2>6, <3>1 DEF ResponsesItems, Puts
    <3>5. \A x \in DOMAIN t'.calls : view'.blocks[x] = CallStage(x)'
      BY <1>2, <1>d, <2>2, <2>3, <2>6, <3>2 DEF ResponsesItems, Puts
    <3> QED
      BY <3>3, <3>4, <3>5 DEF ResponsesItems
  <2>11. ResponsesData'
    <3>1. ASSUME NEW x \in Tools
          PROVE  view'.shown[x] = IF x \in DOMAIN t'.calls THEN t'.calls[x].args ELSE <<>>
      <4>1. CASE x = tool
        BY <1>1, <1>2, <1>c, <1>d, <2>2, <2>3, <2>5, <4>1 DEF ResponsesData, Puts
      <4>2. CASE x # tool
        BY <1>2, <1>d, <2>2, <2>3, <2>5, <4>2 DEF ResponsesData, Puts
      <4> QED
        BY <4>1, <4>2
    <3> QED
      BY <1>2, <2>2, <2>3, <2>5, <3>1 DEF ResponsesData
  <2>12. ResponsesClient!ProtocolNext
    <3>1. tool \notin DOMAIN view.blocks
      BY <1>1, <2>3, <2>4 DEF ResponsesItems
    <3> QED
      BY <1>4, <2>2, <3>1, ItemAddedFrame DEF ItemShown
  <2> QED
    BY <2>1, <2>7, <2>8, <2>9, <2>10, <2>11, <2>12, ItemDone
<1> QED
  BY <1>3, <1>g, <1>5, <1>6, ResponsesWrites

LEMMA CallRecord ==
  ASSUME NEW c, NEW index, NEW args \in Seq(Piece), c = [index |-> index, args |-> args]
  PROVE  c.args = args /\ IsCall("responses", c)
BY DEF IsCall

\* A piece of arguments goes to its call.
LEMMA ArgumentsAdd ==
  ASSUME ResponsesBefore, UNCHANGED Rest, At("tools"),
         NEW tool, tool = Fragment(chunks[t.at[1]]).tool,
         argumentsDelta(chunks[t.at[1]], tool), Fragment(chunks[t.at[1]]).args
  PROVE  Fails \/ ResponsesAfter(chunks[t.at[1]])
<1> DEFINE chunk == chunks[t.at[1]]
           e == Event("delta", tool, t.calls[tool].index, t.at)
           args == Append(t.calls[tool].args, t.at)
           C == [t.calls EXCEPT ![tool].args = args]
           t1 == [t EXCEPT !.calls = C]
           u == Onward(t1, chunk)
<1>1. /\ IsTranslator(t) /\ TranslatorTypes /\ Responses /\ ViewTypes /\ ResponsesStage
      /\ t.todo = "tools" /\ ResponsesOK /\ ReaderOK /\ ShownOK /\ PlaceOK /\ CallsTyped(t)
      /\ BrokenOK /\ tool \in DOMAIN t.calls
  BY DEF ResponsesBefore, TranslatorTypes, ResponsesOK, At, Control, argumentsDelta
<1>a. tool \in Tools /\ tool \in DOMAIN t.calls /\ t.at \in Piece
  BY <1>1 DEF CallsTyped, IsTranslator
<1>b. t.calls[tool] = [index |-> t.calls[tool].index, args |-> t.calls[tool].args]
      /\ t.calls[tool].args \in Seq(Piece)
  BY <1>1, <1>a DEF CallsTyped, IsCall, Responses
<1>c. args \in Seq(Piece)
  <2>1. t.calls[tool].args \in Seq(Piece) /\ t.at \in Piece
    BY <1>a, <1>b
  <2> QED
    BY <2>1
<1>g. emitEvent(e, u)
  BY DEF argumentsDelta
<1> HIDE DEF args
<1>d. /\ C = [x \in DOMAIN C |-> C[x]] /\ DOMAIN C = DOMAIN t.calls
      /\ C[tool].args = args /\ IsCall("responses", C[tool])
      /\ \A x \in DOMAIN t.calls : x # tool => C[x] = t.calls[x]
  <2>1. C = [x \in DOMAIN C |-> C[x]] /\ DOMAIN C = DOMAIN t.calls
        /\ \A x \in DOMAIN t.calls : x # tool => C[x] = t.calls[x]
    BY <1>1, <1>a DEF CallsTyped
  <2>2. C[tool] = [index |-> t.calls[tool].index, args |-> args]
    BY <1>a, <1>b
  <2>3. C[tool].args = args /\ IsCall("responses", C[tool])
    BY <1>c, <2>2, CallRecord
  <2> QED
    BY <2>1, <2>3
<1> HIDE DEF C
<1>3. IsTranslator(t1) /\ t1.calls = C /\ t1.at = t.at /\ t1 = [t EXCEPT !.calls = t1.calls]
  BY <1>1 DEF IsTranslator
<1>e. /\ t1.text = t.text /\ t1.left = t.left /\ t1.protocol = t.protocol /\ t1.started = t.started
      /\ t1.finished = t.finished /\ t1.hasContent = t.hasContent
      /\ t1.messageStarted = t.messageStarted /\ t1.contentStarted = t.contentStarted
  BY <1>1 DEF IsTranslator
<1> HIDE DEF t1
<1>4. IsTranslator(u) /\ u = [t1 EXCEPT !.todo = u.todo, !.at = u.at] /\ u.todo \in {"idle", "tools"}
  BY <1>3, OnwardTyped
<1>5. u.todo = Onward(t, chunk).todo /\ u.at = Onward(t, chunk).at
  <2>1. IsTranslator(t) /\ IsTranslator(t1) /\ t1.at = t.at
    BY <1>1, <1>3
  <2> QED
    BY <2>1, OnwardFields
<1> HIDE DEF u
<1>6. /\ u.calls = C /\ u.left = t.left /\ u.protocol = t.protocol /\ u.started = t.started
      /\ u.finished = t.finished /\ u.hasContent = t.hasContent
      /\ u.messageStarted = t.messageStarted /\ u.contentStarted = t.contentStarted
      /\ u.text = t.text
  BY <1>e, <1>3, <1>4 DEF IsTranslator
<1>f. CallsTyped(u)
  <2>1. DOMAIN t.calls \subseteq Tools /\ t.left \subseteq DOMAIN t.calls
        /\ \A x \in DOMAIN t.calls : IsCall("responses", t.calls[x])
    BY <1>1 DEF CallsTyped, Responses
  <2>2. \A x \in DOMAIN C : IsCall("responses", C[x])
    BY <1>d, <2>1
  <2>3. u.protocol = "responses"
    BY <1>1, <1>6 DEF Responses
  <2> QED
    BY <1>d, <1>6, <2>1, <2>2, <2>3 DEF CallsTyped
<1>7. Knows(u) /\ t.started
  BY <1>1, <1>a, <1>d, <1>f, <1>4, <1>6 DEF Knows, ResponsesStage, ItemsKnown
<1>8. e.kind = "delta" /\ e.item = tool /\ e.item \in Items /\ e.piece = t.at /\ e.piece \in Piece
  BY <1>a DEF Event, Items
<1> HIDE DEF e
<1>9. CASE t.started /\ Arrives(e, u)
  <2>1. ItemEvent(e, u)
    BY <1>1, <1>4, <1>6, <1>8, <1>9 DEF ItemEvent, ItemKinds, OpenSteps, ConsumeSteps
  <2>2. /\ ItemShown(e) /\ Responses /\ Responses' /\ ~broken /\ ~broken' /\ t' = u
        /\ TranslatorTypes' /\ ~t.finished /\ pc # "closing" /\ pc # "returned"
    BY <2>1, ItemArrives
  <2>3. ResponsesItems /\ ResponsesData
    BY <1>1, <2>2 DEF ResponsesOK
  <2>4. TextItem \notin DOMAIN t.calls /\ tool # TextItem
    BY <1>1, TextIsNoCall
  <2>5. /\ view'.blocks = Extended(view.blocks, tool, "open") /\ ViewTypes'
        /\ view'.shown[tool] = Append(view.shown[tool], t.at)
        /\ \A i \in Items : i # tool => view'.shown[i] = view.shown[i]
    BY <1>8, <2>2 DEF ItemShown, StageAfter
  <2>6. Puts(view'.blocks, view.blocks, tool, "open")
    BY <2>5, ExtendedBlocks
  <2>d. Advances(chunk)
    BY <1>1, <1>5, <1>6, <2>2 DEF Advances, ConsumeSteps
  <2>7. Moves(chunk)
    BY <1>6, <2>2, <2>d DEF Moves, SameFlags
  <2>8. ShownOK'
    <3>1. \A item : Carries(item, t.at[1], t.at[2]) <=> item = tool
      BY <1>1, <2>2, PieceOfItem DEF ConsumeSteps
    <3>2. \A item \in Items :
            view'.shown[item] = IF Carries(item, t.at[1], t.at[2])
                                THEN Append(view.shown[item], t.at) ELSE view.shown[item]
      <4> SUFFICES ASSUME NEW item \in Items
                   PROVE  view'.shown[item] = IF Carries(item, t.at[1], t.at[2])
                            THEN Append(view.shown[item], t.at) ELSE view.shown[item]
        OBVIOUS
      <4>1. CASE item = tool
        BY <2>5, <3>1, <4>1
      <4>2. CASE item # tool
        BY <2>5, <3>1, <4>2
      <4> QED
        BY <4>1, <4>2
    <3>3. ~Gemini /\ UNCHANGED chunks /\ t.todo \in ConsumeSteps
      BY <1>1 DEF Responses, Gemini, Rest, upVars, ConsumeSteps
    <3>4. t'.protocol = t.protocol /\ t'.started
      BY <1>6, <1>7, <2>2
    <3> QED
      BY <1>1, <2>2, <2>5, <2>d, <3>2, <3>3, <3>4, ShownTaken
  <2>9. ResponsesStage'
    BY <1>1, <1>a, <1>d, <1>4, <1>6, <1>7, <2>2 DEF ResponsesStage, ItemsKnown, ConsumeSteps, FinishSteps, Rest
  <2>10. ResponsesItems'
    <3>1. MessageStage' = MessageStage
      BY <1>1, <1>4, <1>6, <2>2 DEF MessageStage, Afterwards
    <3>2. \A x : CallStage(x)' = "open" /\ CallStage(x) = "open"
      BY <1>1, <1>4, <1>6, <2>2 DEF CallStage, Afterwards
    <3>3. DOMAIN view'.blocks = DOMAIN t'.calls \cup (IF t'.messageStarted THEN {TextItem} ELSE {})
      BY <1>a, <1>6, <1>d, <2>2, <2>3, <2>6 DEF ResponsesItems, Puts
    <3>4. t'.messageStarted => view'.blocks[TextItem] = MessageStage'
      BY <1>6, <2>2, <2>3, <2>4, <2>6, <3>1 DEF ResponsesItems, Puts
    <3>5. \A x \in DOMAIN t'.calls : view'.blocks[x] = CallStage(x)'
      BY <1>6, <1>d, <2>2, <2>3, <2>6, <3>2 DEF ResponsesItems, Puts
    <3> QED
      BY <3>3, <3>4, <3>5 DEF ResponsesItems
  <2>11. ResponsesData'
    <3>1. ASSUME NEW x \in Tools
          PROVE  view'.shown[x] = IF x \in DOMAIN t'.calls THEN t'.calls[x].args ELSE <<>>
      <4>1. CASE x = tool
        BY <1>a, <1>6, <1>d, <2>2, <2>3, <2>5, <4>1 DEF ResponsesData, args
      <4>2. CASE x # tool
        <5>1. view'.shown[x] = view.shown[x]
          BY <2>5, <4>2 DEF Items
        <5> QED
          BY <1>6, <1>d, <2>2, <2>3, <5>1, <4>2 DEF ResponsesData
      <4> QED
        BY <4>1, <4>2
    <3>2. view'.shown[TextItem] = view.shown[TextItem]
      BY <2>4, <2>5 DEF Items
    <3> QED
      BY <1>6, <2>2, <2>3, <3>1, <3>2 DEF ResponsesData
  <2>12. ResponsesClient!ProtocolNext
    <3>1. tool \in DOMAIN view.blocks /\ view.blocks[tool] = "open"
      BY <1>1, <1>a, <2>2, <2>3 DEF ResponsesItems, CallStage, Afterwards
    <3> QED
      BY <1>1, <1>8, <2>2, <3>1, StageFrame DEF ItemShown, ItemKinds
  <2> QED
    BY <2>1, <2>7, <2>8, <2>9, <2>10, <2>11, <2>12, ItemDone
<1> QED
  BY <1>7, <1>9, <1>g, ResponsesWrites

\* A fragment without arguments is passed over.
LEMMA ArgumentsSkip ==
  ASSUME ResponsesBefore, UNCHANGED Rest, At("tools"),
         Fragment(chunks[t.at[1]]).tool \in DOMAIN t.calls, ~Fragment(chunks[t.at[1]]).args,
         Silently(Onward(t, chunks[t.at[1]]))
  PROVE  ResponsesAfter(chunks[t.at[1]])
<1> DEFINE chunk == chunks[t.at[1]]
           u == Onward(t, chunk)
<1>1. /\ IsTranslator(t) /\ TranslatorTypes /\ Responses /\ ViewTypes /\ ResponsesStage
      /\ t.todo = "tools" /\ ResponsesOK /\ ReaderOK /\ ShownOK /\ PlaceOK /\ CallsTyped(t)
      /\ ~broken /\ EndsOK
  BY DEF ResponsesBefore, TranslatorTypes, ResponsesOK, At, Control, BrokenOK
<1>2. t' = u /\ UNCHANGED clientVars
  BY DEF Silently
<1>4. IsTranslator(u) /\ u = [t EXCEPT !.todo = u.todo, !.at = u.at] /\ u.todo \in {"idle", "tools"}
  BY <1>1, OnwardTyped
<1>d. u.todo = Onward(t, chunk).todo /\ u.at = Onward(t, chunk).at
  OBVIOUS
<1> HIDE DEF u
<1>6. /\ u.calls = t.calls /\ u.left = t.left /\ u.protocol = t.protocol /\ u.started = t.started
      /\ u.finished = t.finished /\ u.hasContent = t.hasContent
      /\ u.messageStarted = t.messageStarted /\ u.contentStarted = t.contentStarted
      /\ u.text = t.text
  BY <1>1, <1>4 DEF IsTranslator
<1>7. TranslatorTypes' /\ ViewTypes' /\ ~broken' /\ UNCHANGED <<view, stored>> /\ Responses'
  BY <1>1, <1>2, <1>4, <1>6, SameCallsTyped DEF TranslatorTypes, ViewTypes, clientVars, Responses
<1>8. t.started
  BY <1>1 DEF ResponsesStage, ItemsKnown
<1>9. /\ ~t.finished /\ outcome = "none" /\ ~Over /\ stored = NoData
      /\ pc # "closing" /\ pc # "returned" /\ view.phase = "in progress"
  BY <1>1, <1>8, NotOver DEF ConsumeSteps
<1>10. ~Over'
  BY <1>2, <1>6, <1>9 DEF Over, Said, Rest
<1>11. Advances(chunk)
  BY <1>1, <1>d, <1>2, <1>6 DEF Advances, ConsumeSteps
<1>12. Moves(chunk)
  BY <1>1, <1>2, <1>6, <1>7, <1>11 DEF Moves, SameFlags
<1>13. ShownOK'
  <2>1. \A item : ~Carries(item, t.at[1], t.at[2])
    BY <1>1, PieceOfItem DEF ConsumeSteps
  <2>2. ~Gemini /\ UNCHANGED chunks /\ t.todo \in ConsumeSteps
    BY <1>1 DEF Responses, Gemini, Rest, upVars, ConsumeSteps
  <2>3. t'.protocol = t.protocol /\ t'.started
    BY <1>2, <1>6, <1>8
  <2> QED
    BY <1>1, <1>7, <1>11, <2>1, <2>2, <2>3, ShownTaken
<1>14. EndsOK'
  BY <1>1, <1>7, <1>9, <1>10, EndsStay
<1>15. ResponsesOK'
  <2>1. ResponsesStage'
    BY <1>1, <1>2, <1>4, <1>6, <1>8, <1>9 DEF ResponsesStage, ItemsKnown, ConsumeSteps, FinishSteps, Rest
  <2>2. MessageStage' = MessageStage /\ \A x : CallStage(x)' = CallStage(x)
    BY <1>1, <1>2, <1>4, <1>6 DEF MessageStage, CallStage, Afterwards
  <2>3. ResponsesItems'
    BY <1>1, <1>2, <1>6, <1>7, <2>2 DEF ResponsesOK, ResponsesItems
  <2>4. ResponsesData'
    BY <1>1, <1>2, <1>6, <1>7 DEF ResponsesOK, ResponsesData
  <2>5. view'.phase = ResponsesPhase'
    BY <1>2, <1>4, <1>6, <1>7, <1>8, <1>9, <1>10 DEF ResponsesPhase
  <2>6. view'.last # "response.failed"
    BY <1>1, <1>7 DEF ResponsesOK
  <2> QED
    BY <2>1, <2>3, <2>4, <2>5, <2>6 DEF ResponsesOK
<1>16. StoredOK'
  BY <1>2, <1>4, <1>6, <1>7, <1>9 DEF StoredOK
<1>17. UNCHANGED ResponsesClient!protocolVars
  BY <1>1, <1>7 DEF ResponsesClient!protocolVars, ViewOf, Responses
<1> QED
  BY <1>7, <1>12, <1>13, <1>14, <1>15, <1>16, <1>17 DEF ResponsesAfter

\* A step of the message's end.
Follows(step, kind, next) ==
  \/ step = "text done" /\ kind = "content done" /\ next = "part done"
  \/ step = "part done" /\ kind = "part done" /\ next = "message done"
  \/ step = "message done" /\ kind = "item done" /\ next = "finish"

LEMMA MessageFinishes ==
  ASSUME ResponsesBefore, NEW chunk, UNCHANGED Rest, NEW step, NEW kind, NEW next,
         Follows(step, kind, next), MessageDone(step, kind, next)
  PROVE  Fails \/ ResponsesAfter(chunk)
<1> DEFINE e == Mark(kind)
           u == [t EXCEPT !.todo = next]
<1>1. /\ IsTranslator(t) /\ TranslatorTypes /\ Responses /\ ViewTypes /\ ResponsesStage
      /\ t.todo = step /\ ResponsesOK /\ ReaderOK /\ ShownOK /\ emitEvent(e, u)
  BY DEF ResponsesBefore, TranslatorTypes, ResponsesOK, At, Control, MessageDone, messageEvent
<1>2. /\ IsTranslator(u) /\ u.calls = t.calls /\ u.left = t.left /\ u.protocol = t.protocol
      /\ u.started = t.started /\ u.todo = next /\ u.at = t.at /\ u.finished = t.finished
      /\ u.hasContent = t.hasContent /\ u.messageStarted = t.messageStarted
      /\ u.contentStarted = t.contentStarted /\ u.text = t.text
  BY <1>1 DEF IsTranslator, Follows, Steps, FinishSteps
<1>3. t.messageStarted /\ t.left = DOMAIN t.calls /\ t.started
  BY <1>1 DEF ResponsesStage, Follows, ItemsKnown
<1>4. Knows(u)
  BY <1>1, <1>2, <1>3, SameCallsTyped DEF Knows, ResponsesStage
<1>5. e.kind = kind /\ e.item = TextItem /\ e.item \in Items /\ e.piece \in Piece
  BY DEF Mark, Event, NoPiece, Piece, Items
<1> HIDE DEF e, u
<1>6. CASE t.started /\ Arrives(e, u)
  <2>1. ItemEvent(e, u)
    BY <1>1, <1>2, <1>5, <1>6 DEF ItemEvent, ItemKinds, OpenSteps, Follows
  <2>2. /\ ItemShown(e) /\ Responses /\ Responses' /\ ~broken /\ ~broken' /\ t' = u
        /\ TranslatorTypes' /\ ~t.finished /\ pc # "closing" /\ pc # "returned"
    BY <2>1, ItemArrives
  <2>3. ResponsesItems /\ ResponsesData
    BY <1>1, <2>2 DEF ResponsesOK
  <2>4. TextItem \notin DOMAIN t.calls
    BY <1>1, TextIsNoCall
  <2>5. /\ view'.blocks = Extended(view.blocks, TextItem, StageAfter(TextItem, kind))
        /\ view'.shown = view.shown /\ ViewTypes'
    BY <1>5, <2>2 DEF ItemShown, Follows
  <2>6. Puts(view'.blocks, view.blocks, TextItem, StageAfter(TextItem, kind))
    BY <2>5, ExtendedBlocks
  <2>c. t.contentStarted
    BY <1>1, <1>3, <2>2 DEF ResponsesStage, Follows
  <2>7. Moves(chunk)
    BY <1>1, <1>2, <2>2 DEF Moves, SameFlags, GoesOn, FinishSteps, Follows
  <2>8. ShownOK'
    BY <1>1, <1>2, <2>2, <2>5, ShownKept DEF Responses, Gemini, Rest, upVars
  <2>9. ResponsesStage'
    BY <1>1, <1>2, <1>3, <2>2, <2>c DEF ResponsesStage, ItemsKnown, ConsumeSteps, FinishSteps, Rest, Follows
  <2>10. ResponsesItems'
    <3>1. MessageStage' = StageAfter(TextItem, kind)
      BY <1>1, <1>2, <2>2, <2>c DEF MessageStage, Afterwards, StageAfter, Follows
    <3>2. \A x \in DOMAIN t.calls : CallStage(x)' = "open" /\ CallStage(x) = "open"
      BY <1>1, <1>2, <1>3, <2>2 DEF CallStage, Afterwards, Follows
    <3> QED
      BY <1>2, <1>3, <2>2, <2>3, <2>4, <2>6, <3>1, <3>2 DEF ResponsesItems, Puts
  <2>11. ResponsesData'
    BY <1>2, <2>2, <2>3, <2>5 DEF ResponsesData
  <2>12. ResponsesClient!ProtocolNext
    <3>1. TextItem \in DOMAIN view.blocks /\ view.blocks[TextItem] = MessageStage
      BY <1>3, <2>3 DEF ResponsesItems
    <3>2. \/ kind = "content done" /\ view.blocks[TextItem] = "open"
          \/ kind = "part done" /\ view.blocks[TextItem] = "filled"
          \/ kind = "item done" /\ view.blocks[TextItem] = "closed"
      BY <1>1, <2>2, <2>c, <3>1 DEF MessageStage, Afterwards, Follows
    <3>3. kind \in ItemKinds
      BY DEF Follows, ItemKinds
    <3> QED
      BY <1>1, <1>5, <2>2, <3>1, <3>2, <3>3, StageFrame DEF ItemShown
  <2> QED
    BY <2>1, <2>7, <2>8, <2>9, <2>10, <2>11, <2>12, ItemDone
<1> QED
  BY <1>1, <1>3, <1>4, <1>6, ResponsesWrites

\* The end of a call: its arguments, then the item.
EndsCall(tool, kind, u) ==
  /\ tool = Min(t.left)
  /\ \/ At("finish") /\ kind = "content done" /\ u = [t EXCEPT !.todo = "call done"]
     \/ /\ At("call done") /\ kind = "item done"
        /\ u = [t EXCEPT !.todo = "finish", !.left = @ \ {tool}]
  /\ emitEvent(Event(kind, tool, t.calls[tool].index, NoPiece), u)

LEMMA CallFinishes ==
  ASSUME ResponsesBefore, NEW chunk, UNCHANGED Rest, t.left # {}, NEW kind, NEW u,
         NEW tool, EndsCall(tool, kind, u)
  PROVE  Fails \/ ResponsesAfter(chunk)
<1> DEFINE e == Event(kind, tool, t.calls[tool].index, NoPiece)
           rest == IF t.todo = "finish" THEN t.left ELSE t.left \ {tool}
           next == IF t.todo = "finish" THEN "call done" ELSE "finish"
<1>1. /\ IsTranslator(t) /\ TranslatorTypes /\ Responses /\ ViewTypes /\ ResponsesStage
      /\ t.todo \in {"finish", "call done"} /\ ResponsesOK /\ ReaderOK /\ ShownOK /\ emitEvent(e, u)
      /\ CallsTyped(t) /\ tool = Min(t.left)
  BY DEF ResponsesBefore, TranslatorTypes, ResponsesOK, At, Control, EndsCall
<1>a. tool \in t.left /\ t.left \subseteq DOMAIN t.calls /\ DOMAIN t.calls \subseteq Tools
  <2>1. t.left \subseteq Nat
    BY <1>1, ToolsAssumption DEF CallsTyped
  <2> QED
    BY <1>1, <2>1, MinOf DEF CallsTyped
<1>b. kind = IF t.todo = "finish" THEN "content done" ELSE "item done"
  BY DEF At, EndsCall
<1>2. /\ IsTranslator(u) /\ u.calls = t.calls /\ u.left = rest /\ u.protocol = t.protocol
      /\ u.started = t.started /\ u.todo = next /\ u.at = t.at /\ u.finished = t.finished
      /\ u.hasContent = t.hasContent /\ u.messageStarted = t.messageStarted
      /\ u.contentStarted = t.contentStarted /\ u.text = t.text
  <2>1. CASE t.todo = "finish"
    <3>1. u = [t EXCEPT !.todo = "call done"]
      BY <2>1 DEF At, EndsCall
    <3> QED
      BY <1>1, <2>1, <3>1 DEF IsTranslator, Steps, FinishSteps
  <2>2. CASE t.todo = "call done"
    <3>1. u = [t EXCEPT !.todo = "finish", !.left = rest]
      BY <2>2 DEF At, EndsCall
    <3>2. rest \subseteq Tools
      BY <1>a
    <3> HIDE DEF rest
    <3> QED
      BY <1>1, <2>2, <3>1, <3>2 DEF IsTranslator, Steps, FinishSteps
  <2> QED
    BY <1>1, <2>1, <2>2
<1>3. t.started
  BY <1>1 DEF ResponsesStage, ItemsKnown, FinishSteps
<1>4. Knows(u)
  <2>1. CallsTyped(u)
    BY <1>1, <1>2, SameCallsTyped
  <2> QED
    BY <1>1, <1>2, <1>a, <2>1 DEF Knows, ResponsesStage
<1>5. e.kind = kind /\ e.item = tool /\ e.item \in Items /\ e.piece \in Piece
  BY <1>a DEF Event, NoPiece, Piece, Items
<1>k. kind \in ItemKinds /\ kind # "delta"
  BY <1>b DEF ItemKinds
<1>t. CallStage(tool) = IF t.todo = "finish" THEN "open" ELSE "closed"
  BY <1>1, <1>a DEF CallStage, Afterwards
<1>o. \A x : x # tool => CallStage(x) = IF x \in t.left THEN "open" ELSE "done"
  BY <1>1 DEF CallStage, Afterwards
<1> HIDE DEF e
<1>6. CASE t.started /\ Arrives(e, u)
  <2>1. ItemEvent(e, u)
    BY <1>1, <1>2, <1>5, <1>6, <1>k DEF ItemEvent, OpenSteps
  <2>2. /\ ItemShown(e) /\ Responses /\ Responses' /\ ~broken /\ ~broken' /\ t' = u
        /\ TranslatorTypes' /\ ~t.finished /\ pc # "closing" /\ pc # "returned"
    BY <2>1, ItemArrives
  <2>3. ResponsesItems /\ ResponsesData
    BY <1>1, <2>2 DEF ResponsesOK
  <2>4. TextItem \notin DOMAIN t.calls /\ TextItem # tool
    BY <1>1, <1>a, TextIsNoCall
  <2>s. StageAfter(tool, kind) = IF t.todo = "finish" THEN "closed" ELSE "done"
    BY <1>b, <2>4 DEF StageAfter
  <2>5. /\ view'.blocks = Extended(view.blocks, tool, StageAfter(tool, kind))
        /\ view'.shown = view.shown /\ ViewTypes'
    BY <1>5, <1>k, <2>2 DEF ItemShown
  <2>6. Puts(view'.blocks, view.blocks, tool, StageAfter(tool, kind))
    BY <2>5, ExtendedBlocks
  <2>7. Moves(chunk)
    BY <1>1, <1>2, <2>2 DEF Moves, SameFlags, GoesOn, FinishSteps
  <2>8. ShownOK'
    BY <1>1, <1>2, <2>2, <2>5, ShownKept DEF Responses, Gemini, Rest, upVars
  <2>9. ResponsesStage'
    BY <1>1, <1>2, <1>3, <1>a, <2>2 DEF ResponsesStage, ItemsKnown, ConsumeSteps, FinishSteps, Rest
  <2>10. ResponsesItems'
    <3>1. MessageStage' = MessageStage
      BY <1>1, <1>2, <2>2 DEF MessageStage, Afterwards
    <3>2. CallStage(tool)' = StageAfter(tool, kind)
      <4>1. CASE t.todo = "finish"
        <5>1. t'.todo = "call done" /\ t'.left = t.left
          BY <1>2, <2>2, <4>1
        <5> QED
          BY <1>1, <1>a, <2>s, <4>1, <5>1 DEF CallStage, Afterwards
      <4>2. CASE t.todo = "call done"
        <5>1. t'.todo = "finish" /\ t'.left = t.left \ {tool}
          BY <1>2, <2>2, <4>2
        <5> QED
          BY <1>a, <2>s, <4>2, <5>1 DEF CallStage, Afterwards
      <4> QED
        BY <1>1, <4>1, <4>2
    <3>3. \A x : x # tool => CallStage(x)' = CallStage(x)
      <4>1. CASE t.todo = "finish"
        <5>1. t'.todo = "call done" /\ t'.left = t.left
          BY <1>2, <2>2, <4>1
        <5> QED
          BY <1>1, <1>o, <4>1, <5>1 DEF CallStage, Afterwards
      <4>2. CASE t.todo = "call done"
        <5>1. t'.todo = "finish" /\ t'.left = t.left \ {tool}
          BY <1>2, <2>2, <4>2
        <5> QED
          BY <1>o, <4>2, <5>1 DEF CallStage, Afterwards
      <4> QED
        BY <1>1, <4>1, <4>2
    <3>4. DOMAIN view'.blocks = DOMAIN t'.calls \cup (IF t'.messageStarted THEN {TextItem} ELSE {})
      BY <1>2, <1>a, <2>2, <2>3, <2>6 DEF ResponsesItems, Puts
    <3>5. t'.messageStarted => view'.blocks[TextItem] = MessageStage'
      BY <1>2, <2>2, <2>3, <2>4, <2>6, <3>1 DEF ResponsesItems, Puts
    <3>6. \A x \in DOMAIN t'.calls : view'.blocks[x] = CallStage(x)'
      <4>1. ASSUME NEW x \in DOMAIN t.calls, x # tool
            PROVE  view'.blocks[x] = CallStage(x)'
        BY <2>3, <2>6, <3>3, <4>1 DEF ResponsesItems, Puts
      <4>2. view'.blocks[tool] = CallStage(tool)'
        BY <2>6, <3>2 DEF Puts
      <4> QED
        BY <1>2, <2>2, <4>1, <4>2
    <3> QED
      BY <3>4, <3>5, <3>6 DEF ResponsesItems
  <2>11. ResponsesData'
    BY <1>2, <2>2, <2>3, <2>5 DEF ResponsesData
  <2>12. ResponsesClient!ProtocolNext
    <3>1. tool \in DOMAIN view.blocks /\ view.blocks[tool] = CallStage(tool)
      BY <1>a, <2>3 DEF ResponsesItems
    <3>2. \/ kind = "content done" /\ view.blocks[tool] = "open"
          \/ kind = "item done" /\ view.blocks[tool] = "closed"
      BY <1>1, <1>b, <1>t, <3>1
    <3> QED
      BY <1>1, <1>5, <1>k, <2>2, <3>1, <3>2, StageFrame DEF ItemShown
  <2> QED
    BY <2>1, <2>7, <2>8, <2>9, <2>10, <2>11, <2>12, ItemDone
<1> QED
  BY <1>1, <1>3, <1>4, <1>6, ResponsesWrites

\* The steps that write nothing between the items and response.completed.
LEMMA QuietStep ==
  ASSUME ResponsesBefore, NEW chunk, UNCHANGED Rest, t.left = {}, NEW next,
         \/ t.todo = "finish" /\ next = "put"
         \/ t.todo = "put" /\ next = "completed",
         t' = [t EXCEPT !.todo = next], UNCHANGED <<view, broken>>,
         ~broken => StoredOK'
  PROVE  ResponsesAfter(chunk)
<1>1. /\ IsTranslator(t) /\ TranslatorTypes /\ Responses /\ ViewTypes /\ ResponsesStage
      /\ ResponsesOK /\ ReaderOK /\ ShownOK /\ EndsOK /\ ~broken /\ StoredOK'
  BY DEF ResponsesBefore, TranslatorTypes, ResponsesOK, Control, BrokenOK
<1>2. /\ IsTranslator(t') /\ t'.calls = t.calls /\ t'.left = t.left /\ t'.protocol = t.protocol
      /\ t'.started = t.started /\ t'.todo = next /\ t'.at = t.at /\ t'.finished = t.finished
      /\ t'.hasContent = t.hasContent /\ t'.messageStarted = t.messageStarted
      /\ t'.contentStarted = t.contentStarted /\ t'.text = t.text
  BY <1>1 DEF IsTranslator, Steps, FinishSteps
<1>3. t.started
  BY <1>1 DEF ResponsesStage, ItemsKnown, FinishSteps
<1>4. TranslatorTypes' /\ ViewTypes' /\ Responses'
  BY <1>1, <1>2, SameCallsTyped DEF TranslatorTypes, ViewTypes, Responses
<1>5. /\ ~t.finished /\ outcome = "none" /\ ~Over /\ pc # "closing" /\ pc # "returned"
      /\ view.phase = "in progress"
  BY <1>1, <1>3, NotOver DEF FinishSteps
<1>6. ~Over'
  BY <1>2, <1>5 DEF Over, Said, Rest
<1>7. Moves(chunk)
  BY <1>1, <1>2 DEF Moves, SameFlags, GoesOn, FinishSteps
<1>8. ShownOK'
  BY <1>1, <1>2, <1>4, ShownKept DEF Responses, Gemini, Rest, upVars
<1>9. EndsOK'
  BY <1>1, <1>5, <1>6, EndsStay
<1>10. ResponsesOK'
  <2>1. ResponsesStage'
    BY <1>1, <1>2, <1>3 DEF ResponsesStage, ItemsKnown, ConsumeSteps, FinishSteps, Rest
  <2>2. MessageStage' = MessageStage /\ \A x : CallStage(x)' = CallStage(x)
    BY <1>1, <1>2 DEF MessageStage, CallStage, Afterwards
  <2>3. ResponsesItems'
    BY <1>1, <1>2, <2>2 DEF ResponsesOK, ResponsesItems
  <2>4. ResponsesData'
    BY <1>1, <1>2 DEF ResponsesOK, ResponsesData
  <2>5. view'.phase = ResponsesPhase'
    BY <1>2, <1>3, <1>5, <1>6 DEF ResponsesPhase
  <2>6. view'.last # "response.failed"
    BY <1>1 DEF ResponsesOK
  <2> QED
    BY <2>1, <2>3, <2>4, <2>5, <2>6 DEF ResponsesOK
<1>11. UNCHANGED ResponsesClient!protocolVars
  BY <1>1, <1>4 DEF ResponsesClient!protocolVars, ViewOf, Responses
<1> QED
  BY <1>1, <1>4, <1>7, <1>8, <1>9, <1>10, <1>11 DEF ResponsesAfter

LEMMA BeginsToStore ==
  ASSUME ResponsesBefore, NEW chunk, UNCHANGED Rest, At("finish"), t.left = {},
         Silently([t EXCEPT !.todo = "put"])
  PROVE  ResponsesAfter(chunk)
<1>1. t' = [t EXCEPT !.todo = "put"] /\ UNCHANGED <<view, broken, stored>> /\ t.todo = "finish"
  BY DEF Silently, clientVars, At
<1>2. t'.todo = "put" /\ t'.finished = t.finished /\ t'.protocol = t.protocol
  BY <1>1 DEF ResponsesBefore, TranslatorTypes, IsTranslator
<1>3. ASSUME ~broken
      PROVE  StoredOK'
  <2>1. stored = NoData /\ ~t.finished
    BY <1>1, <1>3, NotOver DEF FinishSteps
  <2> QED
    BY <1>1, <1>2, <2>1 DEF StoredOK
<1> QED
  BY <1>1, <1>3, QuietStep

LEMMA Stores ==
  ASSUME ResponsesBefore, NEW chunk, UNCHANGED Rest, At("put"), StoreResponse
  PROVE  ResponsesAfter(chunk)
<1> DEFINE s == [kind |-> "response", text |-> t.text, calls |-> t.calls]
<1>1. /\ t' = [t EXCEPT !.todo = "completed"] /\ UNCHANGED <<view, broken>> /\ t.todo = "put"
      /\ stored' = s /\ t.left = {} /\ ResponsesStage /\ Responses
  BY DEF StoreResponse, At, ResponsesBefore, ResponsesOK, ResponsesStage
<1>2. s # NoData /\ s.text = t.text /\ s.calls = t.calls
  <2>1. s.kind = "response" /\ NoData.kind = "none" /\ s.text = t.text /\ s.calls = t.calls
    BY DEF NoData
  <2> QED
    BY <2>1
<1> HIDE DEF s
<1>3. t'.todo = "completed" /\ t'.finished = t.finished /\ t'.protocol = t.protocol /\ t'.started = t.started
  BY <1>1 DEF ResponsesBefore, TranslatorTypes, IsTranslator
<1>4. ASSUME ~broken
      PROVE  StoredOK'
  <2>1. ~t.finished /\ outcome' = "none"
    BY <1>1, <1>4, NotOver DEF FinishSteps, Rest
  <2>2. t.started /\ ResponsesItems /\ ResponsesData /\ view.last # "response.failed"
    BY <1>1, <1>4 DEF ResponsesBefore, ResponsesOK, ResponsesStage, FinishSteps
  <2>3. DOMAIN t.calls = DOMAIN view.blocks \ {TextItem}
    <3>1. TextItem \notin DOMAIN t.calls
      BY TextIsNoCall DEF ResponsesBefore
    <3> QED
      BY <2>2, <3>1 DEF ResponsesItems
  <2>4. \A tool \in DOMAIN t.calls : t.calls[tool].args = view.shown[tool]
    BY <2>2 DEF ResponsesData, ResponsesBefore, TranslatorTypes, CallsTyped
  <2>5. stored'.text = view'.shown[TextItem]
    BY <1>1, <1>2, <2>2 DEF ResponsesData
  <2>6. Responses' /\ t'.started
    BY <1>1, <1>3, <2>2 DEF Responses
  <2> QED
    BY <1>1, <1>2, <1>3, <2>1, <2>2, <2>3, <2>4, <2>5, <2>6 DEF StoredOK
<1> QED
  BY <1>1, <1>4, QuietStep

\* An event about the whole response.
PhaseEvent(kind, u) ==
  /\ Arrives(Mark(kind), u) /\ kind \in PhaseKinds
  /\ t.todo \in {"completed", "done", "fail", "refuse", "failed"}
  /\ u.todo \in {"idle", "done", "failed"}
  /\ t.todo \in {"completed", "done"} => u.todo = "done" \/ u.finished
  /\ t.todo \notin {"completed", "done"} => u.todo # "done" /\ u.finished = t.finished
  /\ u.calls = t.calls /\ u.left = t.left /\ u.protocol = t.protocol /\ u.at = t.at
  /\ u.started = t.started /\ u.messageStarted = t.messageStarted
  /\ u.contentStarted = t.contentStarted /\ u.text = t.text /\ u.hasContent = t.hasContent

PhaseShown(kind) ==
  /\ ViewTypes' /\ view'.frames = view.frames + 1 /\ view'.last = kind
  /\ view'.ends = IF kind = "[DONE]" THEN view.ends + 1 ELSE view.ends
  /\ view'.shown = view.shown /\ view'.blocks = view.blocks
  /\ view'.phase = PhaseAfter(kind)

LEMMA PhaseArrives ==
  ASSUME ResponsesBefore, UNCHANGED Rest, NEW kind, NEW u, PhaseEvent(kind, u)
  PROVE  /\ PhaseShown(kind) /\ ~broken /\ ~broken' /\ t' = u /\ UNCHANGED stored
         /\ TranslatorTypes' /\ Responses /\ Responses'
         /\ ShownOK' /\ ResponsesItems' /\ ResponsesData' /\ ResponsesItems /\ ResponsesStage
<1> DEFINE e == Mark(kind)
<1>1. /\ IsTranslator(t) /\ TranslatorTypes /\ Responses /\ ViewTypes /\ ResponsesStage
      /\ ResponsesOK /\ ReaderOK /\ ShownOK
  BY DEF ResponsesBefore, TranslatorTypes, ResponsesOK, Control
<1>2. /\ ~broken /\ ~broken' /\ t' = u /\ UNCHANGED stored /\ TranslatorTypes'
      /\ view' = Receive(view, e) /\ broken' \in BOOLEAN
  BY DEF PhaseEvent, Arrives
<1>3. e.kind = kind /\ kind \in PhaseKinds
  BY DEF Mark, Event, PhaseEvent
<1> HIDE DEF e
<1>4. PhaseShown(kind)
  BY <1>1, <1>2, <1>3, ResponsesReceivesPhase DEF PhaseShown
<1>5. Responses'
  BY <1>1, <1>2 DEF Responses, PhaseEvent
<1>6. MessageStage' = MessageStage /\ \A x : CallStage(x)' = CallStage(x)
  BY <1>2 DEF MessageStage, CallStage, Afterwards, PhaseEvent
<1>7. ResponsesItems /\ ResponsesItems'
  BY <1>1, <1>2, <1>4, <1>6 DEF ResponsesOK, ResponsesItems, PhaseEvent, PhaseShown
<1>8. ResponsesData'
  BY <1>1, <1>2, <1>4 DEF ResponsesOK, ResponsesData, PhaseEvent, PhaseShown
<1>9. ShownOK'
  <2>1. ViewTypes' /\ view'.shown = view.shown /\ t'.at = t.at /\ t'.protocol = t.protocol
        /\ (t.started => t'.started) /\ ~Gemini /\ UNCHANGED chunks
    BY <1>1, <1>2, <1>4 DEF PhaseShown, PhaseEvent, Responses, Gemini, Rest, upVars
  <2> QED
    BY <1>1, <1>2, <2>1, ShownKept
<1> QED
  BY <1>1, <1>2, <1>4, <1>5, <1>7, <1>8, <1>9

\* response.completed, behind the last item.
LEMMA CompletionReported ==
  ASSUME ResponsesBefore, NEW chunk, UNCHANGED Rest, At("completed"),
         emitEvent(Mark("response.completed"), [t EXCEPT !.todo = "done"])
  PROVE  Fails \/ ResponsesAfter(chunk)
<1> DEFINE u == [t EXCEPT !.todo = "done"]
<1>1. /\ IsTranslator(t) /\ TranslatorTypes /\ Responses /\ ResponsesStage /\ StoredOK
      /\ t.todo = "completed" /\ ResponsesOK /\ EndsOK /\ ItemsKnown
  BY DEF ResponsesBefore, TranslatorTypes, ResponsesOK, At, Control, ResponsesStage, FinishSteps
<1>2. /\ IsTranslator(u) /\ u.calls = t.calls /\ u.left = t.left /\ u.protocol = t.protocol
      /\ u.started = t.started /\ u.todo = "done" /\ u.at = t.at /\ u.finished = t.finished
      /\ u.hasContent = t.hasContent /\ u.messageStarted = t.messageStarted
      /\ u.contentStarted = t.contentStarted /\ u.text = t.text
  BY <1>1 DEF IsTranslator, Steps, FinishSteps
<1>3. Knows(u) /\ t.started
  BY <1>1, <1>2, SameCallsTyped DEF Knows, ResponsesStage, ItemsKnown
<1> HIDE DEF u
<1>4. CASE t.started /\ Arrives(Mark("response.completed"), u)
  <2>1. PhaseEvent("response.completed", u)
    BY <1>1, <1>2, <1>4 DEF PhaseEvent, PhaseKinds
  <2>2. /\ PhaseShown("response.completed") /\ ~broken /\ ~broken' /\ t' = u /\ UNCHANGED stored
        /\ TranslatorTypes' /\ Responses'
        /\ ShownOK' /\ ResponsesItems' /\ ResponsesData' /\ ResponsesItems
    BY <2>1, PhaseArrives
  <2>3. /\ ViewTypes' /\ view'.frames = view.frames + 1 /\ view'.last = "response.completed"
        /\ view'.ends = view.ends /\ view'.shown = view.shown /\ view'.blocks = view.blocks
        /\ view'.phase = "completed"
    BY <2>2 DEF PhaseShown, PhaseAfter
  <2>4. ~t.finished /\ outcome = "none" /\ outcome' = "none"
    BY <1>1 DEF ResponsesBefore, Control, FlowOK, EndingOK, Places, FinishSteps, ErrorSteps, Rest
  <2>5. ~Over /\ ~Over'
    BY <1>2, <2>2, <2>4 DEF Over, Said
  <2>6. view.phase = "in progress"
    BY <1>1, <1>3, <2>2, <2>5 DEF ResponsesOK, ResponsesPhase
  <2>7. Moves(chunk)
    BY <1>1, <1>2, <2>2 DEF Moves, SameFlags, GoesOn, FinishSteps
  <2>8. EndsOK'
    BY <1>1, <2>2, <2>3, <2>5, EndsStay
  <2>9. ResponsesOK'
    <3>1. ResponsesStage'
      BY <1>1, <1>2, <1>3, <2>2 DEF ResponsesStage, ItemsKnown, ConsumeSteps, FinishSteps, Rest
    <3>2. view'.phase = ResponsesPhase'
      BY <1>2, <2>2, <2>3, <2>5 DEF ResponsesPhase
    <3> QED
      BY <2>2, <2>3, <3>1, <3>2 DEF ResponsesOK
  <2>10. StoredOK'
    BY <1>1, <1>2, <1>3, <2>2, <2>3, <2>4 DEF StoredOK
  <2>11. ResponsesClient!ProtocolNext
    <3>1. DOMAIN view.blocks # {}
      BY <1>1, <2>2 DEF ItemsKnown, ResponsesItems
    <3>2. \A i \in DOMAIN view.blocks : view.blocks[i] = "done"
      <4>1. t.messageStarted => MessageStage = "done"
        BY <1>1, <2>2 DEF ResponsesStage, MessageStage, Afterwards
      <4>2. \A x : CallStage(x) = "done"
        BY <1>1 DEF CallStage, Afterwards
      <4> QED
        BY <2>2, <4>1, <4>2 DEF ResponsesItems
    <3> QED
      BY <1>1, <2>2, <2>3, <2>6, <3>1, <3>2, CompletedFrame
  <2> QED
    BY <2>2, <2>3, <2>7, <2>8, <2>9, <2>10, <2>11 DEF ResponsesAfter
<1> QED
  BY <1>1, <1>3, <1>4, ResponsesWrites DEF u

\* [DONE] behind it.
LEMMA CompletesDone ==
  ASSUME ResponsesBefore, NEW chunk, UNCHANGED Rest, At("done"),
         emitEvent(Mark("[DONE]"), Completed(t))
  PROVE  Fails \/ ResponsesAfter(chunk)
<1> DEFINE u == Completed(t)
<1>1. /\ IsTranslator(t) /\ TranslatorTypes /\ Responses /\ ResponsesStage /\ StoredOK
      /\ t.todo = "done" /\ ResponsesOK /\ EndsOK /\ ItemsKnown
  BY DEF ResponsesBefore, TranslatorTypes, ResponsesOK, At, Control, ResponsesStage, FinishSteps
<1>2. /\ IsTranslator(u) /\ u.calls = t.calls /\ u.left = t.left /\ u.protocol = t.protocol
      /\ u.started = t.started /\ u.todo = "idle" /\ u.at = t.at /\ u.finished
      /\ u.hasContent = t.hasContent /\ u.messageStarted = t.messageStarted
      /\ u.contentStarted = t.contentStarted /\ u.text = t.text
  BY <1>1 DEF IsTranslator, Steps, Completed
<1>3. Knows(u) /\ t.started
  BY <1>1, <1>2, SameCallsTyped DEF Knows, ResponsesStage, ItemsKnown
<1> HIDE DEF u
<1>4. CASE t.started /\ Arrives(Mark("[DONE]"), u)
  <2>1. PhaseEvent("[DONE]", u)
    BY <1>1, <1>2, <1>4 DEF PhaseEvent, PhaseKinds
  <2>2. /\ PhaseShown("[DONE]") /\ ~broken /\ ~broken' /\ t' = u /\ UNCHANGED stored
        /\ TranslatorTypes' /\ Responses'
        /\ ShownOK' /\ ResponsesItems' /\ ResponsesData' /\ ResponsesItems
    BY <2>1, PhaseArrives
  <2>3. /\ ViewTypes' /\ view'.frames = view.frames + 1 /\ view'.last = "[DONE]"
        /\ view'.ends = view.ends + 1 /\ view'.shown = view.shown /\ view'.blocks = view.blocks
        /\ view'.phase = "stopped"
    BY <2>2 DEF PhaseShown, PhaseAfter
  <2>4. outcome = "none" /\ outcome' = "none" /\ LastKind = "[DONE]"
    BY <1>1 DEF ResponsesBefore, Control, FlowOK, EndingOK, Places, FinishSteps, ErrorSteps, Rest, LastKind, Responses
  <2>5. ~Over /\ Over'
    <3>1. ~t.finished
      BY <1>1 DEF ResponsesBefore, Control, FlowOK
    <3> QED
      BY <1>1, <1>2, <1>3, <2>2, <3>1 DEF Over, Said
  <2>6. view.phase = "completed"
    BY <1>1, <2>2, <2>5 DEF ResponsesOK, ResponsesPhase
  <2>7. Moves(chunk)
    BY <1>1, <1>2, <1>3, <2>2 DEF Moves, SameFlags, Completes, FinishSteps
  <2>8. EndsOK'
    BY <1>1, <1>2, <1>3, <2>2, <2>3, <2>4, EndsComplete DEF ResponsesBefore, FinishSteps
  <2>9. ResponsesOK'
    <3>1. ResponsesStage'
      BY <1>1, <1>2, <1>3, <2>2 DEF ResponsesStage, ItemsKnown, ConsumeSteps, FinishSteps, Rest
    <3>2. view'.phase = ResponsesPhase'
      BY <1>2, <2>2, <2>3, <2>5 DEF ResponsesPhase
    <3> QED
      BY <2>2, <2>3, <3>1, <3>2 DEF ResponsesOK
  <2>10. StoredOK'
    BY <1>1, <1>2, <1>3, <2>2, <2>3, <2>4 DEF StoredOK
  <2>11. ResponsesClient!ProtocolNext
    BY <1>1, <2>2, <2>3, <2>6, PhaseFrame
  <2> QED
    BY <2>2, <2>3, <2>7, <2>8, <2>9, <2>10, <2>11 DEF ResponsesAfter
<1> QED
  BY <1>1, <1>3, <1>4, ResponsesWrites DEF u

\* response.failed, from the translator or in front of any.
LEMMA FailureReported ==
  ASSUME ResponsesBefore, NEW chunk, UNCHANGED Rest, NEW u, u = [t EXCEPT !.todo = "failed"],
         \/ At("fail") /\ emitEvent(Mark("response.failed"), u)
         \/ At("refuse") /\ emit(Mark("response.failed"), u)
  PROVE  Fails \/ ResponsesAfter(chunk)
<1>1. /\ IsTranslator(t) /\ TranslatorTypes /\ Responses /\ ResponsesStage /\ StoredOK
      /\ t.todo \in {"fail", "refuse"} /\ ResponsesOK /\ EndsOK /\ pc = "closing"
      /\ EndingOK /\ FlowOK
  BY DEF ResponsesBefore, TranslatorTypes, ResponsesOK, At, Control, FlowOK, Places, ConsumeSteps, FinishSteps, ErrorSteps
<1>2. /\ IsTranslator(u) /\ u.calls = t.calls /\ u.left = t.left /\ u.protocol = t.protocol
      /\ u.started = t.started /\ u.todo = "failed" /\ u.at = t.at /\ u.finished = t.finished
      /\ u.hasContent = t.hasContent /\ u.messageStarted = t.messageStarted
      /\ u.contentStarted = t.contentStarted /\ u.text = t.text
  BY <1>1 DEF IsTranslator, Steps, ErrorSteps
<1>3. Knows(u)
  BY <1>1, <1>2, SameCallsTyped DEF Knows, ResponsesStage
<1>4. \/ Fails
      \/ ~t.started /\ t.todo = "fail" /\ Arrives(Mark("response.created"), [t EXCEPT !.started = TRUE])
      \/ (t.todo = "fail" => t.started) /\ Arrives(Mark("response.failed"), u)
  <2>1. CASE At("fail") /\ emitEvent(Mark("response.failed"), u)
    BY <1>3, <2>1, ResponsesWrites DEF At
  <2>2. CASE At("refuse") /\ emit(Mark("response.failed"), u)
    <3>1. Fails \/ Arrives(Mark("response.failed"), u)
      BY <1>3, <2>2, ResponsesWriteFails DEF emit, Knows
    <3>2. t.todo # "fail"
      BY <2>2 DEF At
    <3> QED
      BY <3>1, <3>2
  <2> QED
    BY <2>1, <2>2
<1>5. CASE (t.todo = "fail" => t.started) /\ Arrives(Mark("response.failed"), u)
  <2>1. PhaseEvent("response.failed", u)
    BY <1>1, <1>2, <1>5 DEF PhaseEvent, PhaseKinds
  <2>2. /\ PhaseShown("response.failed") /\ ~broken /\ ~broken' /\ t' = u /\ UNCHANGED stored
        /\ TranslatorTypes' /\ Responses'
        /\ ShownOK' /\ ResponsesItems' /\ ResponsesData' /\ ResponsesItems
    BY <2>1, PhaseArrives
  <2>3. /\ ViewTypes' /\ view'.frames = view.frames + 1 /\ view'.last = "response.failed"
        /\ view'.ends = view.ends /\ view'.shown = view.shown /\ view'.blocks = view.blocks
        /\ view'.phase = "failed"
    BY <2>2 DEF PhaseShown, PhaseAfter
  <2>4. ~(t.finished /\ t.started)
    BY <1>1, <2>2 DEF EndingOK
  <2>5. ~Over /\ ~Over'
    BY <1>1, <1>2, <2>2, <2>4 DEF Over, Said
  <2>6. view.phase \in {"before", "in progress"}
    BY <1>1, <2>2, <2>5 DEF ResponsesOK, ResponsesPhase
  <2>7. Moves(chunk)
    BY <1>1, <1>2, <1>5, <2>2 DEF Moves, SameFlags, Reports, ErrorSteps
  <2>8. EndsOK'
    BY <1>1, <2>2, <2>3, <2>5, EndsStay
  <2>9. ResponsesOK'
    <3>1. ResponsesStage'
      BY <1>1, <1>2, <2>2 DEF ResponsesStage, ItemsKnown, ConsumeSteps, FinishSteps, Rest
    <3>2. view'.phase = ResponsesPhase'
      BY <1>2, <2>2, <2>3, <2>5 DEF ResponsesPhase
    <3> QED
      BY <1>2, <2>2, <2>3, <3>1, <3>2 DEF ResponsesOK
  <2>10. StoredOK'
    <3>1. stored = NoData
      BY <1>1, <2>2, <2>4 DEF StoredOK
    <3> QED
      BY <1>2, <2>2, <2>4, <3>1 DEF StoredOK
  <2>11. ResponsesClient!ProtocolNext
    BY <1>1, <2>2, <2>3, <2>6, PhaseFrame
  <2> QED
    BY <2>2, <2>3, <2>7, <2>8, <2>9, <2>10, <2>11 DEF ResponsesAfter
<1> QED
  BY <1>4, <1>5, ResponsesCreates

\* [DONE] behind it.
LEMMA FailureDone ==
  ASSUME ResponsesBefore, NEW chunk, UNCHANGED Rest, At("failed"),
         emit(Mark("[DONE]"), [t EXCEPT !.todo = "idle"])
  PROVE  Fails \/ ResponsesAfter(chunk)
<1> DEFINE u == [t EXCEPT !.todo = "idle"]
<1>1. /\ IsTranslator(t) /\ TranslatorTypes /\ Responses /\ ResponsesStage /\ StoredOK
      /\ t.todo = "failed" /\ ResponsesOK /\ EndsOK /\ pc = "closing"
      /\ EndingOK /\ FlowOK
  BY DEF ResponsesBefore, TranslatorTypes, ResponsesOK, At, Control, FlowOK, Places, ConsumeSteps, FinishSteps, ErrorSteps
<1>2. /\ IsTranslator(u) /\ u.calls = t.calls /\ u.left = t.left /\ u.protocol = t.protocol
      /\ u.started = t.started /\ u.todo = "idle" /\ u.at = t.at /\ u.finished = t.finished
      /\ u.hasContent = t.hasContent /\ u.messageStarted = t.messageStarted
      /\ u.contentStarted = t.contentStarted /\ u.text = t.text
  BY <1>1 DEF IsTranslator, Steps
<1>3. Knows(u)
  BY <1>1, <1>2, SameCallsTyped DEF Knows, ResponsesStage
<1>4. Fails \/ Arrives(Mark("[DONE]"), u)
  BY <1>3, ResponsesWriteFails DEF emit, Knows
<1> HIDE DEF u
<1>5. CASE Arrives(Mark("[DONE]"), u)
  <2>1. PhaseEvent("[DONE]", u)
    BY <1>1, <1>2, <1>5 DEF PhaseEvent, PhaseKinds
  <2>2. /\ PhaseShown("[DONE]") /\ ~broken /\ ~broken' /\ t' = u /\ UNCHANGED stored
        /\ TranslatorTypes' /\ Responses'
        /\ ShownOK' /\ ResponsesItems' /\ ResponsesData' /\ ResponsesItems
    BY <2>1, PhaseArrives
  <2>3. /\ ViewTypes' /\ view'.frames = view.frames + 1 /\ view'.last = "[DONE]"
        /\ view'.ends = view.ends + 1 /\ view'.shown = view.shown /\ view'.blocks = view.blocks
        /\ view'.phase = "stopped"
    BY <2>2 DEF PhaseShown, PhaseAfter
  <2>4. ~(t.finished /\ t.started) /\ outcome \in {"interrupted", "error", "queue timeout"}
        /\ outcome' = outcome
    BY <1>1 DEF EndingOK, Rest
  <2>5. ~Over /\ Over'
    BY <1>1, <1>2, <2>2, <2>4 DEF Over, Said
  <2>6. view.phase = "failed"
    BY <1>1, <2>2, <2>5 DEF ResponsesOK, ResponsesPhase
  <2>7. Moves(chunk)
    BY <1>1, <1>2, <2>2 DEF Moves, SameFlags, Reports, ErrorSteps
  <2>8. EndsOK'
    <3>1. LastKind' = "[DONE]" /\ view.ends = 0
      BY <1>1, <2>2, <2>5 DEF LastKind, Responses, EndsOK
    <3> QED
      BY <2>3, <2>5, <3>1 DEF EndsOK
  <2>9. ResponsesOK'
    <3>1. ResponsesStage'
      BY <1>1, <1>2, <2>2 DEF ResponsesStage, ItemsKnown, ConsumeSteps, FinishSteps, Rest
    <3>2. view'.phase = ResponsesPhase'
      BY <1>2, <2>2, <2>3, <2>5 DEF ResponsesPhase
    <3> QED
      BY <2>2, <2>3, <3>1, <3>2 DEF ResponsesOK
  <2>10. StoredOK'
    <3>1. stored = NoData
      BY <1>1, <2>2, <2>4 DEF StoredOK
    <3> QED
      BY <1>2, <2>2, <2>4, <3>1 DEF StoredOK
  <2>11. ResponsesClient!ProtocolNext
    BY <1>1, <2>2, <2>3, <2>6, PhaseFrame
  <2> QED
    BY <2>2, <2>3, <2>7, <2>8, <2>9, <2>10, <2>11 DEF ResponsesAfter
<1> QED
  BY <1>4, <1>5

LEMMA ResponsesSteps ==
  ASSUME ResponsesBefore, UNCHANGED Rest,
         ResponsesConsume(chunks[t.at[1]]) \/ ResponsesFinish \/ ResponsesError
  PROVE  Fails \/ ResponsesAfter(chunks[t.at[1]])
<1> DEFINE chunk == chunks[t.at[1]]
<1>1. CASE At("text") /\ (ensureMessageItem \/ outputTextDelta(chunk))
  BY <1>1, ItemAdds, PartAdds, TextAdds DEF ensureMessageItem
<1>2. CASE At("tools") /\ (openCall(Fragment(chunk).tool) \/ argumentsDelta(chunk, Fragment(chunk).tool))
  <2>1. Fragment(chunk).tool \in Tools
    <3>1. ~broken /\ ReaderOK /\ PlaceOK
      BY <1>2 DEF ResponsesBefore, Control, BrokenOK, At
    <3> QED
      BY <1>2, <3>1, ChunkTyped DEF At, ConsumeSteps
  <2>2. CASE openCall(Fragment(chunk).tool)
    BY <1>2, <2>1, <2>2, CallOpens
  <2>3. CASE argumentsDelta(chunk, Fragment(chunk).tool) /\ Fragment(chunk).args
    BY <1>2, <2>3, ArgumentsAdd
  <2>4. CASE argumentsDelta(chunk, Fragment(chunk).tool) /\ ~Fragment(chunk).args
    <3>1. Fragment(chunk).tool \in DOMAIN t.calls /\ Silently(Onward(t, chunk))
      BY <2>4 DEF argumentsDelta
    <3> QED
      BY <1>2, <2>4, <3>1, ArgumentsSkip
  <2> QED
    BY <1>2, <2>2, <2>3, <2>4
<1>3. CASE finishMessage
  BY <1>3, MessageFinishes DEF finishMessage, Follows
<1>4. CASE finishCalls
  <2> DEFINE tool == Min(t.left)
  <2>0. t.left # {}
    BY <1>4 DEF finishCalls
  <2>1. CASE At("finish") /\ emitEvent(Event("content done", tool, t.calls[tool].index, NoPiece),
                                       [t EXCEPT !.todo = "call done"])
    <3>1. EndsCall(tool, "content done", [t EXCEPT !.todo = "call done"])
      BY <2>1 DEF EndsCall
    <3> QED
      BY <2>0, <3>1, CallFinishes
  <2>2. CASE At("call done") /\ emitEvent(Event("item done", tool, t.calls[tool].index, NoPiece),
                                          [t EXCEPT !.todo = "finish", !.left = @ \ {tool}])
    <3>1. EndsCall(tool, "item done", [t EXCEPT !.todo = "finish", !.left = @ \ {tool}])
      BY <2>2 DEF EndsCall
    <3> QED
      BY <2>0, <3>1, CallFinishes
  <2> QED
    BY <1>4, <2>1, <2>2 DEF finishCalls
<1>5. CASE At("put") /\ StoreResponse
  BY <1>5, Stores
<1>6. CASE At("finish") /\ t.left = {} /\ Silently([t EXCEPT !.todo = "put"])
  BY <1>6, BeginsToStore
<1>7. CASE At("completed") /\ emitEvent(Mark("response.completed"), [t EXCEPT !.todo = "done"])
  BY <1>7, CompletionReported
<1>8. CASE At("done") /\ emitEvent(Mark("[DONE]"), Completed(t))
  BY <1>8, CompletesDone
<1>9. CASE ResponsesError
  BY <1>9, FailureReported, FailureDone DEF ResponsesError
<1> QED
  BY <1>1, <1>2, <1>3, <1>4, <1>5, <1>6, <1>7, <1>8, <1>9 DEF ResponsesConsume, ResponsesFinish

-----------------------------------------------------------------------------
(* A step of whichever translator it is.                                    *)

ClaudeStutters == UNCHANGED ClaudeClient!protocolVars
ResponsesStutters == UNCHANGED ResponsesClient!protocolVars
Legal ==
  /\ [ClaudeClient!ProtocolNext]_(ClaudeClient!protocolVars)
  /\ [ResponsesClient!ProtocolNext]_(ResponsesClient!protocolVars)

\* What a client does not see does not concern its protocol.
LEMMA ProtocolsStutter ==
  ASSUME t'.protocol = t.protocol, view'.phase = view.phase, view'.frames = view.frames,
         view'.blocks = view.blocks
  PROVE  ClaudeStutters /\ ResponsesStutters
<1>1. CASE Claude
  <2>1. /\ ViewOf("claude") = view /\ ViewOf("claude")' = view'
        /\ ViewOf("responses") = EmptyView /\ ViewOf("responses")' = EmptyView
    BY <1>1 DEF Claude, ViewOf, EmptyView, Items
  <2> QED
    BY <2>1 DEF ClaudeStutters, ResponsesStutters, ClaudeClient!protocolVars, ResponsesClient!protocolVars
<1>2. CASE Responses
  <2>1. /\ ViewOf("responses") = view /\ ViewOf("responses")' = view'
        /\ ViewOf("claude") = EmptyView /\ ViewOf("claude")' = EmptyView
    BY <1>2 DEF Responses, ViewOf, EmptyView, Items
  <2> QED
    BY <2>1 DEF ClaudeStutters, ResponsesStutters, ClaudeClient!protocolVars, ResponsesClient!protocolVars
<1>3. CASE ~Claude /\ ~Responses
  <2>1. /\ ViewOf("responses") = EmptyView /\ ViewOf("responses")' = EmptyView
        /\ ViewOf("claude") = EmptyView /\ ViewOf("claude")' = EmptyView
    BY <1>3 DEF Claude, Responses, ViewOf, EmptyView, Items
  <2> QED
    BY <2>1 DEF ClaudeStutters, ResponsesStutters, ClaudeClient!protocolVars, ResponsesClient!protocolVars
<1> QED
  BY <1>1, <1>2, <1>3

LEMMA OtherClaude ==
  ASSUME ~Claude, t'.protocol = t.protocol
  PROVE  ClaudeStutters
<1>1. ViewOf("claude") = EmptyView /\ ViewOf("claude")' = EmptyView
  BY DEF Claude, ViewOf, EmptyView, Items
<1> QED
  BY <1>1 DEF ClaudeStutters, ClaudeClient!protocolVars

LEMMA OtherResponses ==
  ASSUME ~Responses, t'.protocol = t.protocol
  PROVE  ResponsesStutters
<1>1. ViewOf("responses") = EmptyView /\ ViewOf("responses")' = EmptyView
  BY DEF Responses, ViewOf, EmptyView, Items
<1> QED
  BY <1>1 DEF ResponsesStutters, ResponsesClient!protocolVars

LEMMA Stuttering ==
  ASSUME ClaudeStutters, ResponsesStutters
  PROVE  Legal
BY DEF ClaudeStutters, ResponsesStutters, Legal

LEMMA FailureKeeps ==
  ASSUME CompatInv, Places, UNCHANGED Rest, Fails, t.todo # "idle", t.todo # "error"
  PROVE  CompatInv' /\ Legal
<1> USE DEF CompatInv
<1>1. Control'
  BY ControlFails DEF Control
<1>2. /\ broken' /\ UNCHANGED <<view, stored>> /\ TranslatorTypes' /\ t'.protocol = t.protocol
      /\ t'.todo = "error" /\ t'.started /\ ~t'.finished /\ UNCHANGED <<pc, outcome, chunks>>
      /\ broken' = TRUE
  BY DEF Fails, Rest, upVars
<1>3. ViewTypes'
  BY <1>2 DEF ViewTypes
<1>4. ShownOK'
  <2>1. \A c : Fragments(c)' = Fragments(c)
    BY <1>2 DEF Fragments
  <2>2. \A item : Pieces(item)' = Pieces(item)
    BY <1>2, <2>1 DEF Pieces, Carries
  <2> QED
    BY <1>2, <2>2 DEF ShownOK
<1>5. EndsOK' /\ ClaudeOK' /\ GeminiOK'
  BY <1>2 DEF EndsOK, ClaudeOK, GeminiOK
<1>6. ResponsesOK'
  <2>1. ASSUME Responses'
        PROVE  ResponsesStage'
    <3>1. Responses
      BY <1>2, <2>1 DEF Responses
    <3> QED
      BY <1>2, <3>1 DEF ResponsesStage, Fails, FinishSteps
  <2> QED
    BY <1>2, <2>1 DEF ResponsesOK
<1>7. StoredOK'
  BY <1>2 DEF StoredOK, Responses
<1>8. Legal
  BY <1>2, ProtocolsStutter, Stuttering
<1> QED
  BY <1>1, <1>2, <1>3, <1>4, <1>5, <1>6, <1>7, <1>8 DEF Control

LEMMA TranslateKeeps ==
  ASSUME CompatInv, Translate
  PROVE  CompatInv' /\ Legal
<1> DEFINE chunk == chunks[t.at[1]]
<1>1. Places /\ UNCHANGED Rest /\ TranslatorStep(chunk)
  BY DEF Translate, Places, Rest, upVars
<1>2. t.todo # "idle" /\ t.todo # "error"
  BY <1>1 DEF TranslatorStep, ClaudeStep, ClaudeConsume, ClaudeFinish, GeminiConsume, GeminiFinish,
       ResponsesConsume, ResponsesFinish, ResponsesError, finishMessage, finishCalls, MessageDone, At
<1>3. Control /\ TranslatorTypes /\ ViewTypes /\ ShownOK /\ EndsOK /\ ClaudeOK /\ GeminiOK /\ ResponsesOK
      /\ StoredOK
  BY DEF CompatInv, Control
<1> SUFFICES ASSUME ~Fails PROVE CompatInv' /\ Legal
  BY <1>1, <1>2, FailureKeeps
<1>4. CASE Claude /\ ClaudeStep(chunk)
  <2>1. ClaudeBefore
    BY <1>1, <1>3, <1>4 DEF ClaudeBefore
  <2>2. ClaudeAfter(chunk)
    BY <1>1, <1>4, <2>1, ClaudeSteps
  <2>3. /\ Moves(chunk) /\ UNCHANGED stored /\ t'.protocol = t.protocol
        /\ TranslatorTypes' /\ ViewTypes' /\ ShownOK' /\ EndsOK' /\ ClaudeOK'
        /\ [ClaudeClient!ProtocolNext]_(ClaudeClient!protocolVars)
    BY <2>2 DEF ClaudeAfter, Moves, SameFlags
  <2>4. Control'
    BY <1>1, <1>3, <2>3, ControlMoves
  <2>5. ~Responses /\ ~Gemini /\ ~Responses' /\ ~Gemini'
    BY <1>4, <2>3 DEF Claude, Gemini, Responses
  <2>6. StoredOK'
    BY <1>3, <2>3, <2>5 DEF StoredOK
  <2>7. Legal
    BY <2>3, <2>5, OtherResponses DEF ResponsesStutters, Legal
  <2> QED
    BY <2>3, <2>4, <2>5, <2>6, <2>7 DEF CompatInv, Control, GeminiOK, ResponsesOK
<1>5. CASE Gemini /\ (GeminiConsume(chunk) \/ GeminiFinish)
  <2>1. GeminiBefore
    BY <1>1, <1>3, <1>5 DEF GeminiBefore
  <2>2. GeminiAfter(chunk)
    BY <1>1, <1>5, <2>1, GeminiSteps
  <2>3. /\ Moves(chunk) /\ UNCHANGED stored /\ t'.protocol = t.protocol
        /\ TranslatorTypes' /\ ViewTypes' /\ ShownOK' /\ EndsOK' /\ GeminiOK'
    BY <2>2 DEF GeminiAfter, Moves, SameFlags
  <2>4. Control'
    BY <1>1, <1>3, <2>3, ControlMoves
  <2>5. ~Responses /\ ~Claude /\ ~Responses' /\ ~Claude'
    BY <1>5, <2>3 DEF Claude, Gemini, Responses
  <2>6. StoredOK'
    BY <1>3, <2>3, <2>5 DEF StoredOK
  <2>7. Legal
    BY <2>3, <2>5, OtherResponses, OtherClaude, Stuttering
  <2> QED
    BY <2>3, <2>4, <2>5, <2>6, <2>7 DEF CompatInv, Control, ClaudeOK, ResponsesOK
<1>6. CASE Responses /\ (ResponsesConsume(chunk) \/ ResponsesFinish \/ ResponsesError)
  <2>1. ResponsesBefore
    BY <1>1, <1>3, <1>6 DEF ResponsesBefore
  <2>2. ResponsesAfter(chunk)
    BY <1>1, <1>6, <2>1, ResponsesSteps
  <2>3. /\ Moves(chunk) /\ t'.protocol = t.protocol
        /\ TranslatorTypes' /\ ViewTypes' /\ ShownOK' /\ EndsOK' /\ ResponsesOK' /\ StoredOK'
        /\ [ResponsesClient!ProtocolNext]_(ResponsesClient!protocolVars)
    BY <2>2 DEF ResponsesAfter, Moves, SameFlags
  <2>4. Control'
    BY <1>1, <1>3, <2>3, ControlMoves
  <2>5. ~Gemini' /\ ~Claude /\ ~Claude'
    BY <1>6, <2>3 DEF Claude, Gemini, Responses
  <2>6. Legal
    BY <2>3, <2>5, OtherClaude DEF ClaudeStutters, Legal
  <2> QED
    BY <2>3, <2>4, <2>5, <2>6 DEF CompatInv, Control, ClaudeOK, GeminiOK
<1> QED
  BY <1>1, <1>4, <1>5, <1>6 DEF TranslatorStep, Claude, Gemini, Responses

-----------------------------------------------------------------------------
(* The other steps: first those that leave the translator as it is.         *)

DataOK ==
  /\ TranslatorTypes /\ ViewTypes /\ ShownOK /\ EndsOK
  /\ ClaudeOK /\ GeminiOK /\ ResponsesOK /\ StoredOK

LEMMA InvAgain ==
  ASSUME Control', DataOK'
  PROVE  CompatInv'
BY DEF CompatInv, Control, DataOK

\* The view but for its comments.
SameView ==
  /\ IsView(view') /\ view'.frames = view.frames /\ view'.last = view.last /\ view'.ends = view.ends
  /\ view'.shown = view.shown /\ view'.phase = view.phase /\ view'.blocks = view.blocks

\* The pieces that have been taken do not change when the upstream sends more.
LEMMA LaterPieces ==
  ASSUME Control, ViewTypes, TranslatorTypes, ShownOK, NEW item \in Items,
         t' = t, UNCHANGED broken, view'.shown = view.shown,
         UNCHANGED chunks \/ \E c \in Chunks : chunks' = Append(chunks, c)
  PROVE  /\ Relays(view.shown[item], Pieces(item)')
         /\ ~broken => Reached(item)' = Reached(item)
<1>1. chunks \in Seq(Chunks) /\ Len(chunks) \in Nat /\ DOMAIN chunks = 1 .. Len(chunks)
  BY DEF Control, ReaderOK
<1>2. \A c : Fragments(c)' = Fragments(c)
  BY DEF Fragments
<1>3. /\ DOMAIN chunks \subseteq DOMAIN chunks'
      /\ \A n \in DOMAIN chunks : chunks'[n] = chunks[n]
      /\ \A n \in DOMAIN chunks' : n \in DOMAIN chunks \/ n = Len(chunks) + 1
  BY <1>1
<1>4. Pieces(item) \subseteq Pieces(item)'
  <2> SUFFICES ASSUME NEW p \in Pieces(item) PROVE p \in Pieces(item)'
    OBVIOUS
  <2>1. PICK n \in DOMAIN chunks : p \in {n} \X (0 .. Len(Fragments(chunks[n])))
    BY DEF Pieces
  <2>2. p[1] = n /\ Carries(item, p[1], p[2])
    BY <2>1 DEF Pieces
  <2>3. n \in DOMAIN chunks' /\ p \in {n} \X (0 .. Len(Fragments(chunks'[n])))
    BY <1>3, <2>1
  <2>4. Carries(item, p[1], p[2])'
    BY <1>2, <1>3, <2>1, <2>2 DEF Carries
  <2> QED
    BY <1>2, <2>3, <2>4 DEF Pieces
<1>5. \A p \in Pieces(item)' : p \in Pieces(item) \/ (p[1] = Len(chunks) + 1 /\ p[2] \in Nat)
  <2> SUFFICES ASSUME NEW p \in Pieces(item)', p[1] # Len(chunks) + 1 \/ p[2] \notin Nat
               PROVE  p \in Pieces(item)
    OBVIOUS
  <2>1. PICK n \in DOMAIN chunks' : p \in {n} \X (0 .. Len(Fragments(chunks'[n])))
    BY <1>2 DEF Pieces
  <2>2. p[1] = n /\ Carries(item, p[1], p[2])' /\ p[2] \in Nat
    BY <2>1 DEF Pieces
  <2>3. n \in DOMAIN chunks /\ p \in {n} \X (0 .. Len(Fragments(chunks[n])))
    BY <1>3, <2>1, <2>2
  <2>4. Carries(item, p[1], p[2])
    BY <1>2, <1>3, <2>2, <2>3 DEF Carries
  <2> QED
    BY <2>3, <2>4 DEF Pieces
<1>6. \A p \in Pieces(item) : p[1] \in 1 .. Len(chunks) /\ p[2] \in Nat
  BY <1>1, PiecesTyped DEF Control, Piece
<1>7. Relays(view.shown[item], Pieces(item)')
  <2>1. Relays(view.shown[item], Pieces(item))
    BY DEF ShownOK
  <2>2. ASSUME NEW k \in DOMAIN view.shown[item], NEW p \in Pieces(item)', Before(p, view.shown[item][k])
        PROVE  p \in Pieces(item)
    <3>1. view.shown[item][k] \in Pieces(item)
      BY <2>1 DEF Relays
    <3>2. view.shown[item][k][1] \in 1 .. Len(chunks)
      BY <3>1, <1>6
    <3> QED
      BY <1>1, <1>5, <2>2, <3>2 DEF Before
  <2> QED
    BY <1>4, <2>1, <2>2 DEF Relays
<1>8. ASSUME ~broken
      PROVE  Reached(item)' = Reached(item)
  <2>1. t.at \in Piece /\ t.at[1] \in 1 .. Len(chunks) + 1 /\ t'.at = t.at
    BY <1>8 DEF Control, PlaceOK, TranslatorTypes, IsTranslator
  <2>2. t.at[2] \in Nat /\ (t.at[1] = Len(chunks) + 1 => t.at[2] = 0)
    <3>1. t.todo = "tools" => t.at[1] \in DOMAIN chunks
      BY <1>8 DEF Control, PlaceOK, ConsumeSteps
    <3> QED
      BY <1>1, <1>8, <2>1, <3>1 DEF Control, PlaceOK, Piece
  <2>3. \A p \in Pieces(item)' : Before(p, t.at) => p \in Pieces(item)
    BY <1>1, <1>5, <2>1, <2>2 DEF Before
  <2> QED
    BY <1>4, <2>1, <2>3 DEF Reached
<1> QED
  BY <1>7, <1>8

LEMMA QuietAction ==
  ASSUME CompatInv, t' = t, UNCHANGED <<broken, stored>>, SameView,
         UNCHANGED chunks \/ \E c \in Chunks : chunks' = Append(chunks, c),
         Said' <=> Said,
         Responses /\ pc' \notin {"closing", "returned"} => pc \notin {"closing", "returned"},
         outcome' \in {"error", "queue timeout"} => outcome' = outcome \/ ~t.started
  PROVE  DataOK' /\ Legal
<1>1. Control /\ TranslatorTypes /\ ViewTypes /\ ShownOK /\ EndsOK /\ ClaudeOK /\ GeminiOK
      /\ ResponsesOK /\ StoredOK
  BY DEF CompatInv, Control
<1>2. TranslatorTypes'
  BY <1>1 DEF TranslatorTypes, IsTranslator, CallsTyped
<1>3. ViewTypes'
  BY <1>1 DEF ViewTypes, SameView, IsView
<1>4. ShownOK'
  <2>1. \A item \in Items : /\ Relays(view.shown[item], Pieces(item)')
                            /\ ~broken => Reached(item)' = Reached(item)
    BY <1>1, LaterPieces DEF SameView
  <2>2. Written' = Written /\ \A x : Collected(x)' = Collected(x)
    BY DEF Written, Collected
  <2>3. (Gemini' <=> Gemini) /\ view'.shown = view.shown
    BY DEF Gemini, SameView
  <2> QED
    BY <1>1, <2>1, <2>2, <2>3 DEF ShownOK, Items
<1>5. Over' <=> Over
  BY DEF Over
<1>6. EndsOK'
  BY <1>1, <1>5 DEF EndsOK, SameView, LastKind
<1>7. ClaudeOK'
  <2> SUFFICES ASSUME Claude', ~broken' PROVE view'.phase = ClaudePhase' /\ ClaudeBlocks' /\ ClaudeStage'
    BY DEF ClaudeOK
  <2>1. view.phase = ClaudePhase /\ ClaudeBlocks /\ ClaudeStage
    BY <1>1 DEF ClaudeOK, Claude
  <2>2. OpenCalls' = OpenCalls
    BY DEF OpenCalls
  <2>3. view'.phase = ClaudePhase'
    BY <2>1 DEF SameView, ClaudePhase
  <2>4. ClaudeBlocks'
    BY <2>1, <2>2 DEF SameView, ClaudeBlocks
  <2>5. ClaudeStage'
    BY <2>1 DEF ClaudeStage
  <2> QED
    BY <2>3, <2>4, <2>5
<1>8. GeminiOK'
  BY <1>1 DEF GeminiOK, Gemini
<1>9. ResponsesOK'
  <2>1. Responses' <=> Responses
    BY DEF Responses
  <2>2. ASSUME Responses
        PROVE  ResponsesStage'
    BY <1>1, <2>2 DEF ResponsesOK, ResponsesStage, ItemsKnown
  <2>3. ResponsesPhase' = ResponsesPhase
    BY <1>5 DEF ResponsesPhase
  <2>4. MessageStage' = MessageStage /\ \A x : CallStage(x)' = CallStage(x)
    BY DEF MessageStage, CallStage, Afterwards
  <2>5. ASSUME Responses, ~broken
        PROVE  ResponsesItems' /\ ResponsesData'
    BY <1>1, <2>4, <2>5 DEF ResponsesOK, ResponsesItems, ResponsesData, SameView
  <2> QED
    BY <1>1, <2>1, <2>2, <2>3, <2>5 DEF ResponsesOK, SameView
<1>10. StoredOK'
  BY <1>1 DEF StoredOK, Responses, SameView
<1>11. Legal
  BY ProtocolsStutter, Stuttering DEF SameView
<1> QED
  BY <1>2, <1>3, <1>4, <1>6, <1>7, <1>8, <1>9, <1>10, <1>11 DEF DataOK

LEMMA SameViewUnchanged ==
  ASSUME ViewTypes, UNCHANGED view
  PROVE  SameView
BY DEF ViewTypes, SameView, IsView

LEMMA ClientGoneKeeps ==
  ASSUME CompatInv, ClientGone
  PROVE  CompatInv' /\ Legal
<1>1. Control'
  BY DEF CompatInv, Control, ClientGone, Return, upVars, FlowOK, EndingOK, BrokenOK, ReaderOK, PlaceOK,
         LineKind, Responses, Fragments, ConsumeSteps, FinishSteps, ErrorSteps, NothingToFinish
<1>2. DataOK' /\ Legal
  <2>1. ~Said' /\ ~Said
    BY DEF CompatInv, EndingOK, ClientGone, Return, Said
  <2> QED
    BY <2>1, QuietAction, SameViewUnchanged DEF CompatInv, ClientGone, Return, upVars
<1> QED
  BY <1>1, <1>2, InvAgain

LEMMA OpenFailsKeeps ==
  ASSUME CompatInv, OpenFails
  PROVE  CompatInv' /\ Legal
<1>0. /\ FlowOK /\ EndingOK /\ BrokenOK /\ ReaderOK /\ PlaceOK /\ pc = "attempt" /\ pc' = "attempt"
      /\ UNCHANGED <<t, broken, chunks, upstream, outcome, charged, view, stored, data, reading, lineCh, ending>>
  BY DEF CompatInv, OpenFails, MayTry, translatorVars, clientVars, upVars
<1>5. FlowOK'
  BY <1>0 DEF FlowOK, NothingToFinish
<1>6. EndingOK'
  BY <1>0 DEF EndingOK, Responses
<1>7. BrokenOK'
  BY <1>0 DEF BrokenOK, Responses
<1>8. ReaderOK'
  BY <1>0 DEF ReaderOK, LineKind
<1>9. PlaceOK'
  BY <1>0 DEF PlaceOK, ConsumeSteps, LineKind, Fragments
<1>10. DataOK' /\ Legal
  <2>1. Said' <=> Said
    BY <1>0 DEF Said, Responses
  <2>2. SameView
    BY <1>0, SameViewUnchanged DEF CompatInv
  <2> QED
    BY <1>0, <2>1, <2>2, QuietAction
<1>11. Control'
  BY <1>5, <1>6, <1>7, <1>8, <1>9 DEF Control
<1> QED
  BY <1>10, <1>11, InvAgain

LEMMA TakeLineKeeps ==
  ASSUME CompatInv, TakeLine
  PROVE  CompatInv' /\ Legal
<1> DEFINE line == Head(lineCh)
<1>0. /\ FlowOK /\ EndingOK /\ BrokenOK /\ ReaderOK /\ PlaceOK /\ pc = "wait"
      /\ UNCHANGED <<t, broken, chunks, upstream, outcome, charged, view, stored>>
  BY DEF CompatInv, TakeLine, translatorVars, clientVars
<1>1. /\ line \in Lines /\ line = lineCh[1] /\ LineKind = line.kind /\ ~reading
      /\ lineCh' = <<>> /\ LineKind' = "nothing" /\ ending = "no" /\ ~broken
  BY <1>0 DEF ReaderOK, LineKind, TakeLine, EndingOK, BrokenOK
<1>2. /\ data' = IF line.kind \in {"chunk", "malformed", "[DONE]"} THEN line ELSE data
      /\ ending' = IF line.err = "nil" THEN ending ELSE line.err
      /\ IF line.kind = "blank" \/ line.err # "nil"
         THEN pc' = "flush" /\ UNCHANGED reading
         ELSE pc' = "wait" /\ reading' = TRUE
  BY DEF TakeLine
<1>3. /\ line.kind \in {"chunk", "malformed", "[DONE]", "blank", "none"} /\ line.ord \in Nat
      /\ line.err \in {"nil", "eof", "err"}
      /\ line.kind \in {"chunk", "malformed", "[DONE]"} => line \in Payloads
  BY <1>1 DEF Lines, Payloads
<1> HIDE DEF line
<1>4. data.kind # "chunk" \/ data # NoData
  BY DEF NoData
<1>5. FlowOK'
  BY <1>0, <1>2 DEF FlowOK, NothingToFinish
<1>6. EndingOK'
  BY <1>0, <1>1, <1>2, <1>3 DEF FlowOK, EndingOK, Responses
<1>7. BrokenOK'
  BY <1>0, <1>1, <1>2 DEF BrokenOK
<1>8. ReaderOK'
  <2>1. lineCh' \in Seq(Lines) /\ Len(lineCh') <= 1
    BY <1>1
  <2>2. data' \in {NoData} \cup Payloads /\ reading' \in BOOLEAN
    BY <1>0, <1>1, <1>2, <1>3 DEF ReaderOK
  <2>3. "[DONE]" \in {LineKind', data'.kind} => upstream' # "sending"
    BY <1>0, <1>1, <1>2 DEF ReaderOK
  <2>4. t.finished => /\ upstream' # "sending"
                      /\ {LineKind', data'.kind} \cap {"chunk", "malformed"} = {}
    BY <1>0, <1>1, <1>2 DEF ReaderOK
  <2>5. t.todo \notin FinishSteps
    BY <1>0 DEF FlowOK, FinishSteps
  <2> QED
    BY <1>0, <1>1, <1>2, <1>3, <2>1, <2>2, <2>3, <2>4, <2>5 DEF ReaderOK
<1>9. PlaceOK'
  <2>1. t.todo = "idle" /\ outcome = "none"
    BY <1>0 DEF FlowOK, EndingOK
  <2>2. data'.kind = "chunk" => data'.ord = t.at[1] /\ Len(chunks) = t.at[1]
    BY <1>0, <1>1, <1>2 DEF PlaceOK
  <2>3. data'.kind # "chunk" => Len(chunks) = t.at[1] - 1
    <3>1. CASE line.kind = "chunk"
      BY <1>2, <3>1
    <3>2. CASE line.kind # "chunk" /\ data.kind = "chunk"
      BY <1>0, <1>1, <1>2, <1>4, <3>2 DEF ReaderOK
    <3>3. CASE line.kind # "chunk" /\ data.kind # "chunk"
      BY <1>0, <1>1, <3>3 DEF PlaceOK
    <3> QED
      BY <3>1, <3>2, <3>3
  <2>4. t.at[1] \in 1 .. Len(chunks) + 1 /\ t.at[2] = 0
    BY <1>0, <1>1, <2>1 DEF PlaceOK
  <2> QED
    BY <1>0, <1>1, <1>2, <2>1, <2>2, <2>3, <2>4 DEF PlaceOK, ConsumeSteps
<1>10. DataOK' /\ Legal
  <2>1. Said' <=> Said
    BY <1>0 DEF Said, Responses
  <2>2. SameView
    BY <1>0, SameViewUnchanged DEF CompatInv
  <2> QED
    BY <1>0, <1>2, <2>1, <2>2, QuietAction
<1>11. Control'
  BY <1>5, <1>6, <1>7, <1>8, <1>9 DEF Control
<1> QED
  BY <1>10, <1>11, InvAgain

LEMMA InterruptKeeps ==
  ASSUME CompatInv, NEW why \in {"idle", "ctx"}, Interrupt(why)
  PROVE  CompatInv' /\ Legal
<1>0. /\ FlowOK /\ EndingOK /\ BrokenOK /\ ReaderOK /\ PlaceOK /\ pc = "wait" /\ pc' = "flush" /\ ending' = why
      /\ UNCHANGED <<t, broken, chunks, upstream, outcome, charged, view, stored, data, reading, lineCh>>
  BY DEF CompatInv, Interrupt, translatorVars, clientVars, upVars
<1>5. FlowOK'
  BY <1>0 DEF FlowOK, NothingToFinish
<1>6. EndingOK'
  BY <1>0 DEF FlowOK, EndingOK, Responses
<1>7. BrokenOK'
  BY <1>0 DEF BrokenOK
<1>8. ReaderOK'
  BY <1>0 DEF ReaderOK, LineKind
<1>9. PlaceOK'
  <2>1. t.todo = "idle" /\ outcome = "none"
    BY <1>0 DEF FlowOK, EndingOK
  <2> QED
    BY <1>0, <2>1 DEF PlaceOK, ConsumeSteps, LineKind
<1>10. DataOK' /\ Legal
  <2>1. Said' <=> Said
    BY <1>0 DEF Said, Responses
  <2>2. SameView
    BY <1>0, SameViewUnchanged DEF CompatInv
  <2> QED
    BY <1>0, <2>1, <2>2, QuietAction
<1>11. Control'
  BY <1>5, <1>6, <1>7, <1>8, <1>9 DEF Control
<1> QED
  BY <1>10, <1>11, InvAgain

LEMMA EmittedKeeps ==
  ASSUME CompatInv, Emitted
  PROVE  CompatInv' /\ Legal
<1>0. /\ FlowOK /\ EndingOK /\ BrokenOK /\ ReaderOK /\ PlaceOK /\ pc = "emit" /\ t.todo = "idle"
      /\ pc' = AfterFlush /\ reading' = (reading \/ AfterFlush = "wait")
      /\ UNCHANGED <<t, broken, chunks, upstream, outcome, charged, view, stored, data, lineCh, ending>>
  BY DEF CompatInv, Emitted, clientVars
<1>1. ~broken /\ data = NoData /\ data.kind = "none" /\ outcome = "none"
  BY <1>0 DEF BrokenOK, ReaderOK, NoData, EndingOK
<1>2. pc' = IF ending = "no" THEN "wait" ELSE "finish"
  BY <1>0 DEF AfterFlush
<1>5. FlowOK'
  BY <1>0, <1>2 DEF FlowOK, NothingToFinish
<1>6. EndingOK'
  BY <1>0, <1>2 DEF FlowOK, EndingOK, Responses
<1>7. BrokenOK'
  BY <1>0, <1>1, <1>2 DEF BrokenOK
<1>8. ReaderOK'
  BY <1>0, <1>1, <1>2 DEF ReaderOK, LineKind, AfterFlush, FinishSteps
<1>9. PlaceOK'
  BY <1>0, <1>1, <1>2 DEF PlaceOK, ConsumeSteps, LineKind, ReaderOK, EndingOK
<1>10. DataOK' /\ Legal
  <2>1. Said' <=> Said
    BY <1>0 DEF Said, Responses
  <2>2. SameView
    BY <1>0, SameViewUnchanged DEF CompatInv
  <2> QED
    BY <1>0, <2>1, <2>2, QuietAction
<1>11. Control'
  BY <1>5, <1>6, <1>7, <1>8, <1>9 DEF Control
<1> QED
  BY <1>10, <1>11, InvAgain

LEMMA FinishedKeeps ==
  ASSUME CompatInv, Finished
  PROVE  CompatInv' /\ Legal
<1>0. /\ FlowOK /\ EndingOK /\ BrokenOK /\ ReaderOK /\ PlaceOK /\ pc = "finishing" /\ t.todo = "idle"
      /\ pc' = "leave"
      /\ UNCHANGED <<t, broken, chunks, upstream, outcome, charged, view, stored, data, lineCh, ending, reading>>
  BY DEF CompatInv, Finished, clientVars, translatorVars, upVars
<1>1. ~broken /\ data = NoData /\ data.kind = "none" /\ outcome = "none" /\ t.finished
  BY <1>0 DEF BrokenOK, ReaderOK, NoData, EndingOK, FlowOK
<1>5. FlowOK'
  BY <1>0, <1>1 DEF FlowOK, NothingToFinish, EndingOK
<1>6. EndingOK'
  BY <1>0 DEF FlowOK, EndingOK, Responses
<1>7. BrokenOK'
  BY <1>0, <1>1 DEF BrokenOK, EndingOK
<1>8. ReaderOK'
  BY <1>0, <1>1 DEF ReaderOK, LineKind
<1>9. PlaceOK'
  BY <1>0, <1>1 DEF PlaceOK, ConsumeSteps, LineKind
<1>10. DataOK' /\ Legal
  <2>1. Said' <=> Said
    BY <1>0 DEF Said, Responses
  <2>2. SameView
    BY <1>0, SameViewUnchanged DEF CompatInv
  <2> QED
    BY <1>0, <2>1, <2>2, QuietAction
<1>11. Control'
  BY <1>5, <1>6, <1>7, <1>8, <1>9 DEF Control
<1> QED
  BY <1>10, <1>11, InvAgain

LEMMA ClosedKeeps ==
  ASSUME CompatInv, Closed
  PROVE  CompatInv' /\ Legal
<1>0. /\ FlowOK /\ EndingOK /\ BrokenOK /\ ReaderOK /\ PlaceOK /\ pc = "closing" /\ t.todo = "idle"
      /\ pc' = "returned"
      /\ UNCHANGED <<t, broken, chunks, upstream, outcome, charged, view, stored, data, lineCh, ending, reading>>
  BY DEF CompatInv, Closed, clientVars, translatorVars, upVars
<1>5. FlowOK'
  BY <1>0 DEF FlowOK, NothingToFinish
<1>6. EndingOK'
  BY <1>0 DEF FlowOK, EndingOK, Responses
<1>7. BrokenOK'
  BY <1>0 DEF BrokenOK
<1>8. ReaderOK'
  BY <1>0 DEF ReaderOK, LineKind
<1>9. PlaceOK'
  BY <1>0 DEF PlaceOK, ConsumeSteps, LineKind, EndingOK
<1>10. DataOK' /\ Legal
  <2>1. Said' <=> Said
    BY <1>0 DEF Said, Responses
  <2>2. SameView
    BY <1>0, SameViewUnchanged DEF CompatInv
  <2> QED
    BY <1>0, <2>1, <2>2, QuietAction
<1>11. Control'
  BY <1>5, <1>6, <1>7, <1>8, <1>9 DEF Control
<1> QED
  BY <1>10, <1>11, InvAgain

\* Steps that concern neither the translator nor what the invariants say of the relay.
LEMMA SameControl ==
  ASSUME CompatInv, SameView,
         UNCHANGED <<pc, t, broken, chunks, upstream, outcome, charged, stored, data, reading, lineCh, ending>>
  PROVE  CompatInv' /\ Legal
<1>0. FlowOK /\ EndingOK /\ BrokenOK /\ ReaderOK /\ PlaceOK
  BY DEF CompatInv
<1>5. FlowOK'
  BY <1>0 DEF FlowOK, NothingToFinish
<1>6. EndingOK'
  BY <1>0 DEF EndingOK, Responses
<1>7. BrokenOK'
  BY <1>0 DEF BrokenOK, Responses
<1>8. ReaderOK'
  BY <1>0 DEF ReaderOK, LineKind
<1>9. PlaceOK'
  BY <1>0 DEF PlaceOK, LineKind, Fragments
<1>10. DataOK' /\ Legal
  <2>1. Said' <=> Said
    BY DEF Said, Responses
  <2> QED
    BY <2>1, QuietAction
<1>11. Control'
  BY <1>5, <1>6, <1>7, <1>8, <1>9 DEF Control
<1> QED
  BY <1>10, <1>11, InvAgain

LEMMA WriteKeepAliveKeeps ==
  ASSUME CompatInv, WriteKeepAlive
  PROVE  CompatInv' /\ Legal
<1>1. SameView
  BY DEF CompatInv, ViewTypes, WriteKeepAlive, SameView, IsView
<1> QED
  BY <1>1, SameControl DEF WriteKeepAlive, upVars

LEMMA BesidesKeeps ==
  ASSUME CompatInv, StaleReaderEnds \/ CancelContext \/ Terminated \/ UNCHANGED vars
  PROVE  CompatInv' /\ Legal
<1>1. UNCHANGED <<pc, t, broken, chunks, upstream, outcome, charged, stored, data, reading, lineCh, ending, view>>
  BY DEF StaleReaderEnds, CancelContext, Terminated, vars, upVars, clientVars, translatorVars
<1>2. SameView
  BY <1>1, SameViewUnchanged DEF CompatInv
<1> QED
  BY <1>1, <1>2, SameControl

\* A line of the upstream, as the reader delivers it.
Reads(kind, err) ==
  /\ reading /\ reading' = FALSE
  /\ lineCh' = Append(lineCh, [kind |-> kind, ord |-> Len(chunks'), err |-> err])
  /\ kind \in {"chunk", "malformed", "[DONE]"} => data = NoData
  /\ kind \in {"chunk", "malformed"} => upstream = "sending"
  /\ kind = "[DONE]" => upstream' # "sending"
  /\ upstream' = "sending" => upstream = "sending"
  /\ kind = "chunk" => \E c \in Chunks : chunks' = Append(chunks, c)
  /\ kind # "chunk" => chunks' = chunks

LEMMA ReadStringReads ==
  ASSUME ReadString
  PROVE  \E kind \in {"chunk", "malformed", "[DONE]", "blank", "none"}, err \in {"nil", "eof", "err"} :
           Reads(kind, err)
<1>1. ASSUME NEW err \in {"nil", "eof", "err"}, NEW chunk \in Chunks, data = NoData, ReadChunk(chunk, err)
      PROVE  Reads("chunk", err)
  BY <1>1 DEF ReadChunk, Reads, Deliver, Ended
<1>2. ASSUME NEW err \in {"nil", "eof", "err"}, data = NoData, ReadMalformed(err)
      PROVE  Reads("malformed", err)
  BY <1>2 DEF ReadMalformed, Reads, Deliver, Ended
<1>3. ASSUME NEW err \in {"nil", "eof", "err"}, data = NoData, ReadDone(err)
      PROVE  Reads("[DONE]", err)
  BY <1>3 DEF ReadDone, Reads, Deliver
<1>4. ASSUME ReadBlank
      PROVE  Reads("blank", "nil")
  BY <1>4 DEF ReadBlank, Reads, Deliver
<1>5. ASSUME NEW err \in {"eof", "err"}, ReadEnd(err)
      PROVE  Reads("none", err)
  BY <1>5 DEF ReadEnd, Reads, Deliver
<1> QED
  BY <1>1, <1>2, <1>3, <1>4, <1>5 DEF ReadString

LEMMA ReadStringKeeps ==
  ASSUME CompatInv, ReadString
  PROVE  CompatInv' /\ Legal
<1>0. /\ FlowOK /\ EndingOK /\ BrokenOK /\ ReaderOK /\ PlaceOK
      /\ UNCHANGED <<t, pc, broken, outcome, charged, view, stored, data, ending>>
  BY DEF CompatInv, ReadString, clientVars, translatorVars
<1>1. PICK kind \in {"chunk", "malformed", "[DONE]", "blank", "none"}, err \in {"nil", "eof", "err"} :
        Reads(kind, err)
  BY ReadStringReads
<1>2. /\ reading /\ lineCh = <<>> /\ LineKind = "nothing" /\ chunks \in Seq(Chunks)
      /\ pc \notin {"attempt", "closing", "returned"} /\ ~reading'
  BY <1>0, <1>1 DEF ReaderOK, LineKind, Reads
<1>3. /\ chunks' \in Seq(Chunks) /\ Len(chunks') \in Nat /\ Len(chunks) \in Nat
      /\ Len(chunks') = IF kind = "chunk" THEN Len(chunks) + 1 ELSE Len(chunks)
      /\ DOMAIN chunks = 1 .. Len(chunks) /\ DOMAIN chunks' = 1 .. Len(chunks')
      /\ \A n \in DOMAIN chunks : chunks'[n] = chunks[n]
      /\ UNCHANGED chunks \/ \E c \in Chunks : chunks' = Append(chunks, c)
  <2>1. CASE kind = "chunk"
    <3>1. PICK c \in Chunks : chunks' = Append(chunks, c)
      BY <1>1, <2>1 DEF Reads
    <3> QED
      BY <1>2, <2>1, <3>1
  <2>2. CASE kind # "chunk"
    BY <1>1, <1>2, <2>2 DEF Reads
  <2> QED
    BY <2>1, <2>2
<1>4. /\ lineCh' \in Seq(Lines) /\ Len(lineCh') = 1 /\ LineKind' = kind
      /\ lineCh'[1].ord = Len(chunks') /\ lineCh' # <<>>
  BY <1>1, <1>2, <1>3 DEF Reads, Lines, LineKind
<1>5. FlowOK'
  BY <1>0 DEF FlowOK, NothingToFinish
<1>6. EndingOK'
  BY <1>0 DEF EndingOK, Responses
<1>7. BrokenOK'
  BY <1>0 DEF BrokenOK, Responses
<1>8. ReaderOK'
  <2>1. /\ kind \in {"chunk", "malformed", "[DONE]"} => data = NoData
        /\ kind \in {"chunk", "malformed"} => upstream = "sending"
        /\ kind = "[DONE]" => upstream' # "sending"
        /\ upstream' = "sending" => upstream = "sending"
    BY <1>1 DEF Reads
  <2>2. NoData.kind = "none"
    BY DEF NoData
  <2>3. data # NoData => pc' \in {"wait", "flush"} /\ kind \in {"nothing", "blank", "none"}
    BY <1>0, <2>1 DEF ReaderOK
  <2>4. "[DONE]" \in {LineKind', data'.kind} => upstream' # "sending"
    BY <1>0, <1>4, <2>1 DEF ReaderOK
  <2>5. pc' \in {"wait", "flush", "emit"} /\ (t'.finished \/ t'.todo \in FinishSteps) =>
          upstream' # "sending" /\ {LineKind', data'.kind} \cap {"chunk", "malformed"} = {}
    BY <1>0, <1>4, <2>1 DEF ReaderOK
  <2>6. /\ pc' \in {"flush", "emit"} => ending' # "no"
        /\ pc' \in {"flush", "emit", "finish", "finishing", "leave"} => ending' \notin {"eof", "err"}
    BY <1>0, <1>2 DEF ReaderOK
  <2>7. data' \in {NoData} \cup Payloads /\ reading' = FALSE
    BY <1>0, <1>1 DEF ReaderOK, Reads
  <2>8. data' # NoData => pc' \in {"wait", "flush"} /\ LineKind' \in {"nothing", "blank", "none"}
    BY <1>0, <1>4, <2>3
  <2>9. lineCh' \in Seq(Lines) /\ Len(lineCh') <= 1 /\ chunks' \in Seq(Chunks)
    BY <1>3, <1>4
  <2> HIDE DEF Reads
  <2> QED
    BY <2>4, <2>5, <2>6, <2>7, <2>8, <2>9, Zenon DEF ReaderOK
<1>9. PlaceOK'
  <2>1. kind = "chunk" => data = NoData /\ data.kind = "none"
    BY <1>1 DEF Reads, NoData
  <2>2. \A c : Fragments(c)' = Fragments(c)
    BY <1>0 DEF Fragments
  <2>3. data'.kind = "chunk" => data'.ord = t'.at[1] /\ Len(chunks') = t'.at[1]
    BY <1>0, <1>3, <2>1 DEF PlaceOK
  <2>4. pc' = "wait" /\ LineKind' = "chunk" => lineCh'[1].ord = t'.at[1] /\ Len(chunks') = t'.at[1]
    <3> SUFFICES ASSUME pc = "wait", kind = "chunk" PROVE Len(chunks) + 1 = t.at[1]
      BY <1>0, <1>3, <1>4
    <3>1. Len(chunks) = t.at[1] - 1 /\ t.at[1] \in 1 .. Len(chunks) + 1
      BY <1>0, <1>2, <2>1 DEF PlaceOK, BrokenOK
    <3> QED
      BY <1>3, <3>1
  <2>5. pc' = "wait" /\ "chunk" \notin {LineKind', data'.kind} => Len(chunks') = t'.at[1] - 1
    BY <1>0, <1>2, <1>3, <1>4 DEF PlaceOK
  <2>6. /\ pc' \in {"flush", "emit"} => ending' # "no"
        /\ pc' \in {"flush", "emit", "finish", "finishing", "leave"} => ending' \notin {"eof", "err"}
    BY <1>0, <1>2 DEF ReaderOK
  <2>7. outcome' # "success"
    BY <1>0, <1>2 DEF EndingOK
  <2>8. ASSUME ~broken'
        PROVE  /\ t'.at[1] \in 1 .. Len(chunks') + 1
               /\ t'.todo \in ConsumeSteps => t'.at[1] \in DOMAIN chunks'
               /\ t'.todo = "text" => chunks'[t'.at[1]].text
               /\ t'.todo = "tools" => t'.at[2] \in 1 .. Len(Fragments(chunks[t.at[1]]))'
               /\ t'.todo # "tools" => t'.at[2] = 0
    <3>1. /\ t.at[1] \in 1 .. Len(chunks) + 1
          /\ t.todo \in ConsumeSteps => t.at[1] \in DOMAIN chunks
          /\ t.todo = "text" => chunks[t.at[1]].text
          /\ t.todo = "tools" => t.at[2] \in 1 .. Len(Fragments(chunks[t.at[1]]))
          /\ t.todo # "tools" => t.at[2] = 0
      BY <1>0, <2>8 DEF PlaceOK
    <3>2. t.at[1] \in 1 .. Len(chunks') + 1 /\ (t.at[1] \in DOMAIN chunks => t.at[1] \in DOMAIN chunks')
      BY <1>3, <3>1
    <3>3. t.at[1] \in DOMAIN chunks => chunks'[t.at[1]] = chunks[t.at[1]]
      BY <1>3
    <3> QED
      BY <1>0, <2>2, <3>1, <3>2, <3>3 DEF ConsumeSteps
  <2> QED
    BY <2>3, <2>4, <2>5, <2>6, <2>7, <2>8 DEF PlaceOK
<1>10. DataOK' /\ Legal
  <2>1. Said' <=> Said
    BY <1>0 DEF Said, Responses
  <2>2. SameView
    BY <1>0, SameViewUnchanged DEF CompatInv
  <2> QED
    BY <1>0, <1>3, <2>1, <2>2, QuietAction
<1>11. Control'
  BY <1>5, <1>6, <1>7, <1>8, <1>9 DEF Control
<1> QED
  BY <1>10, <1>11, InvAgain

LEMMA WriteFailedKeeps ==
  ASSUME CompatInv, WriteFailed, pc \in {"emit", "finishing", "closing"}
  PROVE  CompatInv' /\ Legal
<1>0. /\ FlowOK /\ EndingOK /\ BrokenOK /\ ReaderOK /\ PlaceOK /\ t.todo = "error" /\ broken /\ ~t.finished /\ t.started
      /\ t' = [t EXCEPT !.todo = "idle"]
      /\ UNCHANGED <<chunks, upstream, reading, lineCh, broken, outcome, charged, view, stored, data>>
  BY DEF CompatInv, WriteFailed, clientVars, upVars, BrokenOK
<1>1. \/ pc = "closing" /\ pc' = "returned" /\ UNCHANGED ending
      \/ pc = "emit" /\ ~FlushErrorsCount /\ pc' = "finish" /\ UNCHANGED ending
      \/ pc \in {"emit", "finishing"} /\ pc' = "leave" /\ ending' = "write"
  BY DEF WriteFailed
<1>2. /\ t'.todo = "idle" /\ t'.protocol = t.protocol /\ t'.started = t.started /\ t'.finished = t.finished
      /\ t'.hasContent = t.hasContent /\ t'.at = t.at /\ t'.left = t.left /\ t'.calls = t.calls
      /\ t'.messageStarted = t.messageStarted /\ t'.contentStarted = t.contentStarted /\ t'.text = t.text
      /\ TranslatorTypes'
  BY <1>0 DEF CompatInv, TranslatorTypes, IsTranslator, CallsTyped, Steps
<1>3. data = NoData /\ data.kind = "none"
  BY <1>0 DEF ReaderOK, NoData
<1>5. FlowOK'
  BY <1>0, <1>1, <1>2 DEF FlowOK, FinishSteps
<1>6. EndingOK'
  BY <1>0, <1>1, <1>2 DEF FlowOK, EndingOK, Responses, FlushErrorsCount
<1>7. BrokenOK'
  BY <1>0, <1>1, <1>2 DEF BrokenOK
<1>8. ReaderOK'
  BY <1>0, <1>1, <1>2, <1>3 DEF ReaderOK, LineKind, FlushErrorsCount, EndingOK
<1>9. PlaceOK'
  BY <1>0, <1>1, <1>3 DEF PlaceOK, LineKind
<1>10. ViewTypes' /\ EndsOK' /\ ClaudeOK' /\ GeminiOK' /\ StoredOK'
  BY <1>0, <1>1, <1>2 DEF CompatInv, ViewTypes, EndsOK, ClaudeOK, GeminiOK, StoredOK, Responses
<1>11. ShownOK'
  <2>1. \A item \in Items : Pieces(item)' = Pieces(item)
    BY <1>0, <1>2, ReachedSame
  <2> QED
    BY <1>0, <1>2, <2>1 DEF CompatInv, ShownOK, Items
<1>12. ResponsesOK'
  <2>1. ASSUME Responses'
        PROVE  ResponsesStage'
    <3>1. Responses /\ ResponsesStage
      BY <1>2, <2>1 DEF Responses, CompatInv, ResponsesOK
    <3>2. pc' \notin {"closing", "returned"} => ItemsKnown
      BY <1>0, <1>1, <3>1 DEF ResponsesStage, ConsumeSteps
    <3>3. ItemsKnown' <=> ItemsKnown
      BY <1>2 DEF ItemsKnown
    <3> QED
      BY <1>0, <1>2, <3>1, <3>2, <3>3 DEF ResponsesStage, FinishSteps
  <2> QED
    BY <1>0, <2>1 DEF ResponsesOK
<1>13. Legal
  BY <1>0, <1>2, ProtocolsStutter, Stuttering
<1>14. Control' /\ DataOK'
  BY <1>2, <1>5, <1>6, <1>7, <1>8, <1>9, <1>10, <1>11, <1>12 DEF Control, DataOK
<1> QED
  BY <1>13, <1>14, InvAgain

-----------------------------------------------------------------------------
(* The steps that begin a method: Consume of a payload, Finish, Error.      *)

\* What the beginning of a method leaves alone.
Begins ==
  /\ t'.protocol = t.protocol /\ t'.started = t.started /\ t'.calls = t.calls
  /\ t'.nextIndex = t.nextIndex /\ t'.textOpen = t.textOpen /\ t'.textIndex = t.textIndex
  /\ t'.messageStarted = t.messageStarted /\ t'.contentStarted = t.contentStarted /\ t'.text = t.text
  /\ UNCHANGED <<view, stored, broken, chunks>>

LEMMA NothingBelow ==
  ASSUME NEW n, n = 0
  PROVE  0 .. n - 1 = {}
BY SMT

\* Whatever the protocol, a method that is still to write anything finds the blocks,
\* items and data of the idle translator.
LEMMA BeginsKeeps ==
  ASSUME CompatInv, Begins, TranslatorTypes', ReaderOK',
         t.todo = "idle", t.finished => ~t.started, outcome = "none",
         t'.todo \in {"idle", "text", "tools", "finish", "text done", "fail", "refuse"},
         t'.todo \in {"finish", "text done"} => t'.left = DOMAIN t.calls,
         t'.todo = "finish" => ~Responses \/ ~t.messageStarted,
         t'.todo \in {"text done", "fail", "refuse"} => Responses,
         t'.todo = "text done" => t.messageStarted,
         t'.todo \in FinishSteps => t.hasContent \/ t.started,
         t'.finished => ~t.started,
         t'.hasContent /\ ~t.hasContent => t'.todo \in ConsumeSteps,
         t'.todo # "fail" /\ outcome' # "none" => outcome' = "fallback" \/ t'.todo = "refuse",
         t'.todo = "refuse" => ~t.started,
         t'.todo = "fail" => outcome' \notin {"error", "queue timeout"} /\ pc' = "closing",
         ~broken => \A item \in Items : Reached(item)' = Reached(item),
         \A item \in Items : Pieces(item)' = Pieces(item)
  PROVE  DataOK' /\ Legal
<1>0. /\ TranslatorTypes /\ ViewTypes /\ ShownOK /\ EndsOK /\ ClaudeOK /\ GeminiOK /\ ResponsesOK /\ StoredOK
      /\ BrokenOK /\ FlowOK
  BY DEF CompatInv
<1>1. (Claude' <=> Claude) /\ (Gemini' <=> Gemini) /\ (Responses' <=> Responses)
  BY DEF Begins, Claude, Gemini, Responses
<1>2. ViewTypes'
  BY <1>0 DEF ViewTypes, Begins
<1>3. ~Over /\ ~Over'
  BY DEF Over, Said, Responses, Begins
<1>4. ShownOK'
  <2>1. Gemini => Written = {} /\ Written' = {}
    BY <1>1, <1>0 DEF Written, Begins, Gemini, Responses
  <2>2. \A x : Collected(x)' = Collected(x)
    BY DEF Begins, Collected
  <2> QED
    BY <1>0, <1>1, <2>1, <2>2 DEF ShownOK, Begins, Items
<1>5. EndsOK'
  BY <1>0, <1>3 DEF EndsOK, Begins
<1>6. ClaudeOK'
  <2> SUFFICES ASSUME Claude, ~broken
               PROVE  view'.phase = ClaudePhase' /\ ClaudeBlocks' /\ ClaudeStage'
    BY <1>1 DEF ClaudeOK, Begins
  <2>1. view.phase = ClaudePhase /\ ClaudeBlocks /\ ClaudeStage /\ ~Responses
    BY <1>0 DEF ClaudeOK, Claude, Responses
  <2>2. view'.phase = ClaudePhase'
    BY <2>1 DEF ClaudePhase, Begins
  <2>a. ~t.started => t.nextIndex = 0
    BY <2>1 DEF ClaudeStage
  <2>b. ~t.started => DOMAIN view.blocks = {}
    <3>1. DOMAIN view.blocks = 0 .. t.nextIndex - 1
      BY <2>1 DEF ClaudeBlocks
    <3> QED
      BY <2>a, <3>1, NothingBelow
  <2>4. ~t.started => DOMAIN t.calls = {}
    BY <2>1, <2>b DEF ClaudeBlocks
  <2>3. OpenCalls = DOMAIN t.calls
    BY <2>4 DEF OpenCalls
  <2>5. OpenCalls' = DOMAIN t.calls
    <3>1. CASE t'.finished
      BY <2>4, <3>1, <1>1, <2>1 DEF OpenCalls, ConsumeSteps
    <3>2. CASE ~t'.finished
      BY <3>2, <2>1 DEF OpenCalls, Begins
    <3> QED
      BY <3>1, <3>2
  <2>c. ClaudeBlocks
    BY <2>1
  <2>d. /\ view'.blocks = view.blocks /\ t'.nextIndex = t.nextIndex /\ t'.textOpen = t.textOpen
        /\ t'.textIndex = t.textIndex /\ t'.calls = t.calls /\ OpenCalls' = OpenCalls
    BY <2>3, <2>5 DEF Begins
  <2>6. ClaudeBlocks'
    <3>1. ASSUME NEW i \in DOMAIN view.blocks
          PROVE  /\ IsBlock(view'.blocks[i]) /\ view'.blocks[i].open \in BOOLEAN
                 /\ view'.blocks[i].open <=>
                      (t'.textOpen /\ i = t'.textIndex) \/ (\E x \in OpenCalls' : t'.calls[x] = i)
      <4>1. /\ IsBlock(view.blocks[i]) /\ view.blocks[i].open \in BOOLEAN
            /\ view.blocks[i].open <=>
                 (t.textOpen /\ i = t.textIndex) \/ (\E x \in OpenCalls : t.calls[x] = i)
        BY <2>c DEF ClaudeBlocks
      <4>2. view'.blocks[i] = view.blocks[i]
        BY <2>d
      <4>3. IsBlock(view'.blocks[i]) <=> IsBlock(view.blocks[i])
        BY <4>2
      <4> QED
        BY <2>d, <4>1, <4>2, <4>3
    <3>2. DOMAIN view'.blocks = 0 .. t'.nextIndex - 1 /\ DOMAIN view'.blocks = DOMAIN view.blocks
      BY <2>c, <2>d DEF ClaudeBlocks
    <3>3. /\ t'.textOpen => /\ t'.textIndex \in DOMAIN view'.blocks
                            /\ view'.blocks[t'.textIndex].item = TextItem
          /\ \A x \in DOMAIN t'.calls : /\ t'.calls[x] \in DOMAIN view'.blocks
                                         /\ view'.blocks[t'.calls[x]].item = x
      BY <2>c, <2>d DEF ClaudeBlocks
    <3> QED
      BY <3>1, <3>2, <3>3 DEF ClaudeBlocks, IsBlock
  <2>7. t'.finished => ~t.textOpen
    BY <2>1, <2>b DEF ClaudeBlocks
  <2>8. ClaudeStage'
    BY <2>1, <2>7 DEF ClaudeStage, Begins, ConsumeSteps, FinishSteps
  <2> QED
    BY <2>2, <2>6, <2>8
<1>7. GeminiOK'
  BY <1>1 DEF GeminiOK, ConsumeSteps, Gemini, Responses
<1>8. ResponsesOK'
  <2> SUFFICES ASSUME Responses PROVE ResponsesOK'
    BY <1>1 DEF ResponsesOK
  <2>1. ResponsesStage /\ (ItemsKnown' <=> ItemsKnown)
    BY <1>0 DEF ResponsesOK, ItemsKnown, Begins
  <2>2. pc \notin {"closing", "returned"}
    BY DEF CompatInv, EndingOK
  <2>3. (t.started \/ t.hasContent) => ItemsKnown
    BY <2>1, <2>2 DEF ResponsesStage, ConsumeSteps
  <2>4. ResponsesStage'
    BY <2>1, <2>3 DEF ResponsesStage, Begins, ConsumeSteps, FinishSteps
  <2> SUFFICES ASSUME ~broken
               PROVE  /\ view'.phase = ResponsesPhase' /\ ResponsesItems' /\ ResponsesData'
                      /\ view'.last = "response.failed" => t'.todo = "failed"
    BY <2>4 DEF ResponsesOK, Begins
  <2>5. /\ view.phase = ResponsesPhase /\ ResponsesItems /\ ResponsesData
        /\ view.last = "response.failed" => t.todo = "failed"
    BY <1>0 DEF ResponsesOK
  <2>6. ResponsesPhase = IF t.started THEN "in progress" ELSE "before"
    BY <1>3 DEF ResponsesPhase
  <2>7. ResponsesPhase' = IF t.started THEN "in progress" ELSE "before"
    BY <1>3 DEF ResponsesPhase, Begins
  <2>8. ~t.started => DOMAIN t.calls = {} /\ ~t.messageStarted
    BY <2>1 DEF ResponsesStage, ItemsKnown
  <2>9. t.messageStarted => MessageStage' = MessageStage
    BY <2>8 DEF MessageStage, Afterwards, Begins
  <2>10. \A x \in DOMAIN t.calls : CallStage(x)' = CallStage(x)
    BY <2>8 DEF CallStage, Afterwards, Begins
  <2>11. ResponsesItems'
    <3>1. view'.blocks = view.blocks /\ t'.calls = t.calls /\ t'.messageStarted = t.messageStarted
      BY DEF Begins
    <3> QED
      BY <2>5, <2>9, <2>10, <3>1 DEF ResponsesItems
  <2>12. ResponsesData'
    BY <2>5 DEF ResponsesData, Begins
  <2> QED
    BY <2>5, <2>6, <2>7, <2>11, <2>12 DEF Begins
<1>9. StoredOK'
  <2>1. stored # NoData => broken /\ Responses /\ t.started
    BY <1>0 DEF StoredOK
  <2>2. outcome' \in {"error", "queue timeout"} => ~t.started
    OBVIOUS
  <2> QED
    BY <1>0, <1>1, <2>1, <2>2 DEF StoredOK, Begins
<1>10. Legal
  BY ProtocolsStutter, Stuttering DEF Begins
<1> QED
  BY <1>2, <1>4, <1>5, <1>6, <1>7, <1>8, <1>9, <1>10 DEF DataOK

\* Finish begins: with nothing to do, or with its first step.
LEMMA BeginFinishFields ==
  ASSUME TranslatorTypes, t' = BeginFinish(t), t.todo = "idle"
  PROVE  /\ TranslatorTypes'
         /\ t'.hasContent = t.hasContent /\ t'.at = t.at
         /\ t'.protocol = t.protocol /\ t'.started = t.started /\ t'.calls = t.calls
         /\ t'.nextIndex = t.nextIndex /\ t'.textOpen = t.textOpen /\ t'.textIndex = t.textIndex
         /\ t'.messageStarted = t.messageStarted /\ t'.contentStarted = t.contentStarted /\ t'.text = t.text
         /\ MustFinish(t) => t'.todo = FirstStep(t) /\ t'.left = DOMAIN t.calls /\ t'.finished = FALSE
         /\ ~MustFinish(t) => t'.todo = "idle" /\ t'.finished = TRUE
         /\ ~MustFinish(t) /\ t.finished => t' = t
<1>1. CASE MustFinish(t)
  <2>1. t' = [t EXCEPT !.todo = FirstStep(t), !.left = DOMAIN t.calls]
    BY <1>1 DEF BeginFinish
  <2>2. FirstStep(t) \in {"text done", "finish"} /\ DOMAIN t.calls \subseteq Tools /\ t.finished = FALSE
    BY <1>1 DEF FirstStep, TranslatorTypes, CallsTyped, MustFinish, IsTranslator
  <2>3. /\ t'.hasContent = t.hasContent /\ t'.at = t.at
        /\ t'.protocol = t.protocol /\ t'.started = t.started /\ t'.calls = t.calls
        /\ t'.nextIndex = t.nextIndex /\ t'.textOpen = t.textOpen /\ t'.textIndex = t.textIndex
        /\ t'.messageStarted = t.messageStarted /\ t'.contentStarted = t.contentStarted /\ t'.text = t.text
        /\ t'.todo = FirstStep(t) /\ t'.left = DOMAIN t.calls /\ t'.finished = t.finished
    BY <2>1 DEF TranslatorTypes, IsTranslator
  <2>4. IsTranslator(t')
    BY <2>1, <2>2 DEF TranslatorTypes, IsTranslator, Steps, FinishSteps
  <2>5. CallsTyped(t')
    BY <2>3 DEF TranslatorTypes, CallsTyped
  <2> QED
    BY <1>1, <2>2, <2>3, <2>4, <2>5 DEF TranslatorTypes
<1>2. CASE ~MustFinish(t)
  <2>1. t' = [t EXCEPT !.todo = "idle", !.finished = TRUE]
    BY <1>2 DEF BeginFinish
  <2>2. /\ t'.hasContent = t.hasContent /\ t'.at = t.at
        /\ t'.protocol = t.protocol /\ t'.started = t.started /\ t'.calls = t.calls
        /\ t'.nextIndex = t.nextIndex /\ t'.textOpen = t.textOpen /\ t'.textIndex = t.textIndex
        /\ t'.messageStarted = t.messageStarted /\ t'.contentStarted = t.contentStarted /\ t'.text = t.text
        /\ t'.todo = "idle" /\ t'.left = t.left /\ t'.finished = TRUE
    BY <2>1 DEF TranslatorTypes, IsTranslator
  <2>3. IsTranslator(t')
    BY <2>1 DEF TranslatorTypes, IsTranslator, Steps
  <2>4. CallsTyped(t')
    BY <2>2 DEF TranslatorTypes, CallsTyped
  <2>5. ASSUME t.finished
        PROVE  t' = t
    <3>1. t.finished = TRUE /\ t.todo = "idle"
      BY <2>5 DEF TranslatorTypes, IsTranslator
    <3>2. t = [f \in DOMAIN t |-> t[f]] /\ {"todo", "finished"} \subseteq DOMAIN t
      BY DEF TranslatorTypes, IsTranslator
    <3>3. \A f \in DOMAIN t : t'[f] = t[f]
      BY <2>1, <3>1, <3>2
    <3>4. t' = [f \in DOMAIN t |-> t'[f]]
      BY <2>1, <3>2
    <3> QED
      BY <3>2, <3>3, <3>4
  <2> QED
    BY <1>2, <2>2, <2>3, <2>4, <2>5 DEF TranslatorTypes
<1> QED
  BY <1>1, <1>2

LEMMA BeginFinishKeeps ==
  ASSUME CompatInv, pc \in {"flush", "finish"}, pc' \in {"emit", "finishing"},
         t' = BeginFinish(t), UNCHANGED <<view, stored, broken, chunks, outcome>>, ReaderOK'
  PROVE  /\ DataOK' /\ Legal
         /\ TranslatorTypes' /\ t'.at = t.at /\ t'.protocol = t.protocol
         /\ t'.started = t.started /\ t'.hasContent = t.hasContent /\ t'.finished \in BOOLEAN
         /\ \/ ~t'.finished /\ t'.todo \in {"finish", "text done"} /\ ~NothingToFinish(t)
               /\ (Responses /\ t'.todo = "finish" => t'.left # {})
            \/ t'.finished /\ t'.todo = "idle" /\ ~broken /\ (t.hasContent => t.started)
<1>0. TranslatorTypes /\ FlowOK /\ EndingOK /\ BrokenOK /\ ResponsesOK
  BY DEF CompatInv
<1>1. t.todo = "idle" /\ outcome = "none"
  BY <1>0 DEF FlowOK, EndingOK
<1>2. /\ TranslatorTypes'
      /\ t'.hasContent = t.hasContent /\ t'.at = t.at
      /\ t'.protocol = t.protocol /\ t'.started = t.started /\ t'.calls = t.calls
      /\ t'.nextIndex = t.nextIndex /\ t'.textOpen = t.textOpen /\ t'.textIndex = t.textIndex
      /\ t'.messageStarted = t.messageStarted /\ t'.contentStarted = t.contentStarted /\ t'.text = t.text
      /\ MustFinish(t) => t'.todo = FirstStep(t) /\ t'.left = DOMAIN t.calls /\ t'.finished = FALSE
      /\ ~MustFinish(t) => t'.todo = "idle" /\ t'.finished = TRUE
      /\ ~MustFinish(t) /\ t.finished => t' = t
  BY <1>0, <1>1, BeginFinishFields
<1>3. Begins
  BY <1>2 DEF Begins
<1>4. \A item \in Items : Pieces(item)' = Pieces(item) /\ Reached(item)' = Reached(item)
  BY <1>2, ReachedSame
<1>5. CASE MustFinish(t)
  <2>1. ~t.finished /\ ~NothingToFinish(t) /\ (t.hasContent \/ t.started)
    BY <1>5 DEF MustFinish, NothingToFinish
  <2>2. /\ t'.todo \in {"finish", "text done"} /\ ~t'.finished /\ t'.left = DOMAIN t.calls
        /\ t'.todo = "finish" => ~Responses \/ ~t.messageStarted
        /\ t'.todo = "text done" => Responses /\ t.messageStarted
    BY <1>2, <1>5 DEF FirstStep, Responses
  <2>3. Responses => ItemsKnown
    BY <1>0, <1>1, <2>1 DEF ResponsesOK, ResponsesStage, ConsumeSteps
  <2>4. Responses /\ t'.todo = "finish" => t'.left # {}
    BY <2>2, <2>3 DEF ItemsKnown
  <2>5. DataOK' /\ Legal
    BY <1>1, <1>2, <1>3, <1>4, <2>1, <2>2, BeginsKeeps
  <2> QED
    BY <1>2, <2>1, <2>2, <2>4, <2>5
<1>6. CASE ~MustFinish(t) /\ ~t.finished
  <2>1. ~t.hasContent /\ ~t.started /\ ~broken
    BY <1>0, <1>6 DEF MustFinish, NothingToFinish, BrokenOK
  <2>2. t'.todo = "idle" /\ t'.finished
    BY <1>2, <1>6
  <2>3. DataOK' /\ Legal
    BY <1>1, <1>2, <1>3, <1>4, <1>6, <2>1, <2>2, BeginsKeeps DEF FinishSteps
  <2> QED
    BY <1>2, <2>1, <2>2, <2>3
<1>7. CASE ~MustFinish(t) /\ t.finished
  <2>1. t' = t /\ ~broken /\ (t.hasContent => t.started)
    BY <1>0, <1>2, <1>7 DEF BrokenOK, FlowOK
  <2>2. (Said' <=> Said) /\ SameView
    BY <1>1, SameViewUnchanged DEF Said, CompatInv
  <2>3. DataOK' /\ Legal
    BY <1>1, <2>1, <2>2, QuietAction
  <2> QED
    BY <1>2, <1>7, <2>1, <2>3
<1> QED
  BY <1>5, <1>6, <1>7

LEMMA FinishKeeps ==
  ASSUME CompatInv, Finish
  PROVE  CompatInv' /\ Legal
<1>0. /\ FlowOK /\ EndingOK /\ BrokenOK /\ ReaderOK /\ PlaceOK /\ pc = "finish" /\ pc' = "finishing"
      /\ t' = BeginFinish(t)
      /\ UNCHANGED <<broken, chunks, upstream, outcome, charged, view, stored, data, reading, lineCh, ending>>
  BY DEF CompatInv, Finish, clientVars, upVars
<1>1. t.todo = "idle" /\ data = NoData /\ data.kind = "none" /\ outcome = "none"
  BY <1>0 DEF FlowOK, ReaderOK, NoData, EndingOK
<1>2. ReaderOK'
  BY <1>0, <1>1 DEF ReaderOK, LineKind
<1>3. /\ DataOK' /\ Legal
      /\ TranslatorTypes' /\ t'.at = t.at /\ t'.protocol = t.protocol
      /\ t'.started = t.started /\ t'.hasContent = t.hasContent /\ t'.finished \in BOOLEAN
      /\ \/ ~t'.finished /\ t'.todo \in {"finish", "text done"} /\ ~NothingToFinish(t)
            /\ (Responses /\ t'.todo = "finish" => t'.left # {})
         \/ t'.finished /\ t'.todo = "idle" /\ ~broken /\ (t.hasContent => t.started)
  BY <1>0, <1>2, BeginFinishKeeps
<1>5. FlowOK'
  BY <1>0, <1>3 DEF FlowOK, NothingToFinish, FinishSteps
<1>6. EndingOK'
  BY <1>0, <1>1, <1>3 DEF EndingOK, Responses
<1>7. BrokenOK'
  BY <1>0, <1>3 DEF BrokenOK, Responses
<1>9. PlaceOK'
  BY <1>0, <1>1, <1>3 DEF PlaceOK, LineKind, ConsumeSteps
<1>11. Control'
  BY <1>2, <1>5, <1>6, <1>7, <1>9 DEF Control
<1> QED
  BY <1>3, <1>11, InvAgain

\* Consume begins with the text of the chunk, or with what comes behind it.
LEMMA BeginConsumeFields ==
  ASSUME TranslatorTypes, ReaderOK, t.at[1] \in DOMAIN chunks, t.at[2] = 0, t.todo = "idle",
         t' = BeginConsume(chunks[t.at[1]])
  PROVE  LET chunk == chunks[t.at[1]] IN
         /\ TranslatorTypes'
         /\ t'.finished = t.finished
         /\ t'.protocol = t.protocol /\ t'.started = t.started /\ t'.calls = t.calls
         /\ t'.nextIndex = t.nextIndex /\ t'.textOpen = t.textOpen /\ t'.textIndex = t.textIndex
         /\ t'.messageStarted = t.messageStarted /\ t'.contentStarted = t.contentStarted /\ t'.text = t.text
         /\ chunk.text => t'.todo = "text" /\ t'.at = t.at
         /\ ~chunk.text => t'.todo = Onward(t, chunk).todo /\ t'.at = Onward(t, chunk).at
         /\ t'.hasContent /\ ~t.hasContent => t'.todo \in ConsumeSteps
<1> DEFINE chunk == chunks[t.at[1]]
           u == [t EXCEPT !.hasContent = @ \/ IsContent(chunk)]
<1>1. /\ chunk.text \in BOOLEAN
      /\ chunk.tools \in Seq([tool : Tools, args : BOOLEAN, bare : BOOLEAN])
  <2>1. chunk \in Chunks
    BY SeqElement DEF ReaderOK
  <2>2. chunk \in [text : BOOLEAN, tools : Seq([tool : Tools, args : BOOLEAN, bare : BOOLEAN])]
    BY <2>1, CompatAssumption
  <2> QED
    BY <2>2
<1>2. IsContent(chunk) \in BOOLEAN
  BY <1>1 DEF IsContent
<1> DEFINE h == t.hasContent \/ IsContent(chunk)
<1>3. h \in BOOLEAN
  OBVIOUS
<1>4. u = [t EXCEPT !.hasContent = h]
  OBVIOUS
<1> HIDE DEF h
<1>5. /\ IsTranslator(u) /\ u.hasContent = h /\ u.at = t.at /\ u.left = t.left
      /\ u.finished = t.finished
      /\ u.protocol = t.protocol /\ u.started = t.started /\ u.calls = t.calls
      /\ u.nextIndex = t.nextIndex /\ u.textOpen = t.textOpen /\ u.textIndex = t.textIndex
      /\ u.messageStarted = t.messageStarted /\ u.contentStarted = t.contentStarted /\ u.text = t.text
  BY <1>3, <1>4 DEF TranslatorTypes, IsTranslator
<1>6. t' = IF chunk.text THEN [u EXCEPT !.todo = "text"] ELSE Onward(u, chunk)
  BY DEF BeginConsume
<1> HIDE DEF u, chunk
<1> DEFINE Typed == /\ t'.finished = u.finished /\ t'.left = u.left /\ t'.hasContent = u.hasContent
      /\ t'.protocol = u.protocol /\ t'.started = u.started /\ t'.calls = u.calls
      /\ t'.nextIndex = u.nextIndex /\ t'.textOpen = u.textOpen /\ t'.textIndex = u.textIndex
      /\ t'.messageStarted = u.messageStarted /\ t'.contentStarted = u.contentStarted /\ t'.text = u.text
      /\ IsTranslator(t')
<1>7. CASE chunk.text
  <2>1. t' = [u EXCEPT !.todo = "text"] /\ "text" \in Steps
    BY <1>6, <1>7 DEF Steps, ConsumeSteps
  <2>2. Typed /\ t'.todo = "text" /\ t'.at = u.at
    BY <1>5, <2>1 DEF IsTranslator
  <2>3. CallsTyped(t')
    BY <1>5, <2>2 DEF TranslatorTypes, CallsTyped
  <2> QED
    BY <1>5, <1>7, <2>2, <2>3 DEF TranslatorTypes, ConsumeSteps, chunk
<1>8. CASE ~chunk.text
  <2>1. t' = Onward(u, chunk)
    BY <1>6, <1>8
  <2>a. LET w == Onward(u, chunk) IN IsTranslator(w) /\ w = [u EXCEPT !.todo = w.todo, !.at = w.at]
    BY <1>5, OnwardTyped
  <2>2. IsTranslator(t') /\ t' = [u EXCEPT !.todo = t'.todo, !.at = t'.at]
    BY <2>a, <2>1
  <2>3. Typed
    BY <1>5, <2>2 DEF IsTranslator
  <2>4. CallsTyped(t')
    BY <1>5, <2>3 DEF TranslatorTypes, CallsTyped
  <2>5. t'.todo = Onward(t, chunk).todo /\ t'.at = Onward(t, chunk).at
    BY <1>5, <2>1, OnwardFields DEF TranslatorTypes
  <2>6. ASSUME t'.hasContent, ~t.hasContent
        PROVE  t'.todo \in ConsumeSteps
    <3>1. IsContent(chunk)
      BY <1>5, <2>3, <2>6 DEF h
    <3>2. DOMAIN chunk.tools # {} /\ Fragments(chunk) = chunk.tools
      BY <1>8, <3>1 DEF IsContent, Fragments, Meaningful
    <3>3. 0 < Len(Fragments(chunk))
      BY <1>1, <3>2
    <3>4. u.at[2] < Len(Fragments(chunk))
      BY <1>5, <3>3
    <3> QED
      BY <1>5, <2>1, <3>4, OnwardFields DEF ConsumeSteps
  <2> QED
    BY <1>5, <1>8, <2>3, <2>4, <2>5, <2>6 DEF TranslatorTypes, chunk
<1> QED
  BY <1>7, <1>8

LEMMA FlushChunkKeeps ==
  ASSUME CompatInv, Flush, data.kind = "chunk"
  PROVE  CompatInv' /\ Legal
<1> DEFINE chunk == chunks[t.at[1]]
<1>0. /\ FlowOK /\ EndingOK /\ BrokenOK /\ ReaderOK /\ PlaceOK /\ TranslatorTypes /\ pc = "flush"
      /\ UNCHANGED <<broken, chunks, upstream, outcome, charged, view, stored, reading, lineCh>>
      /\ data' = NoData /\ NoData.kind = "none"
  BY DEF CompatInv, Flush, clientVars, upVars, NoData
<1>1. t' = BeginConsume(chunks[data.ord]) /\ pc' = "emit" /\ UNCHANGED ending
  BY DEF Flush
<1>2. /\ t.todo = "idle" /\ ~broken /\ outcome = "none" /\ data # NoData
      /\ data.ord = t.at[1] /\ Len(chunks) = t.at[1] /\ t.at[2] = 0 /\ t.at[1] \in 1 .. Len(chunks) + 1
      /\ chunks \in Seq(Chunks)
      /\ LineKind \in {"nothing", "blank", "none"} /\ ~t.finished
  BY <1>0 DEF FlowOK, BrokenOK, EndingOK, PlaceOK, ReaderOK
<1>3. t.at[1] \in DOMAIN chunks /\ t' = BeginConsume(chunk)
  BY <1>1, <1>2
<1>4. /\ TranslatorTypes'
      /\ t'.finished = t.finished
      /\ t'.protocol = t.protocol /\ t'.started = t.started /\ t'.calls = t.calls
      /\ t'.nextIndex = t.nextIndex /\ t'.textOpen = t.textOpen /\ t'.textIndex = t.textIndex
      /\ t'.messageStarted = t.messageStarted /\ t'.contentStarted = t.contentStarted /\ t'.text = t.text
      /\ chunk.text => t'.todo = "text" /\ t'.at = t.at
      /\ ~chunk.text => t'.todo = Onward(t, chunk).todo /\ t'.at = Onward(t, chunk).at
      /\ t'.hasContent /\ ~t.hasContent => t'.todo \in ConsumeSteps
  BY <1>0, <1>2, <1>3, BeginConsumeFields
<1> HIDE DEF chunk
<1>5. t'.todo \in {"idle", "text", "tools"}
  BY <1>0, <1>4, OnwardTyped DEF TranslatorTypes
<1>6. FlowOK'
  BY <1>0, <1>1, <1>2, <1>4, <1>5 DEF FlowOK, FinishSteps, ConsumeSteps
<1>7. EndingOK'
  BY <1>0, <1>1, <1>2, <1>4, <1>5 DEF EndingOK, Responses
<1>8. BrokenOK'
  BY <1>0, <1>1, <1>2, <1>4, <1>5 DEF BrokenOK
<1>9. ReaderOK'
  BY <1>0, <1>1, <1>2, <1>4, <1>5 DEF ReaderOK, LineKind, FinishSteps
<1>10. PlaceOK'
  <2>1. \A c : Fragments(c)' = Fragments(c)
    BY <1>0, <1>4 DEF Fragments
  <2>2. CASE chunk.text
    BY <1>0, <1>1, <1>2, <1>3, <1>4, <2>2 DEF PlaceOK, ConsumeSteps, chunk
  <2>3. CASE ~chunk.text /\ t.at[2] < Len(Fragments(chunk))
    <3>1. t'.todo = "tools" /\ t'.at = <<t.at[1], t.at[2] + 1>>
      BY <1>0, <1>4, <2>3, OnwardFields DEF TranslatorTypes
    <3>2. t'.at[1] = t.at[1] /\ t'.at[2] = 1 /\ chunks'[t'.at[1]] = chunk
      BY <1>0, <1>2, <3>1 DEF chunk
    <3>3. Len(Fragments(chunk)) \in Nat
      <4>1. Fragments(chunk) = <<>> \/ Fragments(chunk) = chunk.tools
        BY DEF Fragments
      <4>2. chunk \in Chunks
        BY <1>2, <1>3, SeqElement DEF chunk
      <4>3. chunk.tools \in Seq([tool : Tools, args : BOOLEAN, bare : BOOLEAN])
        BY <4>2, CompatAssumption
      <4> QED
        BY <4>1, <4>3
    <3>4. t'.at[2] \in 1 .. Len(Fragments(chunk))
      BY <1>2, <2>3, <3>2, <3>3
    <3>5. t'.at[2] \in 1 .. Len(Fragments(chunks[t.at[1]]))'
      BY <2>1, <3>2, <3>4
    <3> QED
      BY <1>0, <1>1, <1>2, <1>3, <3>1, <3>2, <3>5 DEF PlaceOK, ConsumeSteps
  <2>4. CASE ~chunk.text /\ ~(t.at[2] < Len(Fragments(chunk)))
    <3>1. t'.todo = "idle" /\ t'.at = <<t.at[1] + 1, 0>>
      BY <1>0, <1>4, <2>4, OnwardFields DEF TranslatorTypes
    <3>2. t'.at[1] = t.at[1] + 1 /\ t'.at[2] = 0
      BY <3>1
    <3> QED
      BY <1>0, <1>1, <1>2, <3>1, <3>2 DEF PlaceOK, ConsumeSteps
  <2> QED
    BY <2>2, <2>3, <2>4
<1>11. \A item \in Items : Pieces(item)' = Pieces(item) /\ Reached(item)' = Reached(item)
  <2>1. CASE chunk.text
    BY <1>0, <1>4, <2>1, ReachedSame
  <2>2. CASE ~chunk.text
    <3>1. t.at[2] \in 0 .. Len(Fragments(chunks[t.at[1]]))
      <4>1. Fragments(chunk) = <<>> \/ Fragments(chunk) = chunk.tools
        BY DEF Fragments
      <4>2. chunk \in Chunks
        BY <1>2, <1>3, SeqElement DEF chunk
      <4>3. chunk.tools \in Seq([tool : Tools, args : BOOLEAN, bare : BOOLEAN])
        BY <4>2, CompatAssumption
      <4> QED
        BY <1>2, <4>1, <4>3 DEF chunk
    <3>2. \A item : ~Carries(item, t.at[1], t.at[2])
      BY <1>2, <2>2 DEF Carries, chunk
    <3>3. t'.at = Onward(t, chunks[t.at[1]]).at
      BY <1>4, <2>2 DEF chunk
    <3> QED
      BY <1>0, <1>3, <1>4, <3>1, <3>2, <3>3, ReachedOnward
  <2> QED
    BY <2>1, <2>2
<1>12. DataOK' /\ Legal
  <2>1. Begins
    BY <1>0, <1>4 DEF Begins
  <2>2. outcome' = "none" /\ ~t'.finished /\ t'.todo \notin FinishSteps
    BY <1>0, <1>2, <1>4, <1>5 DEF FinishSteps
  <2> QED
    BY <1>2, <1>4, <1>5, <1>9, <1>11, <2>1, <2>2, BeginsKeeps
<1>13. Control'
  BY <1>6, <1>7, <1>8, <1>9, <1>10 DEF Control
<1> QED
  BY <1>12, <1>13, InvAgain

LEMMA FlushDoneKeeps ==
  ASSUME CompatInv, Flush, data.kind = "[DONE]"
  PROVE  CompatInv' /\ Legal
<1>0. /\ FlowOK /\ EndingOK /\ BrokenOK /\ ReaderOK /\ PlaceOK /\ TranslatorTypes /\ pc = "flush"
      /\ UNCHANGED <<broken, chunks, upstream, outcome, charged, view, stored, reading, lineCh>>
      /\ data' = NoData /\ NoData.kind = "none"
  BY DEF CompatInv, Flush, clientVars, upVars, NoData
<1>1. t' = BeginFinish(t) /\ pc' = "emit" /\ UNCHANGED ending
  BY DEF Flush
<1>2. /\ t.todo = "idle" /\ ~broken /\ outcome = "none" /\ data # NoData
      /\ LineKind \in {"nothing", "blank", "none"} /\ upstream # "sending"
  BY <1>0 DEF FlowOK, BrokenOK, EndingOK, PlaceOK, ReaderOK
<1>3. ReaderOK'
  BY <1>0, <1>1, <1>2 DEF ReaderOK, LineKind
<1>4. /\ DataOK' /\ Legal
      /\ TranslatorTypes' /\ t'.at = t.at /\ t'.protocol = t.protocol
      /\ t'.started = t.started /\ t'.hasContent = t.hasContent /\ t'.finished \in BOOLEAN
      /\ \/ ~t'.finished /\ t'.todo \in {"finish", "text done"} /\ ~NothingToFinish(t)
         \/ t'.finished /\ t'.todo = "idle" /\ (t.hasContent => t.started)
  BY <1>0, <1>1, <1>3, BeginFinishKeeps
<1>5. FlowOK'
  BY <1>0, <1>1, <1>4 DEF FlowOK, NothingToFinish, FinishSteps
<1>6. EndingOK'
  BY <1>0, <1>1, <1>2, <1>4 DEF EndingOK, Responses
<1>7. BrokenOK'
  BY <1>0, <1>1, <1>2, <1>4 DEF BrokenOK
<1>9. PlaceOK'
  BY <1>0, <1>1, <1>2, <1>4 DEF PlaceOK, LineKind, ConsumeSteps
<1>11. Control'
  BY <1>3, <1>5, <1>6, <1>7, <1>9 DEF Control
<1> QED
  BY <1>4, <1>11, InvAgain

LEMMA FlushOtherKeeps ==
  ASSUME CompatInv, Flush, data.kind \notin {"chunk", "[DONE]"}
  PROVE  CompatInv' /\ Legal
<1>0. /\ FlowOK /\ EndingOK /\ BrokenOK /\ ReaderOK /\ PlaceOK /\ TranslatorTypes /\ pc = "flush"
      /\ UNCHANGED <<broken, chunks, upstream, outcome, charged, view, stored, reading, lineCh>>
      /\ data' = NoData /\ NoData.kind = "none"
  BY DEF CompatInv, Flush, clientVars, upVars, NoData
<1>1. /\ UNCHANGED t
      /\ \/ data.kind = "malformed" /\ FlushErrorsCount /\ pc' = "leave" /\ ending' = "malformed"
         \/ pc' = "emit" /\ UNCHANGED ending
  BY DEF Flush
<1>2. t.todo = "idle" /\ ~broken /\ outcome = "none" /\ (data.kind = "malformed" => ~t.finished)
  BY <1>0 DEF FlowOK, BrokenOK, EndingOK, ReaderOK
<1>5. FlowOK'
  BY <1>0, <1>1, <1>2 DEF FlowOK, NothingToFinish
<1>6. EndingOK'
  BY <1>0, <1>1, <1>2 DEF EndingOK, Responses
<1>7. BrokenOK'
  BY <1>0, <1>1, <1>2 DEF BrokenOK
<1>8. ReaderOK'
  BY <1>0, <1>1, <1>2 DEF ReaderOK, LineKind, FinishSteps, EndingOK
<1>9. PlaceOK'
  BY <1>0, <1>1, <1>2 DEF PlaceOK, LineKind, ConsumeSteps
<1>10. DataOK' /\ Legal
  <2>1. Said' <=> Said
    BY <1>0, <1>1 DEF Said, Responses
  <2>2. SameView
    BY <1>0, SameViewUnchanged DEF CompatInv
  <2> QED
    BY <1>0, <1>1, <2>1, <2>2, QuietAction
<1>11. Control'
  BY <1>5, <1>6, <1>7, <1>8, <1>9 DEF Control
<1> QED
  BY <1>10, <1>11, InvAgain

FinishedNew(protocol) == [NewTranslator(protocol) EXCEPT !.todo = "idle", !.finished = TRUE]

\* A new translator finds the view of a client that has got nothing.
LEMMA Fresh ==
  ASSUME CompatInv, pc = "attempt",
         t' = NewTranslator(t.protocol) \/ t' = FinishedNew(t.protocol),
         UNCHANGED <<view, stored, broken>>, chunks' = <<>> \/ chunks' = chunks,
         outcome' \in {"none", "fallback"}
  PROVE  DataOK' /\ Legal
<1>0. /\ TranslatorTypes /\ ViewTypes /\ ShownOK /\ EndsOK /\ ClaudeOK /\ ResponsesOK /\ StoredOK
      /\ BrokenOK /\ FlowOK /\ EndingOK /\ ReaderOK
  BY DEF CompatInv
<1>1. ~t.started /\ ~broken /\ t.todo = "idle" /\ outcome = "none"
  BY <1>0 DEF FlowOK, BrokenOK, EndingOK
<1>2. t.protocol \in {"claude", "gemini", "responses"}
  BY <1>0 DEF TranslatorTypes, IsTranslator
<1>3. /\ t'.protocol = t.protocol /\ t'.started = FALSE /\ t'.hasContent = FALSE /\ t'.finished \in BOOLEAN
      /\ t'.todo = "idle" /\ t'.at = <<1, 0>> /\ t'.left = {} /\ t'.calls = [x \in {} |-> 0]
      /\ t'.nextIndex = 0 /\ t'.textOpen = FALSE /\ t'.textIndex = 0
      /\ t'.messageStarted = FALSE /\ t'.contentStarted = FALSE /\ t'.text = <<>>
      /\ IsTranslator(t')
  <2>1. NewTranslator(t.protocol).protocol = t.protocol /\ <<1, 0>> \in Nat \X Nat /\ <<>> \in Seq(Nat \X Nat)
    BY DEF NewTranslator
  <2>2. IsTranslator(NewTranslator(t.protocol))
    BY <1>2, <2>1 DEF NewTranslator, IsTranslator, Piece, Steps
  <2>3. IsTranslator(FinishedNew(t.protocol))
    BY <2>2 DEF FinishedNew, IsTranslator, Steps
  <2>4. CASE t' = NewTranslator(t.protocol)
    BY <2>2, <2>4 DEF NewTranslator
  <2>5. CASE t' = FinishedNew(t.protocol)
    BY <2>3, <2>5 DEF NewTranslator, FinishedNew
  <2> QED
    BY <2>4, <2>5
<1>4. /\ (Claude' <=> Claude) /\ (Gemini' <=> Gemini) /\ (Responses' <=> Responses)
      /\ DOMAIN t'.calls = {}
  BY <1>3 DEF Claude, Gemini, Responses
<1>5. TranslatorTypes'
  BY <1>3, <1>4 DEF TranslatorTypes, CallsTyped
<1>6. ViewTypes'
  BY <1>0 DEF ViewTypes
<1>7. ~Over /\ ~Over'
  BY <1>1, <1>3 DEF Over, Said
<1>8. EndsOK'
  BY <1>0, <1>7 DEF EndsOK
<1>9. ShownOK'
  <2>1. \A item \in Items : view'.shown[item] = <<>>
    BY <1>0, <1>1 DEF ShownOK
  <2>2. ASSUME NEW item \in Items
        PROVE  Reached(item)' = {}
    <3>1. CASE chunks' = <<>>
      BY <3>1 DEF Reached, Pieces
    <3>2. CASE chunks' = chunks
      <4>1. \A c : Fragments(c)' = Fragments(c)
        BY <1>3 DEF Fragments
      <4>2. Pieces(item)' = Pieces(item)
        BY <3>2, <4>1 DEF Pieces, Carries
      <4>3. \A p \in Pieces(item) : p[1] \in Nat /\ p[1] >= 1 /\ p[2] \in Nat
        BY <1>0, PiecesTyped DEF Piece, ReaderOK
      <4>4. \A p \in Pieces(item) : ~Before(p, <<1, 0>>)
        BY <4>3 DEF Before
      <4> QED
        BY <1>3, <4>2, <4>4 DEF Reached
    <3> QED
      BY <3>1, <3>2
  <2>3. Written' = {} /\ \A x : Collected(x)' = <<>>
    BY <1>3, <1>4 DEF Written, Collected
  <2>4. \A item \in Items : Relays(view'.shown[item], Pieces(item)')
    BY <2>1, RelaysEmpty
  <2> QED
    BY <2>1, <2>2, <2>3, <2>4, EmptyLists DEF ShownOK, Items
<1>10. ClaudeOK'
  <2> SUFFICES ASSUME Claude PROVE view'.phase = ClaudePhase' /\ ClaudeBlocks' /\ ClaudeStage'
    BY <1>4 DEF ClaudeOK
  <2>1. view.phase = ClaudePhase /\ ClaudeBlocks /\ ClaudeStage
    BY <1>0, <1>1 DEF ClaudeOK
  <2>2. view'.phase = ClaudePhase'
    BY <1>1, <1>3, <2>1 DEF ClaudePhase
  <2>3. DOMAIN view.blocks = 0 .. t.nextIndex - 1 /\ t.nextIndex = 0
    BY <1>1, <2>1 DEF ClaudeBlocks, ClaudeStage
  <2>4. DOMAIN view'.blocks = {} /\ 0 .. t'.nextIndex - 1 = {}
    BY <2>3, <1>3, NothingBelow
  <2>5. ClaudeBlocks'
    BY <1>3, <1>4, <2>4 DEF ClaudeBlocks
  <2>6. ClaudeStage'
    BY <1>3 DEF ClaudeStage
  <2> QED
    BY <2>2, <2>5, <2>6
<1>11. GeminiOK'
  BY <1>3 DEF GeminiOK
<1>12. ResponsesOK'
  <2> SUFFICES ASSUME Responses PROVE ResponsesOK'
    BY <1>4 DEF ResponsesOK
  <2>1. /\ ResponsesStage /\ view.phase = ResponsesPhase /\ ResponsesItems /\ ResponsesData
        /\ view.last = "response.failed" => t.todo = "failed"
    BY <1>0, <1>1 DEF ResponsesOK
  <2>2. ~ItemsKnown /\ ~ItemsKnown'
    BY <1>1, <1>3, <1>4, <2>1 DEF ResponsesStage, ItemsKnown
  <2>3. DOMAIN view'.blocks = {}
    BY <2>1, <2>2 DEF ResponsesItems, ItemsKnown
  <2>4. ResponsesPhase = "before" /\ ResponsesPhase' = "before"
    BY <1>1, <1>3, <1>7 DEF ResponsesPhase
  <2>5. \A item \in Items : view'.shown[item] = <<>>
    BY <1>0, <1>1 DEF ShownOK
  <2>6. ResponsesStage'
    BY <1>3, <1>4, <2>2 DEF ResponsesStage, FinishSteps
  <2>7. ResponsesItems'
    BY <1>3, <1>4, <2>3 DEF ResponsesItems
  <2>8. ResponsesData'
    BY <1>3, <1>4, <2>5 DEF ResponsesData, Items
  <2>9. view'.phase = ResponsesPhase' /\ view'.last # "response.failed"
    BY <1>1, <2>1, <2>4
  <2> QED
    BY <2>6, <2>7, <2>8, <2>9 DEF ResponsesOK
<1>13. StoredOK'
  BY <1>0, <1>1, <1>3 DEF StoredOK
<1>14. Legal
  BY <1>3, ProtocolsStutter, Stuttering
<1> QED
  BY <1>5, <1>6, <1>8, <1>9, <1>10, <1>11, <1>12, <1>13, <1>14 DEF DataOK

LEMMA OpenUpstreamKeeps ==
  ASSUME CompatInv, OpenUpstream
  PROVE  CompatInv' /\ Legal
<1>0. /\ FlowOK /\ EndingOK /\ BrokenOK /\ ReaderOK /\ PlaceOK /\ TranslatorTypes /\ pc = "attempt" /\ pc' = "wait"
      /\ t' = NewTranslator(t.protocol) /\ chunks' = <<>> /\ upstream' = "sending" /\ lineCh' = <<>>
      /\ data' = NoData /\ ending' = "no" /\ reading' = TRUE
      /\ UNCHANGED <<view, stored, broken, outcome, charged>>
  BY DEF CompatInv, OpenUpstream, clientVars
<1>1. outcome = "none" /\ ~broken /\ NoData.kind = "none"
  BY <1>0 DEF EndingOK, BrokenOK, NoData
<1>2. /\ t'.protocol = t.protocol /\ ~t'.started /\ ~t'.hasContent /\ ~t'.finished
      /\ t'.todo = "idle" /\ t'.at[1] = 1 /\ t'.at[2] = 0
  BY <1>0 DEF NewTranslator
<1>5. FlowOK'
  BY <1>0, <1>2 DEF FlowOK, FinishSteps
<1>6. EndingOK'
  BY <1>0, <1>1, <1>2 DEF EndingOK
<1>7. BrokenOK'
  BY <1>0, <1>1, <1>2 DEF BrokenOK
<1>8. ReaderOK'
  BY <1>0, <1>1, <1>2 DEF ReaderOK, LineKind, FinishSteps
<1>9. PlaceOK'
  BY <1>0, <1>1, <1>2 DEF PlaceOK, LineKind, ConsumeSteps
<1>10. DataOK' /\ Legal
  BY <1>0, <1>1, <1>2, Fresh
<1>11. Control'
  BY <1>5, <1>6, <1>7, <1>8, <1>9 DEF Control
<1> QED
  BY <1>10, <1>11, InvAgain

LEMMA FallbackKeeps ==
  ASSUME CompatInv, Exhausted, SilentFallback, t.protocol # "responses"
  PROVE  CompatInv' /\ Legal
<1>0. /\ FlowOK /\ EndingOK /\ BrokenOK /\ ReaderOK /\ PlaceOK /\ TranslatorTypes /\ pc = "attempt" /\ pc' = "closing"
      /\ t' = BeginFinish(NewTranslator(t.protocol)) /\ outcome' = "fallback"
      /\ UNCHANGED <<view, stored, broken, charged, chunks, upstream, lineCh, data, ending, reading>>
  BY DEF CompatInv, Exhausted, upVars
<1>1. outcome = "none" /\ ~broken /\ data = NoData /\ NoData.kind = "none" /\ ~reading
  BY <1>0 DEF EndingOK, BrokenOK, NoData, ReaderOK
<1> DEFINE u == NewTranslator(t.protocol)
<1>2. t' = FinishedNew(t.protocol)
  <2>1. ~u.hasContent /\ ~u.started
    BY DEF NewTranslator
  <2>2. ~MustFinish(u)
    BY <2>1 DEF MustFinish, NothingToFinish
  <2> QED
    BY <1>0, <2>2 DEF BeginFinish, FinishedNew
<1>3. /\ t'.protocol = t.protocol /\ ~t'.started /\ ~t'.hasContent /\ t'.finished
      /\ t'.todo = "idle" /\ t'.at[1] = 1 /\ t'.at[2] = 0
  BY <1>2 DEF NewTranslator, FinishedNew
<1>4. Len(chunks) \in Nat
  BY <1>0 DEF ReaderOK
<1>5. FlowOK'
  BY <1>0, <1>3 DEF FlowOK, FinishSteps
<1>6. EndingOK'
  BY <1>0, <1>1, <1>3 DEF EndingOK, Responses
<1>7. BrokenOK'
  BY <1>0, <1>1, <1>3 DEF BrokenOK
<1>8. ReaderOK'
  BY <1>0, <1>1, <1>3 DEF ReaderOK, LineKind, FinishSteps
<1>9. PlaceOK'
  BY <1>0, <1>1, <1>3, <1>4 DEF PlaceOK, LineKind, ConsumeSteps
<1>10. DataOK' /\ Legal
  BY <1>0, <1>1, <1>2, Fresh
<1>11. Control'
  BY <1>5, <1>6, <1>7, <1>8, <1>9 DEF Control
<1> QED
  BY <1>10, <1>11, InvAgain

\* What the end of the attempts leaves alone.
Untouched ==
  UNCHANGED <<chunks, upstream, reading, lineCh, data, ending, view, broken, stored, charged>>

LEMMA EndWithKeeps ==
  ASSUME CompatInv, pc = "attempt", NEW s, NEW o \in {"error", "queue timeout"}, EndWith(s, o),
         Untouched
  PROVE  CompatInv' /\ Legal
<1>0. /\ FlowOK /\ EndingOK /\ BrokenOK /\ ReaderOK /\ PlaceOK /\ TranslatorTypes /\ outcome' = o
      /\ UNCHANGED <<view, stored, broken, charged, chunks, upstream, lineCh, data, ending, reading>>
  BY DEF CompatInv, EndWith, Untouched
<1>1. /\ outcome = "none" /\ ~broken /\ data = NoData /\ NoData.kind = "none" /\ ~reading /\ ~t.started
      /\ t.todo = "idle" /\ ~charged
  BY <1>0 DEF EndingOK, BrokenOK, NoData, ReaderOK, FlowOK
<1>2. CASE Responses
  <2>1. pc' = "closing" /\ t' = [t EXCEPT !.todo = "refuse"] /\ "refuse" \in Steps
    BY <1>2 DEF EndWith, Responses, Steps, ErrorSteps
  <2>2. /\ t'.hasContent = t.hasContent /\ t'.at = t.at /\ t'.left = t.left /\ t'.finished = t.finished
        /\ t'.protocol = t.protocol /\ t'.started = t.started /\ t'.calls = t.calls
        /\ t'.nextIndex = t.nextIndex /\ t'.textOpen = t.textOpen /\ t'.textIndex = t.textIndex
        /\ t'.messageStarted = t.messageStarted /\ t'.contentStarted = t.contentStarted /\ t'.text = t.text
        /\ t'.todo = "refuse" /\ IsTranslator(t')
    BY <1>0, <2>1 DEF TranslatorTypes, IsTranslator
  <2>3. TranslatorTypes'
    BY <1>0, <2>2 DEF TranslatorTypes, CallsTyped
  <2>5. FlowOK'
    BY <1>0, <1>1, <2>1, <2>2 DEF FlowOK, FinishSteps, ErrorSteps
  <2>6. EndingOK'
    BY <1>0, <1>1, <1>2, <2>1, <2>2 DEF EndingOK, Responses
  <2>7. BrokenOK'
    BY <1>0, <1>1, <2>1, <2>2 DEF BrokenOK
  <2>8. ReaderOK'
    BY <1>0, <1>1, <2>1, <2>2 DEF ReaderOK, LineKind
  <2>9. PlaceOK'
    <3>1. \A c : Fragments(c)' = Fragments(c)
      BY <2>2 DEF Fragments
    <3> QED
      BY <1>0, <1>1, <2>1, <2>2, <3>1 DEF PlaceOK, LineKind, ConsumeSteps
  <2>10. DataOK' /\ Legal
    <3>1. Begins
      BY <1>0, <2>2 DEF Begins
    <3>2. \A item \in Items : Pieces(item)' = Pieces(item) /\ Reached(item)' = Reached(item)
      BY <1>0, <2>2, ReachedSame
    <3> QED
      BY <1>0, <1>1, <1>2, <2>1, <2>2, <2>3, <2>8, <3>1, <3>2, BeginsKeeps DEF FinishSteps
  <2>11. Control'
    BY <2>5, <2>6, <2>7, <2>8, <2>9 DEF Control
  <2> QED
    BY <2>10, <2>11, InvAgain
<1>3. CASE ~Responses
  <2>1. pc' = "returned" /\ t' = t
    BY <1>3 DEF EndWith, Responses
  <2>2. /\ ~broken' /\ outcome' = o /\ ~charged' /\ ending' = ending
        /\ t'.todo = "idle" /\ ~t'.started
    <3>1. ~broken'
      BY <1>0, <1>1
    <3>2. outcome' = o
      BY <1>0
    <3>3. ~charged' /\ ending' = ending
      BY <1>0, <1>1
    <3>4. t'.todo = "idle" /\ ~t'.started
      BY <1>1, <2>1
    <3> QED
      BY <3>1, <3>2, <3>3, <3>4
  <2>5. FlowOK'
    BY <1>0, <1>1, <2>1 DEF FlowOK, NothingToFinish
  <2>6. EndingOK'
    BY <2>1, <2>2, <1>3 DEF EndingOK, Responses
  <2>7. BrokenOK'
    BY <2>1, <2>2 DEF BrokenOK
  <2>8. ReaderOK'
    BY <1>0, <1>1, <2>1 DEF ReaderOK, LineKind
  <2>9. PlaceOK'
    BY <1>0, <1>1, <2>1 DEF PlaceOK, LineKind, ConsumeSteps
  <2>10. DataOK' /\ Legal
    <3>1. ~Said' /\ ~Said
      BY <1>3, <2>1 DEF Said, Responses
    <3>2. SameView
      BY <1>0, SameViewUnchanged DEF CompatInv
    <3> QED
      BY <1>0, <1>1, <1>3, <2>1, <3>1, <3>2, QuietAction
  <2>11. Control'
    BY <2>5, <2>6, <2>7, <2>8, <2>9 DEF Control
  <2> QED
    BY <2>10, <2>11, InvAgain
<1> QED
  BY <1>2, <1>3

LEMMA EndsKeep ==
  ASSUME CompatInv, QueueTimeout \/ OpenRefused \/ Exhausted
  PROVE  CompatInv' /\ Legal
<1>1. CASE QueueTimeout
  BY <1>1, EndWithKeeps DEF QueueTimeout, MayTry, upVars, Untouched
<1>2. CASE OpenRefused
  BY <1>2, EndWithKeeps DEF OpenRefused, MayTry, upVars, Untouched
<1>3. CASE Exhausted /\ SilentFallback /\ t.protocol # "responses"
  BY <1>3, FallbackKeeps
<1>4. CASE Exhausted /\ ~(SilentFallback /\ t.protocol # "responses")
  BY <1>4, EndWithKeeps DEF Exhausted, upVars, Untouched
<1> QED
  BY <1>1, <1>2, <1>3, <1>4

\* What the relay returns, by its ending.
LEMMA RelayErrors ==
  /\ ending \in {"malformed", "write"} => RelayError = ending
  /\ ending \notin {"malformed", "write"} /\ ~t.hasContent /\ ~t.started => RelayError = "empty"
  /\ ending \notin {"malformed", "write"} /\ (t.hasContent \/ t.started) => RelayError = "nil"
BY DEF RelayError

LEMMA LeaveKeeps ==
  ASSUME CompatInv, Leave
  PROVE  CompatInv' /\ Legal
<1>0. /\ FlowOK /\ EndingOK /\ BrokenOK /\ ReaderOK /\ PlaceOK /\ TranslatorTypes /\ pc = "leave"
      /\ reading' = FALSE
      /\ UNCHANGED <<broken, chunks, upstream, view, stored, data, lineCh, ending>>
  BY DEF CompatInv, Leave, clientVars
<1>1. /\ t.todo = "idle" /\ outcome = "none" /\ data = NoData /\ NoData.kind = "none" /\ ~charged
      /\ ending \in {"eof", "err", "idle", "ctx", "malformed", "write"}
  BY <1>0 DEF FlowOK, EndingOK, ReaderOK, NoData
<1>2. CASE Retriable
  <2>1. pc' = "attempt" /\ UNCHANGED <<t, outcome, charged>>
    BY <1>2 DEF Leave
  <2>2. ~t.started /\ ~broken
    BY <1>0, <1>2 DEF Retriable, BrokenOK
  <2>5. FlowOK'
    BY <1>0, <1>1, <2>1, <2>2 DEF FlowOK, NothingToFinish
  <2>6. EndingOK'
    BY <1>0, <1>1, <2>1 DEF EndingOK, Responses
  <2>7. BrokenOK'
    BY <1>0, <1>1, <2>1, <2>2 DEF BrokenOK
  <2>8. ReaderOK'
    BY <1>0, <1>1, <2>1 DEF ReaderOK, LineKind
  <2>9. PlaceOK'
    BY <1>0, <1>1, <2>1 DEF PlaceOK, LineKind, ConsumeSteps
  <2>10. DataOK' /\ Legal
    <3>1. Said' <=> Said
      BY <2>1 DEF Said, Responses
    <3>2. SameView
      BY <1>0, SameViewUnchanged DEF CompatInv
    <3> QED
      BY <1>0, <1>1, <2>1, <3>1, <3>2, QuietAction
  <2>11. Control'
    BY <2>5, <2>6, <2>7, <2>8, <2>9 DEF Control
  <2> QED
    BY <2>10, <2>11, InvAgain
<1>3. CASE ~Retriable /\ RelayError # "nil"
  <2>1. /\ outcome' = "interrupted" /\ UNCHANGED charged
        /\ IF t.protocol = "responses"
           THEN pc' = "closing" /\ t' = [t EXCEPT !.todo = "fail"]
           ELSE pc' = "returned" /\ UNCHANGED t
    BY <1>3 DEF Leave
  <2>2. ending \in {"malformed", "write"} /\ ~t.finished /\ (broken \/ ending = "malformed")
    BY <1>0, <1>3, RelayErrors DEF Retriable, FlowOK, BrokenOK
  <2>3. CASE Responses
    <3>1. pc' = "closing" /\ t' = [t EXCEPT !.todo = "fail"] /\ "fail" \in Steps
      BY <2>1, <2>3 DEF Responses, Steps, ErrorSteps
    <3>2. /\ t'.hasContent = t.hasContent /\ t'.at = t.at /\ t'.left = t.left /\ t'.finished = t.finished
          /\ t'.protocol = t.protocol /\ t'.started = t.started /\ t'.calls = t.calls
          /\ t'.nextIndex = t.nextIndex /\ t'.textOpen = t.textOpen /\ t'.textIndex = t.textIndex
          /\ t'.messageStarted = t.messageStarted /\ t'.contentStarted = t.contentStarted /\ t'.text = t.text
          /\ t'.todo = "fail" /\ IsTranslator(t')
      BY <1>0, <3>1 DEF TranslatorTypes, IsTranslator
    <3>3. TranslatorTypes'
      BY <1>0, <3>2 DEF TranslatorTypes, CallsTyped
    <3>5. FlowOK'
      BY <1>0, <1>1, <2>2, <3>1, <3>2 DEF FlowOK, FinishSteps, ErrorSteps
    <3>6. EndingOK'
      BY <1>0, <1>1, <2>1, <2>2, <2>3, <3>1, <3>2 DEF EndingOK, Responses
    <3>7. BrokenOK'
      BY <1>0, <2>2, <3>1, <3>2 DEF BrokenOK
    <3>8. ReaderOK'
      BY <1>0, <1>1, <3>1, <3>2 DEF ReaderOK, LineKind
    <3>9. PlaceOK'
      <4>1. \A c : Fragments(c)' = Fragments(c)
        BY <3>2 DEF Fragments
      <4> QED
        BY <1>0, <1>1, <2>1, <2>2, <3>1, <3>2, <4>1 DEF PlaceOK, LineKind, ConsumeSteps
    <3>10. DataOK' /\ Legal
      <4>1. Begins
        BY <1>0, <3>2 DEF Begins
      <4>2. \A item \in Items : Pieces(item)' = Pieces(item) /\ Reached(item)' = Reached(item)
        BY <1>0, <3>2, ReachedSame
      <4> QED
        BY <1>0, <1>1, <2>1, <2>2, <2>3, <3>1, <3>2, <3>3, <3>8, <4>1, <4>2, BeginsKeeps DEF FinishSteps
    <3>11. Control'
      BY <3>5, <3>6, <3>7, <3>8, <3>9 DEF Control
    <3> QED
      BY <3>10, <3>11, InvAgain
  <2>4. CASE ~Responses
    <3>1. pc' = "returned" /\ UNCHANGED t
      BY <2>1, <2>4 DEF Responses
    <3>5. FlowOK'
      BY <1>0, <1>1, <3>1 DEF FlowOK, NothingToFinish
    <3>6. EndingOK'
      BY <1>0, <1>1, <2>1, <2>4, <3>1 DEF EndingOK, Responses
    <3>7. BrokenOK'
      BY <1>0, <1>1, <3>1, <2>4 DEF BrokenOK, Responses
    <3>8. ReaderOK'
      BY <1>0, <1>1, <3>1 DEF ReaderOK, LineKind
    <3>9. PlaceOK'
      BY <1>0, <1>1, <2>1, <3>1 DEF PlaceOK, LineKind, ConsumeSteps
    <3>10. DataOK' /\ Legal
      <4>1. ~Said /\ ~Said'
        BY <2>4, <3>1 DEF Said, Responses
      <4>2. SameView
        BY <1>0, SameViewUnchanged DEF CompatInv
      <4> QED
        BY <1>0, <1>1, <2>1, <2>4, <3>1, <4>1, <4>2, QuietAction
    <3>11. Control'
      BY <3>5, <3>6, <3>7, <3>8, <3>9 DEF Control
    <3> QED
      BY <3>10, <3>11, InvAgain
  <2> QED
    BY <2>3, <2>4
<1>4. CASE ~Retriable /\ RelayError = "nil"
  <2>1. pc' = "returned" /\ outcome' = "success" /\ charged' = TRUE /\ UNCHANGED t
    BY <1>4 DEF Leave, Return
  <2>2. ending \notin {"malformed", "write"} /\ (t.hasContent \/ t.started)
    BY <1>4, RelayErrors
  <2>3. t.finished /\ t.started /\ ~broken
    BY <1>0, <1>1, <2>2 DEF FlowOK, BrokenOK
  <2>5. FlowOK'
    BY <1>0, <1>1, <2>1 DEF FlowOK, NothingToFinish
  <2>6. EndingOK'
    BY <1>0, <1>1, <2>1, <2>3 DEF EndingOK, Responses
  <2>7. BrokenOK'
    BY <1>0, <1>1, <2>1, <2>3 DEF BrokenOK
  <2>8. ReaderOK'
    BY <1>0, <1>1, <2>1 DEF ReaderOK, LineKind
  <2>9. PlaceOK'
    BY <1>0, <1>1, <2>1 DEF PlaceOK, LineKind, ConsumeSteps
  <2>10. DataOK' /\ Legal
    <3>1. ~Said' /\ ~Said
      BY <1>1, <2>1 DEF Said
    <3>2. SameView
      BY <1>0, SameViewUnchanged DEF CompatInv
    <3> QED
      BY <1>0, <1>1, <2>1, <3>1, <3>2, QuietAction
  <2>11. Control'
    BY <2>5, <2>6, <2>7, <2>8, <2>9 DEF Control
  <2> QED
    BY <2>10, <2>11, InvAgain
<1> QED
  BY <1>2, <1>3, <1>4

-----------------------------------------------------------------------------
(* The theorems.                                                            *)

LEMMA CompatInit ==
  ASSUME Init
  PROVE  /\ CompatInv
         /\ ClaudeClient!ProtocolInit /\ ResponsesClient!ProtocolInit
<1>1. PICK protocol \in {"claude", "gemini", "responses"} : t = NewTranslator(protocol)
  BY CompatAssumption DEF Init
<1>2. /\ t.protocol = protocol /\ t.started = FALSE /\ t.hasContent = FALSE /\ t.finished = FALSE
      /\ t.todo = "idle" /\ t.at = <<1, 0>> /\ t.left = {} /\ t.calls = [x \in {} |-> 0]
      /\ t.nextIndex = 0 /\ t.textOpen = FALSE /\ t.textIndex = 0
      /\ t.messageStarted = FALSE /\ t.contentStarted = FALSE /\ t.text = <<>>
      /\ IsTranslator(t)
  <2>1. <<1, 0>> \in Nat \X Nat /\ <<>> \in Seq(Nat \X Nat)
    OBVIOUS
  <2> QED
    BY <1>1, <2>1 DEF NewTranslator, IsTranslator, Piece, Steps
<1>3. /\ view.comments = 0 /\ view.frames = 0 /\ view.last = "none" /\ view.ends = 0
      /\ view.shown = [item \in Items |-> <<>>] /\ view.phase = "before" /\ view.blocks = [i \in {} |-> 0]
      /\ view \in [comments : Nat, frames : Nat, last : {view.last}, ends : Nat,
                   shown : [Items -> Seq(Piece)], phase : {view.phase}, blocks : {view.blocks}]
  <2>1. view = EmptyView /\ [item \in Items |-> <<>>] \in [Items -> Seq(Piece)]
    BY DEF Init
  <2> QED
    BY <2>1 DEF EmptyView
<1>4. /\ pc = "attempt" /\ chunks = <<>> /\ upstream = "sending" /\ reading = FALSE /\ lineCh = <<>>
      /\ data = NoData /\ NoData.kind = "none" /\ ending = "no" /\ broken = FALSE /\ stored = NoData
      /\ outcome = "none" /\ charged = FALSE
  BY DEF Init, NoData
<1>5. TranslatorTypes /\ ViewTypes
  BY <1>2, <1>3, <1>4 DEF TranslatorTypes, ViewTypes, CallsTyped
<1>6. FlowOK
  BY <1>2, <1>4 DEF FlowOK, FinishSteps
<1>7. EndingOK
  BY <1>2, <1>4 DEF EndingOK
<1>8. BrokenOK
  BY <1>2, <1>4 DEF BrokenOK
<1>9. ReaderOK
  <2>1. lineCh \in Seq(Lines) /\ Len(lineCh) <= 1 /\ chunks \in Seq(Chunks)
    BY <1>4
  <2>2. LineKind = "nothing" /\ data.kind = "none" /\ t.todo \notin FinishSteps
    BY <1>2, <1>4 DEF LineKind, FinishSteps
  <2> QED
    BY <1>2, <1>4, <2>1, <2>2 DEF ReaderOK
<1>10. PlaceOK
  BY <1>2, <1>4 DEF PlaceOK, LineKind, ConsumeSteps
<1>11. ShownOK
  <2>1. \A item \in Items : view.shown[item] = <<>> /\ Relays(view.shown[item], Pieces(item))
    BY <1>3, RelaysEmpty
  <2>2. \A item \in Items : Reached(item) = {}
    BY <1>4 DEF Reached, Pieces
  <2>3. Written = {} /\ \A x : Collected(x) = <<>>
    BY <1>2 DEF Written, Collected
  <2> QED
    BY <2>1, <2>2, <2>3, EmptyLists DEF ShownOK, Items
<1>12. EndsOK /\ ~Over
  BY <1>2, <1>3, <1>4 DEF EndsOK, Over, Said
<1>13. ClaudeOK
  <2>1. 0 .. t.nextIndex - 1 = {}
    BY <1>2, NothingBelow
  <2>2. ClaudeBlocks
    BY <1>2, <1>3, <2>1 DEF ClaudeBlocks
  <2> QED
    BY <1>2, <1>3, <2>2 DEF ClaudeOK, ClaudePhase, ClaudeStage
<1>14. GeminiOK
  BY <1>2 DEF GeminiOK
<1>15. ResponsesOK
  <2>1. ResponsesPhase = "before"
    BY <1>2, <1>12 DEF ResponsesPhase
  <2>2. ResponsesStage
    BY <1>2 DEF ResponsesStage, ItemsKnown, FinishSteps
  <2>3. ResponsesItems /\ ResponsesData
    BY <1>2, <1>3 DEF ResponsesItems, ResponsesData, Items
  <2> QED
    BY <1>3, <2>1, <2>2, <2>3 DEF ResponsesOK
<1>16. StoredOK
  BY <1>2, <1>4 DEF StoredOK
<1>17. CompatInv
  BY <1>5, <1>6, <1>7, <1>8, <1>9, <1>10, <1>11, <1>12, <1>13, <1>14, <1>15, <1>16 DEF CompatInv
<1>18. /\ ViewOf("claude").phase = "before" /\ ViewOf("claude").frames = 0
       /\ ViewOf("claude").blocks = [i \in {} |-> 0]
       /\ ViewOf("responses").phase = "before" /\ ViewOf("responses").frames = 0
       /\ ViewOf("responses").blocks = [i \in {} |-> 0]
  BY <1>3 DEF ViewOf, EmptyView
<1>19. ClaudeClient!ProtocolInit /\ ResponsesClient!ProtocolInit
  BY <1>18 DEF ClaudeClient!ProtocolInit, ResponsesClient!ProtocolInit
<1> QED
  BY <1>17, <1>19

LEMMA CompatNext ==
  ASSUME CompatInv, [Next]_vars
  PROVE  CompatInv' /\ Legal
<1>1. CASE ClientGone \/ OpenFails \/ TakeLine \/ Emitted \/ Finished \/ Closed
  BY <1>1, ClientGoneKeeps, OpenFailsKeeps, TakeLineKeeps, EmittedKeeps, FinishedKeeps, ClosedKeeps
<1>2. CASE IdleTimeout \/ ContextDone
  BY <1>2, InterruptKeeps DEF IdleTimeout, ContextDone
<1>3. CASE QueueTimeout \/ OpenRefused \/ Exhausted
  BY <1>3, EndsKeep
<1>4. CASE OpenUpstream
  BY <1>4, OpenUpstreamKeeps
<1>5. CASE Flush
  BY <1>5, FlushChunkKeeps, FlushDoneKeeps, FlushOtherKeeps
<1>6. CASE Translate
  BY <1>6, TranslateKeeps
<1>7. CASE WriteFailed
  <2>1. pc \in {"emit", "finishing", "closing"}
    BY <1>7 DEF WriteFailed
  <2> QED
    BY <1>7, <2>1, WriteFailedKeeps
<1>8. CASE Finish
  BY <1>8, FinishKeeps
<1>9. CASE Leave
  BY <1>9, LeaveKeeps
<1>10. CASE WriteKeepAlive
  BY <1>10, WriteKeepAliveKeeps
<1>11. CASE ReadString
  BY <1>11, ReadStringKeeps
<1>12. CASE StaleReaderEnds \/ CancelContext \/ Terminated \/ UNCHANGED vars
  BY <1>12, BesidesKeeps
<1> QED
  BY <1>1, <1>2, <1>3, <1>4, <1>5, <1>6, <1>7, <1>8, <1>9, <1>10, <1>11, <1>12 DEF Next, Main

\* The invariant that ties the relay, the translator and the client's view together
\* (stream_live_compat.go 366-504, 547-894, responses.go 310-589).
THEOREM CompatInvariant == Spec => []CompatInv
<1>1. Init => CompatInv
  BY CompatInit
<1>2. CompatInv /\ [Next]_vars => CompatInv'
  BY CompatNext
<1> QED
  BY <1>1, <1>2, PTL DEF Spec

LEMMA RelayedComplete ==
  ASSUME CompatInv
  PROVE  AnswerRelayed
<1>0. /\ ShownOK /\ PlaceOK /\ EndingOK /\ ReaderOK /\ TranslatorTypes
  BY DEF CompatInv
<1>1. \A item \in Items : Relays(view.shown[item], Pieces(item))
  BY <1>0 DEF ShownOK
<1>2. ASSUME NEW item \in Items, outcome = "success", ending = "eof"
      PROVE  \A p \in Pieces(item) : \E k \in DOMAIN view.shown[item] : view.shown[item][k] = p
  <2>1. ~broken /\ t.finished /\ t.started /\ pc = "returned"
    BY <1>0, <1>2 DEF EndingOK
  <2>2. Len(chunks) = t.at[1] - 1 /\ t.at[1] \in 1 .. Len(chunks) + 1 /\ chunks \in Seq(Chunks)
    BY <1>0, <1>2, <2>1 DEF PlaceOK, ReaderOK
  <2>3. \A p \in Pieces(item) : p[1] \in 1 .. Len(chunks) /\ p[2] \in Nat
    BY <1>0, <2>2, PiecesTyped DEF Piece
  <2>4. Reached(item) = Pieces(item)
    BY <2>2, <2>3 DEF Reached, Before
  <2>5. t.todo = "idle"
    BY <2>1 DEF CompatInv, FlowOK
  <2>6. Lists(view.shown[item], Pieces(item))
    <3>1. CASE item = TextItem
      BY <1>0, <2>1, <2>4, <3>1 DEF ShownOK
    <3>2. CASE item # TextItem /\ ~Gemini
      BY <1>0, <2>1, <2>4, <3>2 DEF ShownOK, Items
    <3>3. CASE item # TextItem /\ Gemini
      <4>1. item \in Tools /\ Lists(Collected(item), Pieces(item))
        BY <1>0, <1>2, <2>1, <2>4, <3>3 DEF ShownOK, Items
      <4>2. view.shown[item] = IF item \in Written THEN t.calls[item] ELSE <<>>
        BY <1>0, <2>1, <3>3, <4>1 DEF ShownOK
      <4>3. Written = DOMAIN t.calls
        BY <2>1, <2>5 DEF Written
      <4>4. view.shown[item] = Collected(item)
        BY <4>2, <4>3 DEF Collected
      <4> QED
        BY <4>1, <4>4
    <3> QED
      BY <3>1, <3>2, <3>3
  <2> QED
    BY <2>6 DEF Lists
<1> QED
  BY <1>1, <1>2 DEF AnswerRelayed

\* Text and arguments reach the client of any protocol in order, once and in the
\* block or item they belong to, whatever the upstream sends, over however many
\* attempts; a stream that ended normally arrived completely
\* (stream_live_compat.go 547-655, 722-764, 796-894, responses.go 310-589).
THEOREM AnswersAreRelayed == Spec => []AnswerRelayed
BY CompatInvariant, RelayedComplete, PTL

LEMMA EndsOnce ==
  ASSUME CompatInv
  PROVE  AnsweredStreamsEnd
<1>1. outcome = "success" => t.finished /\ t.started /\ ~broken
  BY DEF CompatInv, EndingOK
<1>2. outcome = "success" => Over
  BY <1>1 DEF Over
<1> QED
  BY <1>1, <1>2 DEF CompatInv, EndingOK, EndsOK, AnsweredStreamsEnd

\* A request is charged exactly when it counts as answered, and then its client has
\* got the last frame; nobody gets it twice (stream_live_compat.go 433-504).
THEOREM AnsweredStreamsAreEnded == Spec => []AnsweredStreamsEnd
BY CompatInvariant, EndsOnce, PTL

LEMMA StoredAsShown ==
  ASSUME CompatInv
  PROVE  StoredIsWhatWasShown
<1>1. outcome = "success" => t.finished /\ t.started /\ ~broken
  BY DEF CompatInv, EndingOK
<1> QED
  BY <1>1 DEF CompatInv, StoredOK, StoredIsWhatWasShown, Responses

\* The entry under a response's id, from which previous_response_id continues, holds
\* what its client was shown; a completed response has one, a failed one has none
\* (responses.go 448-457, responses_store.go 31-43).
THEOREM StoredResponsesWereShown == Spec => []StoredIsWhatWasShown
BY CompatInvariant, StoredAsShown, PTL

\* The stream of a Claude client is a legal event sequence: every step of the relay
\* writes an event that ClaudeProtocol allows or nothing (stream_live_compat.go 547-655).
THEOREM ClaudeStreamsAreLegal == Spec => ImplementsClaudeProtocol
<1>1. Init => CompatInv /\ ClaudeClient!ProtocolInit
  BY CompatInit
<1>2. CompatInv /\ [Next]_vars => CompatInv' /\ [ClaudeClient!ProtocolNext]_(ClaudeClient!protocolVars)
  BY CompatNext DEF Legal
<1> QED
  BY <1>1, <1>2, PTL DEF Spec, ImplementsClaudeProtocol, ClaudeClient!ProtocolSpec

\* The stream of a Responses client is a legal event sequence: every item is added,
\* filled and finished once and in order, and the response completed behind them
\* (responses.go 310-589, 642-688, 726-760).
THEOREM ResponsesStreamsAreLegal == Spec => ImplementsResponsesProtocol
<1>1. Init => CompatInv /\ ResponsesClient!ProtocolInit
  BY CompatInit
<1>2. CompatInv /\ [Next]_vars =>
        CompatInv' /\ [ResponsesClient!ProtocolNext]_(ResponsesClient!protocolVars)
  BY CompatNext DEF Legal
<1> QED
  BY <1>1, <1>2, PTL DEF Spec, ImplementsResponsesProtocol, ResponsesClient!ProtocolSpec
=============================================================================

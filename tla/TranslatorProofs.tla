-------------------------- MODULE TranslatorProofs --------------------------
(***************************************************************************)
(* The inductive invariant of CompatStream, and why the steps of the       *)
(* Claude and of the Gemini translator keep it, for any chunks and any     *)
(* number of attempts.                                                     *)
(*                                                                         *)
(* A write that fails makes the view final: from then on the invariants    *)
(* that tie the translator to the view no longer hold and nothing needs    *)
(* them, so most of them are about a connection that is not broken.        *)
(***************************************************************************)
EXTENDS CompatStream, FiniteSetTheorems, SequenceTheorems, WellFoundedInduction, TLAPS

Piece == Nat \X Nat
Lines == [kind : {"chunk", "malformed", "[DONE]", "blank", "none"}, ord : Nat,
          err : {"nil", "eof", "err"}]
Payloads == [kind : {"chunk", "malformed", "[DONE]"}, ord : Nat, err : {"nil", "eof", "err"}]

ConsumeSteps == {"text", "tools"}
FinishSteps == {"finish", "stop", "text done", "part done", "message done", "call done",
                "put", "completed", "done"}
ErrorSteps == {"fail", "refuse", "failed"}
Steps == {"idle", "error"} \cup ConsumeSteps \cup FinishSteps \cup ErrorSteps

Claude == t.protocol = "claude"
Gemini == t.protocol = "gemini"
Responses == t.protocol = "responses"

-----------------------------------------------------------------------------
(* The inductive invariant.                                                 *)

IsCall(protocol, c) ==
  CASE protocol = "claude" -> c \in Nat
    [] protocol = "gemini" -> c \in Seq(Piece)
    [] protocol = "responses" -> c = [index |-> c.index, args |-> c.args] /\ c.args \in Seq(Piece)

IsTranslator(u) ==
  u \in [protocol : {"claude", "gemini", "responses"}, started : BOOLEAN,
         hasContent : BOOLEAN, finished : BOOLEAN, todo : Steps, at : Piece,
         left : SUBSET Tools, calls : {u.calls}, nextIndex : Nat, textOpen : BOOLEAN,
         textIndex : Nat, messageStarted : BOOLEAN, contentStarted : BOOLEAN,
         text : Seq(Piece)]

CallsTyped(u) ==
  /\ u.calls = [x \in DOMAIN u.calls |-> u.calls[x]]
  /\ DOMAIN u.calls \subseteq Tools /\ u.left \subseteq DOMAIN u.calls
  /\ \A x \in DOMAIN u.calls : IsCall(u.protocol, u.calls[x])

TranslatorTypes == IsTranslator(t) /\ CallsTyped(t)

ViewTypes ==
  /\ view \in [comments : Nat, frames : Nat, last : {view.last}, ends : Nat,
               shown : [Items -> Seq(Piece)], phase : {view.phase}, blocks : {view.blocks}]
  /\ view.blocks = [i \in DOMAIN view.blocks |-> view.blocks[i]]
  /\ broken \in BOOLEAN

\* Where the main goroutine stands, and where the translator's method does.
FlowOK ==
  /\ pc \in {"attempt", "wait", "flush", "emit", "finish", "finishing", "leave", "closing", "returned"}
  /\ pc \in {"attempt", "wait", "flush", "finish", "leave", "returned"} => t.todo = "idle"
  /\ pc = "emit" => t.todo \in {"idle", "error"} \cup ConsumeSteps \cup FinishSteps
  /\ pc = "finishing" => t.todo \in {"idle", "error"} \cup FinishSteps
  /\ pc = "closing" => t.todo \in {"idle", "error"} \cup ErrorSteps
  /\ t.finished => t.todo \in {"idle", "refuse", "failed"}
  /\ t.finished /\ t.hasContent => t.started
  /\ t.todo \in FinishSteps => ~NothingToFinish(t)
  /\ pc = "attempt" => ~t.started
  /\ pc = "finishing" /\ t.todo = "idle" => t.finished
  /\ pc = "leave" /\ ending \in {"eof", "err", "idle", "ctx"} => t.finished
  /\ pc = "leave" /\ ending = "malformed" => ~t.finished

\* Which ending goes with which place, and what the client was told.
EndingOK ==
  /\ pc = "wait" => ending = "no"
  /\ pc \in {"flush", "emit"} => ending \in {"no", "eof", "err", "idle", "ctx"}
  /\ pc \in {"finish", "finishing"} => ending \in {"eof", "err", "idle", "ctx"}
  /\ pc = "leave" => ending \in {"eof", "err", "idle", "ctx", "malformed", "write"}
  /\ outcome = "none" <=> pc \notin {"closing", "returned"}
  /\ charged <=> outcome = "success"
  /\ outcome = "success" => pc = "returned" /\ t.finished /\ t.started /\ ~broken
  /\ t.todo = "fail" => outcome = "interrupted" /\ Responses /\ (broken \/ ~t.finished)
  /\ t.todo = "refuse" => outcome \in {"error", "queue timeout"} /\ Responses /\ ~t.started
  /\ t.todo = "failed" =>
       outcome \in {"interrupted", "error", "queue timeout"} /\ Responses /\ ~(t.finished /\ t.started)
  /\ pc = "closing" => Responses \/ outcome = "fallback"
  /\ outcome = "fallback" => ~Responses /\ t.todo = "idle"

\* Once a write has failed, the method returns its error as soon as it writes again.
BrokenOK ==
  /\ t.todo = "error" => broken
  /\ broken =>
       /\ t.started /\ ~t.finished
       /\ pc \notin {"attempt", "wait", "flush"}
       /\ t.todo \in {"idle", "error", "text done", "finish", "fail"}
       /\ pc = "emit" => t.todo = "error"
       /\ pc = "finishing" => t.todo # "idle"
       /\ pc = "leave" => ending = "write"
       /\ Responses /\ t.todo = "finish" => t.left # {}
  /\ pc = "leave" /\ ending = "write" => broken

LineKind == IF lineCh = <<>> THEN "nothing" ELSE lineCh[1].kind

\* The reader, the line in the channel and the payload that waits for its blank line.
ReaderOK ==
  /\ chunks \in Seq(Chunks)
  /\ lineCh \in Seq(Lines) /\ Len(lineCh) <= 1
  /\ data \in {NoData} \cup Payloads
  /\ reading \in BOOLEAN
  /\ reading => lineCh = <<>> /\ pc \notin {"attempt", "closing", "returned"}
  /\ pc \in {"flush", "emit"} /\ ending = "no" => ~reading /\ lineCh = <<>>
  /\ pc \in {"flush", "emit", "finish", "finishing", "leave"} /\ ending \in {"eof", "err"} =>
       ~reading /\ lineCh = <<>>
  /\ data # NoData => pc \in {"wait", "flush"} /\ LineKind \in {"nothing", "blank", "none"}
  /\ "[DONE]" \in {LineKind, data.kind} => upstream # "sending"
  /\ pc \in {"wait", "flush", "emit"} /\ (t.finished \/ t.todo \in FinishSteps) =>
       /\ upstream # "sending"
       /\ {LineKind, data.kind} \cap {"chunk", "malformed"} = {}

\* How far the translator has come in the stream: at most one chunk is on its way.
PlaceOK ==
  /\ data.kind = "chunk" => data.ord = t.at[1] /\ Len(chunks) = t.at[1]
  /\ pc = "wait" /\ LineKind = "chunk" => lineCh[1].ord = t.at[1] /\ Len(chunks) = t.at[1]
  /\ pc = "wait" /\ "chunk" \notin {LineKind, data.kind} => Len(chunks) = t.at[1] - 1
  /\ pc = "flush" /\ ending \in {"no", "eof", "err"} /\ data.kind # "chunk" =>
       Len(chunks) = t.at[1] - 1
  /\ ~broken =>
       /\ t.at[1] \in 1 .. Len(chunks) + 1
       /\ t.todo \in ConsumeSteps => t.at[1] \in DOMAIN chunks
       /\ t.todo = "text" => chunks[t.at[1]].text
       /\ t.todo = "tools" => t.at[2] \in 1 .. Len(Fragments(chunks[t.at[1]]))
       /\ t.todo # "tools" => t.at[2] = 0
       /\ pc = "emit" /\ ending \in {"no", "eof", "err"} =>
            Len(chunks) = IF t.todo \in ConsumeSteps THEN t.at[1] ELSE t.at[1] - 1
       /\ pc \in {"finish", "finishing", "leave"} /\ ending \in {"eof", "err"} =>
            Len(chunks) = t.at[1] - 1
       /\ outcome = "success" /\ ending = "eof" => Len(chunks) = t.at[1] - 1

\* The pieces that the translator has taken.
Reached(item) == {p \in Pieces(item) : Before(p, t.at)}

Lists(s, S) ==
  /\ \A k \in DOMAIN s : s[k] \in S
  /\ \A p \in S : \E k \in DOMAIN s : s[k] = p
  /\ \A j, k \in DOMAIN s : j < k => Before(s[j], s[k])

Collected(x) == IF x \in DOMAIN t.calls THEN t.calls[x] ELSE <<>>

\* Gemini: the calls that have been written.
Written ==
  IF t.todo = "finish" THEN DOMAIN t.calls \ t.left
  ELSE IF t.finished /\ t.started THEN DOMAIN t.calls ELSE {}

ShownOK ==
  /\ \A item \in Items : Relays(view.shown[item], Pieces(item))
  /\ ~broken =>
       /\ Lists(view.shown[TextItem], Reached(TextItem))
       /\ ~Gemini => \A x \in Tools : Lists(view.shown[x], Reached(x))
       /\ Gemini => \A x \in Tools :
            /\ Lists(Collected(x), Reached(x))
            /\ view.shown[x] = IF x \in Written THEN t.calls[x] ELSE <<>>
  /\ ~t.started => \A item \in Items : view.shown[item] = <<>>

\* The failure has been reported.
Said == Responses /\ t.todo = "idle" /\ outcome \in {"interrupted", "error", "queue timeout"}
Over == (t.finished /\ t.started) \/ Said

EndsOK ==
  /\ view.ends <= 1
  /\ ~broken => view.ends = IF Over THEN 1 ELSE 0
  /\ ~broken /\ Over => view.last = LastKind

\* Claude: the calls whose blocks are open.
OpenCalls ==
  IF t.todo = "finish" THEN t.left
  ELSE IF t.todo = "stop" \/ t.finished THEN {} ELSE DOMAIN t.calls

ClaudePhase ==
  IF ~t.started THEN "before"
  ELSE IF t.finished THEN "stopped" ELSE IF t.todo = "stop" THEN "closing" ELSE "blocks"

IsBlock(b) == b = [open |-> b.open, deltas |-> b.deltas, item |-> b.item]

\* Claude: a block is open while the translator can still write to it.
ClaudeBlocks ==
  /\ DOMAIN view.blocks = 0 .. t.nextIndex - 1
  /\ \A i \in DOMAIN view.blocks :
       /\ IsBlock(view.blocks[i])
       /\ view.blocks[i].open \in BOOLEAN
       /\ view.blocks[i].open <=>
            (t.textOpen /\ i = t.textIndex) \/ (\E x \in OpenCalls : t.calls[x] = i)
  /\ t.textOpen => /\ t.textIndex \in DOMAIN view.blocks
                   /\ view.blocks[t.textIndex].item = TextItem
  /\ \A x \in DOMAIN t.calls : /\ t.calls[x] \in DOMAIN view.blocks
                               /\ view.blocks[t.calls[x]].item = x

ClaudeStage ==
  /\ t.textOpen => t.todo # "stop" /\ ~t.finished
  /\ ~t.started => t.nextIndex = 0
  /\ ~t.started /\ t.hasContent => t.todo \in ConsumeSteps
  /\ t.todo = "stop" => t.started
  /\ t.started /\ t.nextIndex = 0 => t.todo \in ConsumeSteps
  /\ t.todo \in ConsumeSteps \cup {"idle", "finish", "stop"}

ClaudeOK ==
  Claude /\ ~broken => view.phase = ClaudePhase /\ ClaudeBlocks /\ ClaudeStage

\* Responses: the stages of the items that the client has seen.
ResponsesPhase ==
  CASE t.todo = "failed" -> "failed"
    [] t.todo = "done" -> "completed"
    [] Over -> "stopped"
    [] t.todo \notin {"failed", "done"} /\ ~Over -> IF t.started THEN "in progress" ELSE "before"

Afterwards == t.todo \in {"finish", "call done", "put", "completed", "done"} \/ t.finished

MessageStage ==
  IF ~t.contentStarted THEN "added"
  ELSE IF t.todo = "part done" THEN "filled"
  ELSE IF t.todo = "message done" THEN "closed"
  ELSE IF Afterwards THEN "done" ELSE "open"

CallStage(x) ==
  IF ~Afterwards THEN "open"
  ELSE IF t.todo \in {"finish", "call done"} /\ x \in t.left
       THEN IF t.todo = "call done" /\ x = Min(t.left) THEN "closed" ELSE "open"
       ELSE "done"

\* What is not started in the view is not started in the translator either.
ItemsKnown == DOMAIN t.calls # {} \/ t.messageStarted

\* Which items the translator knows of, by where it stands.
ResponsesStage ==
  /\ t.messageStarted /\ ~t.contentStarted => t.todo = "text" \/ broken
  /\ t.contentStarted => t.messageStarted
  /\ ~t.started => ~ItemsKnown /\ t.text = <<>>
  /\ t.todo \in FinishSteps => ItemsKnown
  /\ pc \notin {"closing", "returned"} /\ (t.started \/ t.hasContent) /\ ~ItemsKnown =>
       t.todo \in ConsumeSteps
  /\ t.todo \in {"text done", "part done", "message done"} =>
       t.messageStarted /\ t.left = DOMAIN t.calls
  /\ t.todo = "call done" => t.left # {}
  /\ t.todo \in {"put", "completed", "done"} => t.left = {}
  /\ t.todo # "stop"

\* The items of the view are those of the translator, at the stage it left them.
ResponsesItems ==
  /\ DOMAIN view.blocks = DOMAIN t.calls \cup (IF t.messageStarted THEN {TextItem} ELSE {})
  /\ t.messageStarted => view.blocks[TextItem] = MessageStage
  /\ \A x \in DOMAIN t.calls : view.blocks[x] = CallStage(x)

\* What the translator has kept of the data is what the client was shown.
ResponsesData ==
  /\ t.text = view.shown[TextItem]
  /\ \A x \in Tools :
       view.shown[x] = IF x \in DOMAIN t.calls THEN t.calls[x].args ELSE <<>>

ResponsesOK ==
  Responses =>
    /\ ResponsesStage
    /\ ~broken =>
         /\ view.phase = ResponsesPhase
         /\ ResponsesItems /\ ResponsesData
         /\ view.last = "response.failed" => t.todo = "failed"

GeminiOK ==
  Gemini => t.todo \in ConsumeSteps \cup {"idle", "error", "finish"}

StoredOK ==
  /\ stored # NoData =>
       /\ Responses /\ t.started
       /\ broken \/ t.finished \/ t.todo \in {"completed", "done"}
       /\ stored.text = view.shown[TextItem]
       /\ DOMAIN stored.calls = DOMAIN view.blocks \ {TextItem}
       /\ \A tool \in DOMAIN stored.calls : stored.calls[tool].args = view.shown[tool]
       /\ view.last # "response.failed" /\ outcome \notin {"error", "queue timeout"}
  /\ Responses /\ ~broken /\ (t.todo \in {"completed", "done"} \/ (t.finished /\ t.started)) =>
       stored # NoData

CompatInv ==
  /\ TranslatorTypes /\ ViewTypes
  /\ FlowOK /\ EndingOK /\ BrokenOK
  /\ ReaderOK /\ PlaceOK
  /\ ShownOK /\ EndsOK
  /\ ClaudeOK /\ GeminiOK /\ ResponsesOK /\ StoredOK
-----------------------------------------------------------------------------
(* The translator's types.                                                  *)

LEMMA ExtendedFunction ==
  ASSUME NEW f, NEW x, NEW v
  PROVE  /\ Extended(f, x, v) = [y \in DOMAIN f \cup {x} |-> Extended(f, x, v)[y]]
         /\ DOMAIN Extended(f, x, v) = DOMAIN f \cup {x}
         /\ Extended(f, x, v)[x] = v
         /\ \A y \in DOMAIN f : y # x => Extended(f, x, v)[y] = f[y]
  BY DEF Extended

LEMMA SeqElement ==
  ASSUME NEW S, NEW s \in Seq(S), NEW i \in DOMAIN s
  PROVE  s[i] \in S
  OBVIOUS

\* The chunk that is being translated, and the fragment that is next.
LEMMA ChunkTyped ==
  ASSUME ReaderOK, PlaceOK, ~broken, t.todo \in ConsumeSteps
  PROVE  LET chunk == chunks[t.at[1]] IN
         /\ t.at[1] \in DOMAIN chunks
         /\ chunk.text \in BOOLEAN
         /\ chunk.tools \in Seq([tool : Tools, args : BOOLEAN, bare : BOOLEAN])
         /\ t.todo = "tools" =>
              /\ t.at[2] \in DOMAIN chunk.tools
              /\ Fragments(chunk) = chunk.tools
              /\ Fragment(chunk).tool \in Tools
              /\ Fragment(chunk).args \in BOOLEAN
<1> DEFINE chunk == chunks[t.at[1]]
<1>1. t.at[1] \in DOMAIN chunks /\ chunks \in Seq(Chunks)
  BY DEF ReaderOK, PlaceOK
<1>2. chunk \in Chunks
  BY <1>1
<1>3. chunk.text \in BOOLEAN /\ chunk.tools \in Seq([tool : Tools, args : BOOLEAN, bare : BOOLEAN])
  BY <1>2, CompatAssumption
<1>4. ASSUME t.todo = "tools"
      PROVE  t.at[2] \in DOMAIN chunk.tools /\ Fragments(chunk) = chunk.tools
  BY <1>3, <1>4 DEF PlaceOK, Fragments
<1>5. ASSUME t.todo = "tools"
      PROVE  Fragment(chunk).tool \in Tools /\ Fragment(chunk).args \in BOOLEAN
  <2>1. chunk.tools[t.at[2]] \in [tool : Tools, args : BOOLEAN, bare : BOOLEAN]
    <3> HIDE DEF chunk
    <3> DEFINE Fragment1 == [tool : Tools, args : BOOLEAN, bare : BOOLEAN]
    <3>1. chunk.tools \in Seq(Fragment1) /\ t.at[2] \in DOMAIN chunk.tools
      BY <1>3, <1>4, <1>5
    <3> HIDE DEF Fragment1
    <3>2. chunk.tools[t.at[2]] \in Fragment1
      BY <3>1, SeqElement
    <3> QED
      BY <3>2 DEF Fragment1
  <2> QED
    BY <2>1 DEF Fragment
<1> QED
  BY <1>1, <1>3, <1>4, <1>5

LEMMA OnwardTyped ==
  ASSUME NEW u, NEW chunk, IsTranslator(u)
  PROVE  LET w == Onward(u, chunk) IN
         /\ IsTranslator(w)
         /\ w.todo \in {"idle", "tools"}
         /\ w = [u EXCEPT !.todo = w.todo, !.at = w.at]
<1> DEFINE w == Onward(u, chunk)
<1>0. u.at \in Nat \X Nat
  BY DEF IsTranslator, Piece
<1>1. CASE u.at[2] < Len(Fragments(chunk))
  <2>1. w = [u EXCEPT !.todo = "tools", !.at = <<u.at[1], u.at[2] + 1>>]
    BY <1>1 DEF Onward
  <2>2. w.todo = "tools" /\ w.at = <<u.at[1], u.at[2] + 1>>
    BY <2>1 DEF IsTranslator
  <2>3. w.at \in Piece /\ w.todo \in Steps
    BY <2>2, <1>0 DEF Piece, Steps, ConsumeSteps
  <2>4. w = [u EXCEPT !.todo = w.todo, !.at = w.at]
    BY <2>1, <2>2
  <2>5. IsTranslator(w)
    BY <2>4, <2>3 DEF IsTranslator
  <2> QED
    BY <2>2, <2>4, <2>5
<1>2. CASE ~(u.at[2] < Len(Fragments(chunk)))
  <2>1. w = [u EXCEPT !.todo = "idle", !.at = <<u.at[1] + 1, 0>>]
    BY <1>2 DEF Onward
  <2>2. w.todo = "idle" /\ w.at = <<u.at[1] + 1, 0>>
    BY <2>1 DEF IsTranslator
  <2>3. w.at \in Piece /\ w.todo \in Steps
    BY <2>2, <1>0 DEF Piece, Steps
  <2>4. w = [u EXCEPT !.todo = w.todo, !.at = w.at]
    BY <2>1, <2>2
  <2>5. IsTranslator(w)
    BY <2>4, <2>3 DEF IsTranslator
  <2> QED
    BY <2>2, <2>4, <2>5
<1> QED
  BY <1>1, <1>2
\* The translator after a step, whether its write succeeds or not.
LEMMA WriteTyped ==
  ASSUME NEW e, NEW u, NEW f, write(e, u, f),
         IsTranslator(u), CallsTyped(u), IsTranslator(f), CallsTyped(f),
         u.protocol = t.protocol, f.protocol = t.protocol
  PROVE  TranslatorTypes' /\ t'.protocol = t.protocol
<1> DEFINE g == [f EXCEPT !.started = TRUE, !.finished = FALSE, !.todo = "error"]
<1>1. IsTranslator(g) /\ g.calls = f.calls /\ g.left = f.left /\ g.protocol = f.protocol
  BY DEF IsTranslator, Steps
<1>2. CallsTyped(g)
  BY <1>1 DEF CallsTyped
<1>3. t' = u \/ t' = g
  BY DEF write
<1> QED
  BY <1>1, <1>2, <1>3 DEF TranslatorTypes

LEMMA EmitTyped ==
  ASSUME NEW e, NEW u, emit(e, u), IsTranslator(u), CallsTyped(u), u.protocol = t.protocol
  PROVE  TranslatorTypes' /\ t'.protocol = t.protocol
BY WriteTyped DEF emit

\* A step that does not open a call leaves the calls typed.
LEMMA SameCallsTyped ==
  ASSUME TranslatorTypes, NEW u, IsTranslator(u), u.calls = t.calls, u.left \subseteq t.left,
         u.protocol = t.protocol
  PROVE  CallsTyped(u)
BY DEF TranslatorTypes, CallsTyped

LEMMA ExtendedTyped ==
  ASSUME TranslatorTypes, NEW u, IsTranslator(u), NEW x \in Tools, NEW c, IsCall(t.protocol, c),
         u.calls = Extended(t.calls, x, c), u.left = t.left, u.protocol = t.protocol
  PROVE  CallsTyped(u)
<1>1. u.calls = [y \in DOMAIN t.calls \cup {x} |-> IF y = x THEN c ELSE t.calls[y]]
  BY DEF Extended
<1>2. DOMAIN u.calls = DOMAIN t.calls \cup {x}
  BY <1>1
<1>3. u.calls = [y \in DOMAIN u.calls |-> u.calls[y]]
  BY <1>1
<1>4. u.calls[x] = c /\ \A y \in DOMAIN t.calls : y # x => u.calls[y] = t.calls[y]
  BY <1>1
<1>5. DOMAIN t.calls \subseteq Tools /\ t.left \subseteq DOMAIN t.calls
  BY DEF TranslatorTypes, CallsTyped
<1>6. \A y \in DOMAIN u.calls : IsCall(u.protocol, u.calls[y])
  BY <1>2, <1>4 DEF TranslatorTypes, CallsTyped
<1> QED
  BY <1>2, <1>3, <1>5, <1>6 DEF CallsTyped

-----------------------------------------------------------------------------
(* The control of a step of the translator.                                 *)

Rest == <<pc, attempts, upVars, data, ending, cancelled, outcome, charged>>

\* A step that did not fail, as far as the relay can tell.
SameFlags ==
  /\ ~broken /\ ~broken'
  /\ t'.protocol = t.protocol /\ t'.hasContent = t.hasContent /\ (t.started => t'.started)

Stays ==
  /\ t.todo \in ConsumeSteps \cup {"fail"} /\ t'.todo = t.todo
  /\ t'.at = t.at /\ t'.finished = t.finished
Advances(chunk) ==
  /\ t.todo \in ConsumeSteps /\ t'.todo = Onward(t, chunk).todo
  /\ t'.at = Onward(t, chunk).at /\ t'.finished = t.finished
GoesOn ==
  /\ t.todo \in FinishSteps /\ t'.todo \in FinishSteps
  /\ t'.at = t.at /\ t'.finished = t.finished
Completes ==
  /\ t.todo \in FinishSteps /\ t'.todo = "idle"
  /\ t'.at = t.at /\ t'.finished /\ t'.started
Reports ==
  /\ t.todo \in ErrorSteps /\ t'.at = t.at /\ t'.finished = t.finished
  /\ \/ t.todo = "fail" /\ t.started /\ t'.todo = "failed"
     \/ t.todo = "refuse" /\ t'.todo = "failed" /\ t'.started = t.started
     \/ t.todo = "failed" /\ t'.todo = "idle" /\ t'.started = t.started

Moves(chunk) ==
  SameFlags /\ (Stays \/ Advances(chunk) \/ GoesOn \/ Completes \/ Reports)

Control == FlowOK /\ EndingOK /\ BrokenOK /\ ReaderOK /\ PlaceOK

\* A step that failed: the view is final.
Fails ==
  /\ broken' = TRUE /\ UNCHANGED <<view, stored>>
  /\ TranslatorTypes' /\ t'.protocol = t.protocol
  /\ t'.todo = "error" /\ t'.started /\ ~t'.finished
  /\ Responses => /\ t'.contentStarted => t'.messageStarted
                  /\ pc # "closing" => ItemsKnown'

Places == pc \in {"emit", "finishing", "closing"}

LEMMA OnwardFields ==
  ASSUME NEW u, NEW chunk, IsTranslator(u)
  PROVE  /\ u.at[2] < Len(Fragments(chunk)) =>
              Onward(u, chunk).todo = "tools" /\ Onward(u, chunk).at = <<u.at[1], u.at[2] + 1>>
         /\ ~(u.at[2] < Len(Fragments(chunk))) =>
              Onward(u, chunk).todo = "idle" /\ Onward(u, chunk).at = <<u.at[1] + 1, 0>>
BY DEF Onward, IsTranslator

LEMMA PlaceMoves ==
  ASSUME TranslatorTypes, Control, Places, Moves(chunks[t.at[1]]), UNCHANGED Rest
  PROVE  PlaceOK'
<1> DEFINE chunk == chunks[t.at[1]]
<1>a. chunks \in Seq(Chunks) /\ Len(chunks) \in Nat
  BY DEF Control, ReaderOK
<1>b. t.at \in Nat \X Nat /\ Onward(t, chunk).at \in Nat \X Nat
  BY OnwardTyped DEF TranslatorTypes, IsTranslator, Piece
<1>c. data # NoData => pc \in {"wait", "flush"}
  BY DEF Control, ReaderOK
<1>d. /\ t.at[2] < Len(Fragments(chunk)) =>
           Onward(t, chunk).todo = "tools" /\ Onward(t, chunk).at = <<t.at[1], t.at[2] + 1>>
      /\ ~(t.at[2] < Len(Fragments(chunk))) =>
           Onward(t, chunk).todo = "idle" /\ Onward(t, chunk).at = <<t.at[1] + 1, 0>>
  BY OnwardFields DEF TranslatorTypes
<1>e. t.todo \in ConsumeSteps => t.at[1] \in DOMAIN chunks /\ Len(Fragments(chunk)) \in Nat
  BY ChunkTyped DEF Control, Moves, SameFlags, Fragments
<1>f. UNCHANGED <<chunks, lineCh, data, pc, ending, outcome>>
  BY DEF Rest, upVars
<1>g. data.kind = "chunk" => data # NoData
  BY DEF NoData
<1>h. \A c : Fragments(c)' = Fragments(c)
  BY DEF Fragments, Moves, SameFlags
<1>i. PlaceOK /\ EndingOK /\ FlowOK /\ ~broken
  BY DEF Control, Moves, SameFlags
<1>1. CASE Stays
  BY <1>1, <1>a, <1>b, <1>f, <1>h, <1>i DEF Stays, PlaceOK, LineKind, Places, FlowOK
<1>2. CASE Advances(chunk)
  <2>1. t.at[1] \in DOMAIN chunks /\ Len(Fragments(chunk)) \in Nat
    BY <1>e, <1>2 DEF Advances
  <2>2. pc = "emit" /\ t.at[1] \in 1 .. Len(chunks) /\ data.kind # "chunk"
    <3>1. pc = "emit"
      BY <1>2, <1>i DEF FlowOK, Advances, Places, ConsumeSteps, FinishSteps, ErrorSteps
    <3>2. t.at[1] \in 1 .. Len(chunks)
      BY <2>1, <1>a
    <3> QED
      BY <3>1, <3>2, <1>c, <1>g
  <2>3. outcome = "none"
    BY <2>2, <1>i DEF EndingOK
  <2>4. t.at[2] \in Nat /\ Len(chunks) \in Nat
    BY <1>a, <1>b
  <2>5. CASE t.at[2] < Len(Fragments(chunk))
    <3>1. t'.todo = "tools" /\ t'.at[1] = t.at[1] /\ t'.at[2] = t.at[2] + 1
      BY <1>2, <1>d, <2>5 DEF Advances
    <3> QED
      BY <3>1, <2>1, <2>2, <2>3, <2>4, <2>5, <1>f, <1>h, <1>i, <1>2 DEF PlaceOK, ConsumeSteps, Advances
  <2>6. CASE ~(t.at[2] < Len(Fragments(chunk)))
    <3>1. t'.todo = "idle" /\ t'.at[1] = t.at[1] + 1 /\ t'.at[2] = 0
      BY <1>2, <1>d, <2>6 DEF Advances
    <3> QED
      BY <3>1, <2>1, <2>2, <2>3, <2>4, <1>f, <1>i, <1>2 DEF PlaceOK, ConsumeSteps, Advances
  <2> QED
    BY <2>5, <2>6
<1>3. CASE GoesOn
  BY <1>3, <1>a, <1>b, <1>c, <1>f, <1>g, <1>i DEF GoesOn, PlaceOK, LineKind, Places, FlowOK, ConsumeSteps, FinishSteps
<1>4. CASE Completes
  BY <1>4, <1>a, <1>b, <1>c, <1>f, <1>g, <1>i DEF Completes, PlaceOK, LineKind, Places, FlowOK, ConsumeSteps, FinishSteps
<1>5. CASE Reports
  BY <1>5, <1>a, <1>b, <1>c, <1>f, <1>g, <1>i DEF Reports, PlaceOK, LineKind, Places, FlowOK, ConsumeSteps, ErrorSteps
<1> QED
  BY <1>1, <1>2, <1>3, <1>4, <1>5 DEF Moves

LEMMA ControlMoves ==
  ASSUME TranslatorTypes, Control, Places, Moves(chunks[t.at[1]]), UNCHANGED Rest
  PROVE  Control'
<1> DEFINE chunk == chunks[t.at[1]]
<1> USE DEF Rest, upVars
<1>0. SameFlags /\ Onward(t, chunk).todo \in {"idle", "tools"}
  BY OnwardTyped DEF Moves, TranslatorTypes
<1>1. FlowOK'
  <2> USE DEF SameFlags, Control, FlowOK, EndingOK, Places, ConsumeSteps, FinishSteps, ErrorSteps, NothingToFinish
  <2>1. CASE Stays
    BY <1>0, <2>1 DEF Stays
  <2>2. CASE Advances(chunk)
    BY <1>0, <2>2 DEF Advances
  <2>3. CASE GoesOn
    BY <1>0, <2>3 DEF GoesOn
  <2>4. CASE Completes
    BY <1>0, <2>4 DEF Completes
  <2>5. CASE Reports
    BY <1>0, <2>5 DEF Reports
  <2> QED
    BY <2>1, <2>2, <2>3, <2>4, <2>5 DEF Moves
<1> USE DEF Moves, Stays, Advances, GoesOn, Completes, Reports, SameFlags, Control, Places, ConsumeSteps, FinishSteps, ErrorSteps
<1>2. EndingOK'
  BY <1>0 DEF FlowOK, EndingOK, Responses
<1>3. BrokenOK'
  BY <1>0 DEF BrokenOK, EndingOK
<1>4. ReaderOK'
  BY <1>0 DEF ReaderOK, FlowOK, LineKind
<1> QED
  BY <1>1, <1>2, <1>3, <1>4, PlaceMoves DEF Control

LEMMA ControlFails ==
  ASSUME TranslatorTypes, Control, Places, Fails, UNCHANGED Rest, t.todo # "idle",
         t.todo # "error"
  PROVE  Control'
<1> USE DEF Rest, upVars, Control, Places, Fails
<1>1. FlowOK'
  BY DEF FlowOK, FinishSteps
<1>2. EndingOK'
  BY DEF FlowOK, EndingOK, Responses
<1>3. BrokenOK'
  BY DEF BrokenOK, EndingOK
<1>4. ReaderOK'
  BY DEF ReaderOK, LineKind, FinishSteps
<1>5. PlaceOK'
  <2>1. data.kind = "chunk" => data # NoData
    BY DEF NoData
  <2>2. PlaceOK /\ broken' /\ pc \notin {"wait", "flush"} /\ (data # NoData => pc \in {"wait", "flush"})
    BY DEF ReaderOK
  <2> QED
    BY <2>1, <2>2 DEF PlaceOK
<1> QED
  BY <1>1, <1>2, <1>3, <1>4, <1>5
-----------------------------------------------------------------------------
(* The data: lists of pieces, and the pieces that have been taken.          *)

LEMMA BeforeOrder ==
  ASSUME NEW p \in Piece, NEW q \in Piece, NEW r \in Piece
  PROVE  /\ ~Before(p, p)
         /\ Before(p, q) /\ Before(q, r) => Before(p, r)
         /\ Before(p, q) => ~Before(q, p)
BY DEF Before, Piece

LEMMA EmptyLists == Lists(<<>>, {})
BY DEF Lists

LEMMA ListsAppend ==
  ASSUME NEW s \in Seq(Piece), NEW S, NEW p \in Piece, Lists(s, S),
         \A q \in S : Before(q, p)
  PROVE  Append(s, p) \in Seq(Piece) /\ Lists(Append(s, p), S \cup {p})
<1> DEFINE a == Append(s, p)
<1>1. /\ a \in Seq(Piece) /\ Len(a) = Len(s) + 1 /\ DOMAIN a = 1 .. Len(s) + 1
      /\ a[Len(s) + 1] = p /\ \A k \in DOMAIN s : a[k] = s[k]
  OBVIOUS
<1>2. DOMAIN s = 1 .. Len(s) /\ Len(s) \in Nat
  OBVIOUS
<1> HIDE DEF a
<1>3. \A k \in DOMAIN a : a[k] \in S \cup {p}
  BY <1>1, <1>2 DEF Lists
<1>4. \A q \in S \cup {p} : \E k \in DOMAIN a : a[k] = q
  BY <1>1, <1>2 DEF Lists
<1>5. \A j, k \in DOMAIN a : j < k => Before(a[j], a[k])
  BY <1>1, <1>2 DEF Lists
<1>6. Lists(a, S \cup {p})
  BY <1>3, <1>4, <1>5 DEF Lists
<1> QED
  BY <1>1, <1>6 DEF a

LEMMA RelaysEmpty == ASSUME NEW P PROVE Relays(<<>>, P)
BY DEF Relays

LEMMA PiecesTyped ==
  ASSUME ReaderOK, NEW item, NEW p \in Pieces(item)
  PROVE  /\ p \in Piece /\ p[1] \in DOMAIN chunks
         /\ p[2] \in 0 .. Len(Fragments(chunks[p[1]]))
         /\ Carries(item, p[1], p[2])
<1>1. PICK n \in DOMAIN chunks : p \in {n} \X (0 .. Len(Fragments(chunks[n])))
  BY DEF Pieces
<1>2. n \in Nat
  BY DEF ReaderOK
<1> QED
  BY <1>1, <1>2 DEF Pieces, Piece

\* What lists the pieces up to a place relays them.
LEMMA ListsRelays ==
  ASSUME NEW P \in SUBSET Piece, NEW at \in Piece, NEW s \in Seq(Piece),
         Lists(s, {p \in P : Before(p, at)})
  PROVE  Relays(s, P)
<1>1. ASSUME NEW k \in DOMAIN s
      PROVE  s[k] \in P
  BY DEF Lists
<1>2. ASSUME NEW k \in DOMAIN s, NEW p \in P, Before(p, s[k])
      PROVE  \E j \in 1 .. k-1 : s[j] = p
  <2>1. p \in Piece /\ s[k] \in Piece /\ Before(s[k], at)
    BY <1>1 DEF Lists
  <2>2. p \in {q \in P : Before(q, at)}
    BY <2>1, <1>2, BeforeOrder
  <2>3. PICK j \in DOMAIN s : s[j] = p
    BY <2>2 DEF Lists
  <2>4. j # k /\ ~(k < j)
    BY <2>1, <2>3, <1>2, BeforeOrder DEF Lists
  <2> QED
    BY <2>3, <2>4
<1> QED
  BY <1>1, <1>2 DEF Relays, Lists

LEMMA ReachedSame ==
  ASSUME UNCHANGED chunks, t'.at = t.at, t'.protocol = t.protocol, NEW item
  PROVE  Pieces(item)' = Pieces(item) /\ Reached(item)' = Reached(item)
<1>1. \A c : Fragments(c)' = Fragments(c)
  BY DEF Fragments
<1>2. Pieces(item)' = Pieces(item)
  BY <1>1 DEF Pieces, Carries
<1> QED
  BY <1>2 DEF Reached

\* One piece further.
LEMMA ReachedOnward ==
  ASSUME TranslatorTypes, ReaderOK, UNCHANGED chunks, t.at[1] \in DOMAIN chunks,
         t.at[2] \in 0 .. Len(Fragments(chunks[t.at[1]])),
         t'.at = Onward(t, chunks[t.at[1]]).at, t'.protocol = t.protocol, NEW item
  PROVE  /\ Pieces(item)' = Pieces(item)
         /\ Carries(item, t.at[1], t.at[2]) => Reached(item)' = Reached(item) \cup {t.at}
         /\ ~Carries(item, t.at[1], t.at[2]) => Reached(item)' = Reached(item)
<1> DEFINE n == t.at[1]
           i == t.at[2]
           F == Fragments(chunks[n])
<1>1. \A c : Fragments(c)' = Fragments(c)
  BY DEF Fragments
<1>2. Pieces(item)' = Pieces(item)
  BY <1>1 DEF Pieces, Carries
<1>3. t.at \in Piece /\ t.at = <<n, i>> /\ n \in Nat /\ i \in Nat
  BY DEF TranslatorTypes, IsTranslator, Piece
<1>4. IF i < Len(F) THEN t'.at = <<n, i + 1>> ELSE t'.at = <<n + 1, 0>>
  BY OnwardFields DEF TranslatorTypes
<1>5. Reached(item)' = {p \in Pieces(item) : Before(p, t'.at)}
  BY <1>2 DEF Reached
<1>6. Len(F) \in Nat
  BY DEF ReaderOK
<1>7. \A p \in Pieces(item) : Before(p, t'.at) <=> Before(p, t.at) \/ p = t.at
  <2> SUFFICES ASSUME NEW p \in Pieces(item) PROVE Before(p, t'.at) <=> Before(p, t.at) \/ p = t.at
    OBVIOUS
  <2>1. p \in Piece /\ p[2] \in 0 .. Len(Fragments(chunks[p[1]]))
    BY PiecesTyped
  <2>2. p[1] \in Nat /\ p[2] \in Nat /\ p = <<p[1], p[2]>> /\ (p[1] = n => p[2] <= Len(F))
    BY <2>1, <1>6 DEF Piece
  <2>a. p = t.at <=> p[1] = n /\ p[2] = i
    BY <2>2, <1>3
  <2>3. CASE i < Len(F)
    <3>1. t'.at[1] = n /\ t'.at[2] = i + 1
      BY <2>3, <1>4
    <3> QED
      BY <3>1, <2>2, <2>a, <1>3 DEF Before
  <2>4. CASE ~(i < Len(F))
    <3>1. t'.at[1] = n + 1 /\ t'.at[2] = 0
      BY <2>4, <1>4
    <3> QED
      BY <3>1, <2>2, <2>4, <2>a, <1>3, <1>6 DEF Before
  <2> QED
    BY <2>3, <2>4
<1>8. t.at \in Pieces(item) <=> Carries(item, n, i)
  <2>1. t.at \in {n} \X (0 .. Len(F))
    BY <1>3
  <2>2. t.at \in UNION {{m} \X (0 .. Len(Fragments(chunks[m]))) : m \in DOMAIN chunks}
    BY <2>1
  <2> QED
    BY <2>2 DEF Pieces
<1>9. CASE Carries(item, n, i)
  BY <1>2, <1>5, <1>7, <1>8, <1>9 DEF Reached
<1>10. CASE ~Carries(item, n, i)
  BY <1>2, <1>5, <1>7, <1>8, <1>10 DEF Reached
<1> QED
  BY <1>2, <1>9, <1>10

LEMMA ShownNext ==
  ASSUME TranslatorTypes', ViewTypes', ~broken', \A item \in Items : Pieces(item)' \subseteq Piece,
         Lists(view'.shown[TextItem], Reached(TextItem)'),
         ~Gemini' => \A x \in Tools : Lists(view'.shown[x], Reached(x)'),
         Gemini' => \A x \in Tools :
           /\ Lists(Collected(x)', Reached(x)')
           /\ view'.shown[x] = IF x \in Written' THEN t'.calls[x] ELSE <<>>,
         ~t'.started => \A item \in Items : view'.shown[item] = <<>>
  PROVE  ShownOK'
<1>1. t'.at \in Piece /\ \A item \in Items : view'.shown[item] \in Seq(Piece)
  BY DEF TranslatorTypes, IsTranslator, ViewTypes
<1>2. ASSUME NEW item \in Items
      PROVE  Relays(view'.shown[item], Pieces(item)')
  <2>1. CASE Lists(view'.shown[item], Reached(item)')
    <3>1. Lists(view'.shown[item], {p \in Pieces(item)' : Before(p, t'.at)})
      BY <2>1 DEF Reached
    <3> QED
      BY <3>1, <1>1, <1>2, ListsRelays
  <2>2. CASE view'.shown[item] = <<>>
    BY <2>2, RelaysEmpty
  <2>3. CASE Gemini' /\ item \in Tools /\ item \in Written'
    <3>1. Lists(view'.shown[item], Reached(item)')
      BY <2>3 DEF Collected, Written, TranslatorTypes, CallsTyped
    <3> QED
      BY <3>1, <2>1
  <2> QED
    BY <2>1, <2>2, <2>3 DEF Items
<1> QED
  BY <1>2 DEF ShownOK

\* A step that shows nothing and takes no piece.
LEMMA ShownKept ==
  ASSUME ReaderOK, ShownOK, TranslatorTypes', ViewTypes', ~broken, ~broken', UNCHANGED chunks,
         t'.at = t.at, t'.protocol = t.protocol, view'.shown = view.shown,
         Gemini => t'.calls = t.calls /\ Written' = Written, t.started => t'.started
  PROVE  ShownOK'
<1>1. \A item : Pieces(item)' = Pieces(item) /\ Reached(item)' = Reached(item)
  BY ReachedSame
<1>2. \A item : Pieces(item)' \subseteq Piece
  BY <1>1, PiecesTyped
<1>3. \A x : Gemini => Collected(x)' = Collected(x)
  BY DEF Collected
<1>4. Gemini' <=> Gemini
  BY DEF Gemini
<1> QED
  BY <1>1, <1>2, <1>3, <1>4, ShownNext DEF ShownOK

LEMMA PieceOfItem ==
  ASSUME ReaderOK, PlaceOK, TranslatorTypes, ~broken, t.todo \in ConsumeSteps
  PROVE  LET chunk == chunks[t.at[1]] IN
         /\ t.at[1] \in DOMAIN chunks /\ t.at[2] \in 0 .. Len(Fragments(chunk))
         /\ t.todo = "text" =>
              \A item : Carries(item, t.at[1], t.at[2]) <=> item = TextItem
         /\ t.todo = "tools" =>
              \A item : Carries(item, t.at[1], t.at[2])
                          <=> item = Fragment(chunk).tool /\ Fragment(chunk).args
<1> DEFINE chunk == chunks[t.at[1]]
<1>1. t.at[1] \in DOMAIN chunks /\ t.at[2] \in Nat /\ Len(Fragments(chunk)) \in Nat
  BY ChunkTyped DEF Fragments, TranslatorTypes, IsTranslator, Piece
<1>2. CASE t.todo = "text"
  <2>1. t.at[2] = 0 /\ chunk.text
    BY <1>2 DEF PlaceOK
  <2> QED
    BY <1>1, <1>2, <2>1 DEF Carries
<1>3. CASE t.todo = "tools"
  <2>1. t.at[2] \in 1 .. Len(Fragments(chunk)) /\ Fragments(chunk) = chunk.tools
    BY <1>3, ChunkTyped DEF PlaceOK
  <2> QED
    BY <1>1, <1>3, <2>1 DEF Carries, Fragment
<1> QED
  BY <1>1, <1>2, <1>3 DEF ConsumeSteps

\* The piece that has been taken is shown with its item.
LEMMA ShownTaken ==
  ASSUME ReaderOK, PlaceOK, ShownOK, TranslatorTypes, ViewTypes, TranslatorTypes', ViewTypes',
         ~broken, ~broken', UNCHANGED chunks, t.todo \in ConsumeSteps,
         Advances(chunks[t.at[1]]), t'.protocol = t.protocol, t'.started,
         ~Gemini \/ (t.todo = "text" /\ t'.calls = t.calls /\ Written' = Written),
         \A item \in Items :
           view'.shown[item] = IF Carries(item, t.at[1], t.at[2])
                               THEN Append(view.shown[item], t.at) ELSE view.shown[item]
  PROVE  ShownOK'
<1>1. t.at \in Piece /\ \A item \in Items : view.shown[item] \in Seq(Piece)
  BY DEF TranslatorTypes, IsTranslator, ViewTypes
<1>2. \A item : Pieces(item)' = Pieces(item)
  BY PieceOfItem, ReachedOnward DEF Advances
<1>3. \A item : Pieces(item)' \subseteq Piece
  BY <1>2, PiecesTyped
<1>4. ASSUME NEW item \in Items, Lists(view.shown[item], Reached(item))
      PROVE  Lists(view'.shown[item], Reached(item)')
  <2>1. CASE Carries(item, t.at[1], t.at[2])
    <3>1. Reached(item)' = Reached(item) \cup {t.at}
      BY <2>1, PieceOfItem, ReachedOnward DEF Advances
    <3>2. \A q \in Reached(item) : Before(q, t.at)
      BY DEF Reached
    <3> QED
      BY <1>1, <1>4, <2>1, <3>1, <3>2, ListsAppend
  <2>2. CASE ~Carries(item, t.at[1], t.at[2])
    <3>1. Reached(item)' = Reached(item)
      BY <2>2, PieceOfItem, ReachedOnward DEF Advances
    <3> QED
      BY <1>4, <2>2, <3>1
  <2> QED
    BY <2>1, <2>2
<1>5. CASE ~Gemini
  BY <1>3, <1>4, <1>5, ShownNext DEF ShownOK, Items, Gemini
<1>6. CASE Gemini /\ t.todo = "text" /\ t'.calls = t.calls /\ Written' = Written
  <2>1. ASSUME NEW x \in Tools
        PROVE  Reached(x)' = Reached(x) /\ Collected(x)' = Collected(x) /\ view'.shown[x] = view.shown[x]
    <3>1. ~Carries(x, t.at[1], t.at[2])
      BY <1>6, PieceOfItem, ToolsAssumption DEF TextItem
    <3> QED
      BY <3>1, <1>6, PieceOfItem, ReachedOnward DEF Advances, Collected, Items
  <2> QED
    BY <1>3, <1>4, <1>6, <2>1, ShownNext DEF ShownOK, Items, Gemini
<1> QED
  BY <1>5, <1>6
-----------------------------------------------------------------------------
(* The view after one more event.                                           *)

LEMMA ConcatOfOne ==
  ASSUME NEW S, NEW s \in Seq(S), NEW x
  PROVE  s \o <<x>> = Append(s, x)
OBVIOUS

\* Changes of the blocks of Claude.
NewBlock(item) == [open |-> TRUE, deltas |-> 0, item |-> item]
OneDelta(B, i) == [B EXCEPT ![i].deltas = @ + 1]
Shut(B, i) == [B EXCEPT ![i].open = FALSE]

LEMMA ClaudeReceives ==
  ASSUME ViewTypes, Claude, NEW e, view' = Receive(view, e),
         e.kind \in {"message_start", "content_block_start", "content_block_delta",
                     "content_block_stop", "message_delta", "message_stop"},
         e.kind \in {"content_block_delta", "content_block_stop"} =>
           /\ e.index \in DOMAIN view.blocks
           /\ IsBlock(view.blocks[e.index]) /\ view.blocks[e.index].item \in Items,
         e.piece \in Piece, broken' \in BOOLEAN
  PROVE  /\ ViewTypes'
         /\ view'.frames = view.frames + 1 /\ view'.last = e.kind
         /\ view'.ends = IF e.kind = "message_stop" THEN view.ends + 1 ELSE view.ends
         /\ e.kind # "content_block_delta" => view'.shown = view.shown
         /\ e.kind \in {"message_start", "message_delta", "message_stop"} => view'.blocks = view.blocks
         /\ e.kind \in {"content_block_start", "content_block_delta", "content_block_stop"} =>
              view'.phase = view.phase
         /\ e.kind = "message_start" => view'.phase = "blocks"
         /\ e.kind = "message_delta" => view'.phase = "closing"
         /\ e.kind = "message_stop" => view'.phase = "stopped"
         /\ e.kind = "content_block_start" =>
              view'.blocks = Extended(view.blocks, e.index, NewBlock(e.item))
         /\ e.kind = "content_block_delta" =>
              /\ view'.blocks = OneDelta(view.blocks, e.index)
              /\ view'.shown = [view.shown EXCEPT ![view.blocks[e.index].item] = Append(@, e.piece)]
         /\ e.kind = "content_block_stop" => view'.blocks = Shut(view.blocks, e.index)
<1> DEFINE w == [view EXCEPT !.frames = @ + 1, !.last = e.kind,
                             !.ends = IF e.kind = LastKind THEN @ + 1 ELSE @]
<1>1. view' = ReceiveClaude(w, e)
  BY DEF Receive, Claude
<1>2. LastKind = "message_stop"
  BY DEF LastKind, Claude
<1> DEFINE ends == IF e.kind = "message_stop" THEN view.ends + 1 ELSE view.ends
<1>a. ends \in Nat /\ view.frames + 1 \in Nat
  BY DEF ViewTypes
<1>b. w = [view EXCEPT !.frames = view.frames + 1, !.last = e.kind, !.ends = ends]
  BY <1>2
<1> HIDE DEF w, ends
<1>c. /\ w.frames = view.frames + 1 /\ w.last = e.kind /\ w.shown = view.shown /\ w.ends = ends
      /\ w.phase = view.phase /\ w.blocks = view.blocks /\ w.comments = view.comments
  BY <1>b DEF ViewTypes
<1>d. w \in [comments : Nat, frames : Nat, last : {w.last}, ends : Nat,
            shown : [Items -> Seq(Piece)], phase : {w.phase}, blocks : {w.blocks}]
  BY <1>a, <1>b, <1>c DEF ViewTypes
<1>3. /\ w.frames = view.frames + 1 /\ w.last = e.kind /\ w.shown = view.shown
      /\ w.ends = IF e.kind = "message_stop" THEN view.ends + 1 ELSE view.ends
      /\ w.phase = view.phase /\ w.blocks = view.blocks /\ w.comments = view.comments
      /\ w \in [comments : Nat, frames : Nat, last : {w.last}, ends : Nat,
                shown : [Items -> Seq(Piece)], phase : {w.phase}, blocks : {w.blocks}]
  BY <1>c, <1>d DEF ends
<1>4. view.blocks = [i \in DOMAIN view.blocks |-> view.blocks[i]]
  BY DEF ViewTypes
<1>e. view.shown \in [Items -> Seq(Piece)]
  BY DEF ViewTypes
<1>5. CASE e.kind = "message_start"
  <2>1. view' = [w EXCEPT !.phase = "blocks"]
    BY <1>1, <1>5 DEF ReceiveClaude
  <2> QED
    BY <2>1, <1>3, <1>4, <1>5 DEF ViewTypes
<1>6. CASE e.kind = "message_delta"
  <2>1. view' = [w EXCEPT !.phase = "closing"]
    BY <1>1, <1>6 DEF ReceiveClaude
  <2> QED
    BY <2>1, <1>3, <1>4, <1>6 DEF ViewTypes
<1>7. CASE e.kind = "message_stop"
  <2>1. view' = [w EXCEPT !.phase = "stopped"]
    BY <1>1, <1>7 DEF ReceiveClaude
  <2> QED
    BY <2>1, <1>3, <1>4, <1>7 DEF ViewTypes
<1>8. CASE e.kind = "content_block_start"
  <2> DEFINE B == Extended(view.blocks, e.index, NewBlock(e.item))
  <2>1. view' = [w EXCEPT !.blocks = B]
    <3>1. view' = SetBlock(w, e.index, NewBlock(e.item))
      BY <1>1, <1>8 DEF ReceiveClaude, NewBlock
    <3>2. view' = [w EXCEPT !.blocks = Extended(w.blocks, e.index, NewBlock(e.item))]
      BY <3>1 DEF SetBlock
    <3>3. w.blocks = view.blocks
      BY <1>3
    <3> QED
      BY <3>2, <3>3
  <2>2. B = [i \in DOMAIN B |-> B[i]]
    BY DEF Extended
  <2> HIDE DEF B
  <2>3. view'.blocks = B
    BY <2>1, <1>3
  <2>4. ViewTypes'
    BY <2>1, <2>2, <2>3, <1>3 DEF ViewTypes
  <2> QED
    BY <2>1, <2>3, <2>4, <1>3, <1>8 DEF B
<1>9. CASE e.kind = "content_block_stop"
  <2> DEFINE B == Shut(view.blocks, e.index)
  <2>1. view' = [w EXCEPT !.blocks = B]
    BY <1>1, <1>3, <1>9 DEF ReceiveClaude, Shut
  <2>2. B = [i \in DOMAIN B |-> B[i]]
    BY DEF Shut
  <2> HIDE DEF B
  <2>3. view'.blocks = B
    BY <2>1, <1>3
  <2>4. ViewTypes'
    BY <2>1, <2>2, <2>3, <1>3 DEF ViewTypes
  <2> QED
    BY <2>1, <2>3, <2>4, <1>3, <1>9 DEF B
<1>10. CASE e.kind = "content_block_delta"
  <2> DEFINE B == OneDelta(view.blocks, e.index)
             item == view.blocks[e.index].item
             S == [view.shown EXCEPT ![item] = Append(@, e.piece)]
  <2>1. view' = Shows([w EXCEPT !.blocks = B], item, <<e.piece>>)
    BY <1>1, <1>3, <1>10 DEF ReceiveClaude, OneDelta
  <2>2. item \in Items /\ view.shown \in [Items -> Seq(Piece)]
    <3>1. item \in Items
      BY <1>10
    <3> QED
      BY <3>1, <1>e
  <2>3. view.shown[item] \o <<e.piece>> = Append(view.shown[item], e.piece)
    <3>1. view.shown[item] \in Seq(Piece)
      BY <2>2
    <3> QED
      BY <3>1, ConcatOfOne
  <2>4. S \in [Items -> Seq(Piece)]
    BY <2>2
  <2>5. B = [i \in DOMAIN B |-> B[i]]
    BY DEF OneDelta
  <2>6. view' = [w EXCEPT !.blocks = B, !.shown = S]
    BY <2>1, <2>3, <1>3 DEF Shows
  <2> HIDE DEF B, S
  <2>7. view'.blocks = B /\ view'.shown = S
    <3> DEFINE w2 == [w EXCEPT !.blocks = B]
    <3>1. w2.blocks = B /\ {"shown", "blocks"} \subseteq DOMAIN w2 /\ view' = [w2 EXCEPT !.shown = S]
      BY <2>6, <1>d
    <3> HIDE DEF w2
    <3> QED
      BY <3>1
  <2>8. ViewTypes'
    <3>1. view' \in [comments : Nat, frames : Nat, last : {view'.last}, ends : Nat,
                     shown : [Items -> Seq(Piece)], phase : {view'.phase}, blocks : {view'.blocks}]
      BY <2>4, <2>6, <1>d
    <3> QED
      BY <2>5, <2>7, <3>1 DEF ViewTypes
  <2> QED
    BY <2>6, <2>7, <2>8, <1>3, <1>10 DEF B, S
<1> QED
  BY <1>5, <1>6, <1>7, <1>8, <1>9, <1>10

LEMMA EndsGoOn ==
  ASSUME Control, EndsOK, Places, UNCHANGED Rest, TranslatorTypes,
         t.todo \in ConsumeSteps \cup FinishSteps, ~broken, ~broken',
         t'.protocol = t.protocol, t'.finished = t.finished, view'.ends = view.ends
  PROVE  EndsOK'
<1>1. ~t.finished /\ outcome = "none"
  BY DEF Control, FlowOK, EndingOK, Places, ConsumeSteps, FinishSteps, ErrorSteps
<1>2. ~Over /\ ~Over'
  BY <1>1 DEF Over, Said, Rest
<1> QED
  BY <1>2 DEF EndsOK

LEMMA EndsComplete ==
  ASSUME Control, EndsOK, Places, UNCHANGED Rest, TranslatorTypes,
         t.todo \in FinishSteps, ~broken, ~broken', t'.protocol = t.protocol,
         t'.finished, t'.started, view'.ends = view.ends + 1, view'.last = LastKind
  PROVE  EndsOK'
<1>1. ~t.finished /\ outcome = "none"
  BY DEF Control, FlowOK, EndingOK, Places, ConsumeSteps, FinishSteps, ErrorSteps
<1>2. ~Over /\ Over' /\ LastKind' = LastKind
  BY <1>1 DEF Over, Said, Rest, LastKind
<1> QED
  BY <1>2 DEF EndsOK

-----------------------------------------------------------------------------
(* The steps of the Claude translator.                                      *)

ClaudeBefore ==
  /\ Claude /\ Places
  /\ TranslatorTypes /\ ViewTypes /\ Control /\ ShownOK /\ EndsOK /\ ClaudeOK

ClaudeAfter(chunk) ==
  /\ Moves(chunk) /\ UNCHANGED stored
  /\ TranslatorTypes' /\ ViewTypes' /\ ShownOK' /\ EndsOK' /\ ClaudeOK'
  /\ [ClaudeClient!ProtocolNext]_(ClaudeClient!protocolVars)

\* A write of Claude fails, or the event arrives.
LEMMA ClaudeWrites ==
  ASSUME ClaudeBefore, NEW e, NEW u, emit(e, u), IsTranslator(u), CallsTyped(u),
         u.protocol = t.protocol
  PROVE  Fails \/ (/\ ~broken /\ ~broken' /\ UNCHANGED stored
                   /\ view' = Receive(view, e) /\ t' = u /\ TranslatorTypes'
                   /\ broken' \in BOOLEAN)
<1>1. TranslatorTypes' /\ t'.protocol = t.protocol
  BY EmitTyped
<1>2. CASE ~broken /\ UNCHANGED broken /\ view' = Receive(view, e) /\ t' = u
  BY <1>1, <1>2 DEF emit, write, ClaudeBefore, ViewTypes
<1>3. CASE /\ broken' = TRUE /\ UNCHANGED view
           /\ t' = [u EXCEPT !.started = TRUE, !.finished = FALSE, !.todo = "error"]
  <2>1. t'.todo = "error" /\ t'.started /\ ~t'.finished
    BY <1>3 DEF IsTranslator
  <2>2. ~Responses
    BY DEF ClaudeBefore, Claude, Responses
  <2>3. UNCHANGED stored
    BY DEF emit, write
  <2> QED
    BY <1>1, <1>3, <2>1, <2>2, <2>3 DEF Fails
<1> QED
  BY <1>2, <1>3 DEF emit, write

LEMMA ClaudeStarts ==
  ASSUME ClaudeBefore, NEW chunk, UNCHANGED Rest, ensureStarted,
         t.todo \in {"text", "tools", "finish"}
  PROVE  Fails \/ ClaudeAfter(chunk)
<1> DEFINE e == Mark("message_start")
           u == [t EXCEPT !.started = TRUE]
<1>1. IsTranslator(t) /\ TranslatorTypes /\ Claude /\ ViewTypes /\ ClaudeOK
  BY DEF ClaudeBefore, TranslatorTypes
<1>2. /\ IsTranslator(u) /\ u.calls = t.calls /\ u.left = t.left /\ u.protocol = t.protocol
      /\ u.started /\ u.todo = t.todo /\ u.at = t.at /\ u.finished = t.finished
      /\ u.hasContent = t.hasContent /\ u.nextIndex = t.nextIndex /\ u.textOpen = t.textOpen
      /\ u.textIndex = t.textIndex
  BY <1>1 DEF IsTranslator
<1>3. CallsTyped(u) /\ emit(e, u) /\ ~t.started
  BY <1>1, <1>2, SameCallsTyped DEF ensureStarted
<1> SUFFICES ASSUME ~Fails PROVE ClaudeAfter(chunk)
  OBVIOUS
<1>4. ~broken /\ ~broken' /\ UNCHANGED stored /\ view' = Receive(view, e) /\ t' = u /\ TranslatorTypes'
     /\ broken' \in BOOLEAN
  BY <1>2, <1>3, ClaudeWrites
<1>5. e.kind = "message_start" /\ e.piece \in Piece
  BY DEF Mark, Event, NoPiece, Piece
<1> HIDE DEF e, u
<1>6. /\ ViewTypes' /\ view'.frames = view.frames + 1 /\ view'.ends = view.ends
      /\ view'.shown = view.shown /\ view'.blocks = view.blocks /\ view'.phase = "blocks"
  BY <1>1, <1>4, <1>5, ClaudeReceives
<1>7. t.todo # "finish" /\ t.nextIndex = 0 /\ ~t.finished
  BY <1>1, <1>3, <1>4 DEF ClaudeBefore, Control, FlowOK, ClaudeOK, ClaudeStage, NothingToFinish, FinishSteps, ConsumeSteps
<1>8. Moves(chunk)
  BY <1>2, <1>4, <1>7 DEF Moves, SameFlags, Stays, ConsumeSteps
<1>9. ShownOK'
  BY <1>2, <1>4, <1>6, ShownKept DEF ClaudeBefore, Control, Claude, Gemini, Rest, upVars
<1>10. EndsOK'
  BY <1>2, <1>4, <1>6, <1>7, EndsGoOn DEF ClaudeBefore, ConsumeSteps
<1>11. ClaudeOK'
  <2>1. OpenCalls' = OpenCalls /\ view'.phase = ClaudePhase'
    BY <1>2, <1>4, <1>6, <1>7 DEF OpenCalls, ClaudePhase
  <2>2. ClaudeBlocks'
    BY <1>1, <1>2, <1>4, <1>6, <2>1 DEF ClaudeOK, ClaudeBlocks
  <2>3. ClaudeStage'
    BY <1>1, <1>2, <1>4, <1>7 DEF ClaudeOK, ClaudeStage
  <2> QED
    BY <2>1, <2>2, <2>3 DEF ClaudeOK
<1>12. [ClaudeClient!ProtocolNext]_(ClaudeClient!protocolVars)
  <2>1. view.phase = "before"
    BY <1>1, <1>3, <1>4 DEF ClaudeOK, ClaudePhase, ClaudeStage
  <2>2. ClaudeClient!MessageStart
    BY <1>1, <1>2, <1>4, <1>6, <2>1 DEF ClaudeClient!MessageStart, ClaudeClient!NextFrame, ViewOf, Claude
  <2> QED
    BY <2>2 DEF ClaudeClient!ProtocolNext
<1> QED
  BY <1>4, <1>6, <1>8, <1>9, <1>10, <1>11, <1>12 DEF ClaudeAfter
\* The blocks of Claude as its client knows them.
AsSeen(B) == [j \in DOMAIN B |-> [open |-> B[j].open, deltas |-> B[j].deltas]]

LEMMA SeenExtended ==
  ASSUME NEW B, NEW n, NEW item
  PROVE  AsSeen(Extended(B, n, NewBlock(item))) = Extended(AsSeen(B), n, [open |-> TRUE, deltas |-> 0])
BY DEF AsSeen, Extended, NewBlock

LEMMA SeenChanged ==
  ASSUME NEW B, NEW i \in DOMAIN B, IsBlock(B[i])
  PROVE  /\ DOMAIN AsSeen(B) = DOMAIN B /\ AsSeen(B)[i].open = B[i].open
         /\ AsSeen(OneDelta(B, i)) = OneDelta(AsSeen(B), i)
         /\ AsSeen(Shut(B, i)) = Shut(AsSeen(B), i)
<1>1. DOMAIN AsSeen(B) = DOMAIN B /\ AsSeen(B)[i].open = B[i].open /\ AsSeen(B)[i].deltas = B[i].deltas
  BY DEF AsSeen
<1>2. AsSeen(OneDelta(B, i)) = OneDelta(AsSeen(B), i)
  <2> DEFINE C == OneDelta(B, i)
  <2>1. /\ DOMAIN C = DOMAIN B /\ C[i].open = B[i].open /\ C[i].deltas = B[i].deltas + 1
        /\ \A j \in DOMAIN B : j # i => C[j] = B[j]
    BY DEF IsBlock, OneDelta
  <2> HIDE DEF C
  <2>2. AsSeen(C)[i] = [open |-> B[i].open, deltas |-> B[i].deltas + 1]
    BY <2>1 DEF AsSeen
  <2>3. OneDelta(AsSeen(B), i)[i] = [open |-> B[i].open, deltas |-> B[i].deltas + 1]
    BY <1>1 DEF AsSeen, OneDelta
  <2>4. \A j \in DOMAIN B : j # i => AsSeen(C)[j] = OneDelta(AsSeen(B), i)[j]
    BY <2>1 DEF AsSeen, OneDelta
  <2>5. AsSeen(C) = [j \in DOMAIN B |-> AsSeen(C)[j]]
    BY <2>1 DEF AsSeen
  <2>6. OneDelta(AsSeen(B), i) = [j \in DOMAIN B |-> OneDelta(AsSeen(B), i)[j]]
    BY <1>1 DEF OneDelta
  <2>7. \A j \in DOMAIN B : AsSeen(C)[j] = OneDelta(AsSeen(B), i)[j]
    BY <2>2, <2>3, <2>4
  <2> QED
    BY <2>5, <2>6, <2>7 DEF C
<1>3. AsSeen(Shut(B, i)) = Shut(AsSeen(B), i)
  <2> DEFINE C == Shut(B, i)
  <2>1. /\ DOMAIN C = DOMAIN B /\ C[i].open = FALSE /\ C[i].deltas = B[i].deltas
        /\ \A j \in DOMAIN B : j # i => C[j] = B[j]
    BY DEF IsBlock, Shut
  <2> HIDE DEF C
  <2>2. AsSeen(C)[i] = [open |-> FALSE, deltas |-> B[i].deltas]
    BY <2>1 DEF AsSeen
  <2>3. Shut(AsSeen(B), i)[i] = [open |-> FALSE, deltas |-> B[i].deltas]
    BY <1>1 DEF AsSeen, Shut
  <2>4. \A j \in DOMAIN B : j # i => AsSeen(C)[j] = Shut(AsSeen(B), i)[j]
    BY <2>1 DEF AsSeen, Shut
  <2>5. AsSeen(C) = [j \in DOMAIN B |-> AsSeen(C)[j]]
    BY <2>1 DEF AsSeen
  <2>6. Shut(AsSeen(B), i) = [j \in DOMAIN B |-> Shut(AsSeen(B), i)[j]]
    BY <1>1 DEF Shut
  <2>7. \A j \in DOMAIN B : AsSeen(C)[j] = Shut(AsSeen(B), i)[j]
    BY <2>2, <2>3, <2>4
  <2> QED
    BY <2>5, <2>6, <2>7 DEF C
<1> QED
  BY <1>1, <1>2, <1>3

LEMMA IntervalSize ==
  ASSUME NEW n \in Nat
  PROVE  Cardinality(0 .. n - 1) = n
BY FS_Interval

LEMMA ClaudeCardinality ==
  ASSUME NEW S
  PROVE  ClaudeClient!Cardinality(S) = Cardinality(S)
BY DEF ClaudeClient!Cardinality, Cardinality

\* The protocol's actions, said of the views.
LEMMA StartFrame ==
  ASSUME Claude, Claude', view'.frames = view.frames + 1,
         view.phase = "before", view'.phase = "blocks",
         view'.blocks = view.blocks
  PROVE  ClaudeClient!ProtocolNext
<1>1. ViewOf("claude") = view /\ ViewOf("claude")' = view'
  BY DEF ViewOf, Claude
<1> USE DEF ClaudeClient!ProtocolNext, ClaudeClient!NextFrame
<1> QED
  BY <1>1 DEF ClaudeClient!MessageStart

LEMMA BlockFrame ==
  ASSUME Claude, Claude', view'.frames = view.frames + 1,
         view.phase = "blocks", view'.phase = "blocks",
         AsSeen(view'.blocks) = Extended(AsSeen(view.blocks), Cardinality(DOMAIN AsSeen(view.blocks)),
                                         [open |-> TRUE, deltas |-> 0])
  PROVE  ClaudeClient!ProtocolNext
<1>1. ViewOf("claude") = view /\ ViewOf("claude")' = view'
  BY DEF ViewOf, Claude
<1> USE DEF ClaudeClient!ProtocolNext, ClaudeClient!NextFrame
<1>2. ClaudeClient!BlockStart
  <2> DEFINE B == AsSeen(view.blocks)
             C == AsSeen(view'.blocks)
  <2>1. C = [j \in DOMAIN B \cup {Cardinality(DOMAIN B)} |->
               IF j = Cardinality(DOMAIN B) THEN [open |-> TRUE, deltas |-> 0] ELSE B[j]]
    BY DEF Extended
  <2>2. B = [j \in DOMAIN ViewOf("claude").blocks |->
              [open |-> ViewOf("claude").blocks[j].open, deltas |-> ViewOf("claude").blocks[j].deltas]]
    BY <1>1, Zenon DEF AsSeen
  <2>3. C = [j \in DOMAIN ViewOf("claude")'.blocks |->
              [open |-> ViewOf("claude")'.blocks[j].open, deltas |-> ViewOf("claude")'.blocks[j].deltas]]
    BY <1>1, Zenon DEF AsSeen
  <2>4. ClaudeClient!Cardinality(DOMAIN B) = Cardinality(DOMAIN B)
    BY ClaudeCardinality
  <2> HIDE DEF B, C
  <2> DEFINE fresh == ClaudeClient!Cardinality(DOMAIN B)
  <2>5. C = [j \in DOMAIN B \cup {fresh} |-> IF j = fresh THEN [open |-> TRUE, deltas |-> 0] ELSE B[j]]
    BY <2>1, <2>4, Zenon
  <2> QED
    BY <1>1, <2>2, <2>3, <2>5, Zenon DEF ClaudeClient!BlockStart
<1> QED
  BY <1>2

LEMMA ChangeFrame ==
  ASSUME Claude, Claude', view'.frames = view.frames + 1,
         NEW i \in DOMAIN AsSeen(view.blocks),
         view.phase = "blocks", view'.phase = "blocks",
         AsSeen(view.blocks)[i].open,
         \/ AsSeen(view'.blocks) = OneDelta(AsSeen(view.blocks), i)
         \/ AsSeen(view'.blocks) = Shut(AsSeen(view.blocks), i)
  PROVE  ClaudeClient!ProtocolNext
<1>1. ViewOf("claude") = view /\ ViewOf("claude")' = view'
  BY DEF ViewOf, Claude
<1> USE DEF ClaudeClient!ProtocolNext, ClaudeClient!NextFrame
<1>2. ClaudeClient!BlockDelta(i) \/ ClaudeClient!BlockStop(i)
  BY <1>1, Zenon DEF ClaudeClient!BlockDelta, ClaudeClient!BlockStop, AsSeen, OneDelta, Shut
<1> QED
  BY <1>1, <1>2 DEF AsSeen

LEMMA ClosingFrame ==
  ASSUME Claude, Claude', view'.frames = view.frames + 1,
         view.phase = "blocks", view'.phase = "closing",
         view'.blocks = view.blocks,
         DOMAIN AsSeen(view.blocks) # {},
         \A i \in DOMAIN AsSeen(view.blocks) : ~AsSeen(view.blocks)[i].open
  PROVE  ClaudeClient!ProtocolNext
<1>1. ViewOf("claude") = view /\ ViewOf("claude")' = view'
  BY DEF ViewOf, Claude
<1> USE DEF ClaudeClient!ProtocolNext, ClaudeClient!NextFrame
<1>2. ClaudeClient!MessageDelta
  BY <1>1, Zenon DEF ClaudeClient!MessageDelta, AsSeen
<1> QED
  BY <1>2

LEMMA StopFrame ==
  ASSUME Claude, Claude', view'.frames = view.frames + 1,
         view.phase = "closing", view'.phase = "stopped",
         view'.blocks = view.blocks
  PROVE  ClaudeClient!ProtocolNext
<1>1. ViewOf("claude") = view /\ ViewOf("claude")' = view'
  BY DEF ViewOf, Claude
<1> USE DEF ClaudeClient!ProtocolNext, ClaudeClient!NextFrame
<1>2. ClaudeClient!MessageStop
  BY <1>1 DEF ClaudeClient!MessageStop
<1> QED
  BY <1>2

\* One more block.
LEMMA TextBlockStarts ==
  ASSUME ClaudeBlocks, NEW item, NEW n \in Nat, t.nextIndex = n, t'.nextIndex = n + 1,
         view'.blocks = Extended(view.blocks, n, NewBlock(item)), ~t.textOpen,
         item = TextItem, t'.textOpen, t'.textIndex = n,
         t'.calls = t.calls, OpenCalls' = OpenCalls, OpenCalls \subseteq DOMAIN t.calls
  PROVE  ClaudeBlocks'
<1> DEFINE B == view'.blocks
<1>1. DOMAIN view.blocks = 0 .. n - 1
  BY DEF ClaudeBlocks
<1>a. \A i \in 0 .. n - 1 : IsBlock(view.blocks[i]) /\ view.blocks[i].open \in BOOLEAN
  BY <1>1 DEF ClaudeBlocks
<1>b. \A i \in 0 .. n - 1 : view.blocks[i].open <=> \E x \in OpenCalls : t.calls[x] = i
  BY <1>1 DEF ClaudeBlocks
<1>c. \A x \in DOMAIN t.calls : t.calls[x] \in 0 .. n - 1 /\ view.blocks[t.calls[x]].item = x
  BY <1>1 DEF ClaudeBlocks
<1>2. DOMAIN B = 0 .. n /\ B[n] = NewBlock(item) /\ \A i \in 0 .. n - 1 : B[i] = view.blocks[i]
  BY <1>1 DEF Extended
<1>3. NewBlock(item).open = TRUE /\ NewBlock(item).item = item /\ IsBlock(NewBlock(item))
  BY DEF NewBlock, IsBlock
<1>4. 0 .. n = (0 .. n - 1) \cup {n} /\ n \notin 0 .. n - 1
  OBVIOUS
<1> HIDE DEF B
<1>5. ASSUME NEW i \in DOMAIN B
      PROVE  IsBlock(B[i]) /\ B[i].open \in BOOLEAN
  <2>1. CASE i = n
    BY <1>2, <1>3, <2>1
  <2>2. CASE i \in 0 .. n - 1
    BY <1>a, <1>2, <2>2, Zenon
  <2> QED
    BY <1>2, <1>4, <2>1, <2>2
<1>6. ASSUME NEW i \in DOMAIN B
      PROVE  B[i].open <=> (t'.textOpen /\ i = t'.textIndex) \/ (\E x \in OpenCalls' : t'.calls[x] = i)
  <2>1. CASE i = n
    BY <1>2, <1>3, <2>1
  <2>2. CASE i \in 0 .. n - 1
    <3>1. i # t'.textIndex /\ B[i] = view.blocks[i]
      BY <1>2, <1>4, <2>2
    <3> QED
      BY <1>b, <2>2, <3>1, Zenon
  <2> QED
    BY <1>2, <1>4, <2>1, <2>2
<1>7. \A x \in DOMAIN t'.calls : t'.calls[x] \in DOMAIN B /\ B[t'.calls[x]].item = x
  BY <1>c, <1>2, <1>4
<1> QED
  BY <1>2, <1>3, <1>4, <1>5, <1>6, <1>7 DEF ClaudeBlocks, B

LEMMA ToolBlockStarts ==
  ASSUME ClaudeBlocks, NEW item, NEW n \in Nat, t.nextIndex = n, t'.nextIndex = n + 1,
         view'.blocks = Extended(view.blocks, n, NewBlock(item)), ~t.textOpen, ~t'.textOpen,
         item \notin DOMAIN t.calls, t'.calls = Extended(t.calls, item, n),
         OpenCalls = DOMAIN t.calls, OpenCalls' = DOMAIN t'.calls
  PROVE  ClaudeBlocks'
<1> DEFINE B == view'.blocks
<1>1. DOMAIN view.blocks = 0 .. n - 1
  BY DEF ClaudeBlocks
<1>a. \A i \in 0 .. n - 1 : IsBlock(view.blocks[i]) /\ view.blocks[i].open \in BOOLEAN
  BY <1>1 DEF ClaudeBlocks
<1>b. \A i \in 0 .. n - 1 : view.blocks[i].open <=> \E x \in OpenCalls : t.calls[x] = i
  BY <1>1 DEF ClaudeBlocks
<1>c. \A x \in DOMAIN t.calls : t.calls[x] \in 0 .. n - 1 /\ view.blocks[t.calls[x]].item = x
  BY <1>1 DEF ClaudeBlocks
<1>2. DOMAIN B = 0 .. n /\ B[n] = NewBlock(item) /\ \A i \in 0 .. n - 1 : B[i] = view.blocks[i]
  BY <1>1 DEF Extended
<1>3. NewBlock(item).open = TRUE /\ NewBlock(item).item = item /\ IsBlock(NewBlock(item))
  BY DEF NewBlock, IsBlock
<1>4. 0 .. n = (0 .. n - 1) \cup {n} /\ n \notin 0 .. n - 1
  OBVIOUS
<1> HIDE DEF B
<1>5. ASSUME NEW i \in DOMAIN B
      PROVE  IsBlock(B[i]) /\ B[i].open \in BOOLEAN
  <2>1. CASE i = n
    BY <1>2, <1>3, <2>1
  <2>2. CASE i \in 0 .. n - 1
    BY <1>a, <1>2, <2>2, Zenon
  <2> QED
    BY <1>2, <1>4, <2>1, <2>2
<1>6. /\ DOMAIN t'.calls = DOMAIN t.calls \cup {item} /\ t'.calls[item] = n
      /\ \A x \in DOMAIN t.calls : t'.calls[x] = t.calls[x]
  BY DEF Extended
<1>7. ASSUME NEW i \in DOMAIN B
      PROVE  B[i].open <=> (t'.textOpen /\ i = t'.textIndex) \/ (\E x \in OpenCalls' : t'.calls[x] = i)
  <2>1. CASE i = n
    BY <1>2, <1>3, <1>6, <2>1
  <2>2. CASE i \in 0 .. n - 1
    <3>1. B[i] = view.blocks[i] /\ n # i
      BY <1>2, <1>4, <2>2
    <3>2. (\E x \in OpenCalls' : t'.calls[x] = i) <=> (\E x \in OpenCalls : t.calls[x] = i)
      BY <1>6, <3>1
    <3> QED
      BY <1>b, <2>2, <3>1, <3>2, Zenon
  <2> QED
    BY <1>2, <1>4, <2>1, <2>2
<1>8. \A x \in DOMAIN t'.calls : t'.calls[x] \in DOMAIN B /\ B[t'.calls[x]].item = x
  BY <1>c, <1>2, <1>3, <1>4, <1>6
<1> QED
  BY <1>2, <1>5, <1>7, <1>8 DEF ClaudeBlocks, B

LEMMA ClaudeOpensText ==
  ASSUME ClaudeBefore, NEW chunk, UNCHANGED Rest, At("text"), t.started, ensureTextBlock
  PROVE  Fails \/ ClaudeAfter(chunk)
<1> DEFINE e == Event("content_block_start", TextItem, t.nextIndex, NoPiece)
           u == [t EXCEPT !.textIndex = t.nextIndex, !.nextIndex = @ + 1, !.textOpen = TRUE]
<1>1. IsTranslator(t) /\ TranslatorTypes /\ Claude /\ ViewTypes /\ ClaudeOK /\ t.todo = "text"
  BY DEF ClaudeBefore, TranslatorTypes, At
<1>n. t.nextIndex \in Nat /\ t.nextIndex + 1 \in Nat
  BY <1>1 DEF IsTranslator
<1>2. /\ u.calls = t.calls /\ u.left = t.left /\ u.protocol = t.protocol
      /\ u.started = t.started /\ u.todo = t.todo /\ u.at = t.at /\ u.finished = t.finished
      /\ u.hasContent = t.hasContent /\ u.nextIndex = t.nextIndex + 1 /\ u.textOpen
      /\ u.textIndex = t.nextIndex
  BY <1>1 DEF IsTranslator
<1>a. IsTranslator(u)
  BY <1>1, <1>2, <1>n DEF IsTranslator
<1>3. CallsTyped(u) /\ emit(e, u) /\ ~t.textOpen
  BY <1>1, <1>2, <1>a, SameCallsTyped DEF ensureTextBlock
<1> SUFFICES ASSUME ~Fails PROVE ClaudeAfter(chunk)
  OBVIOUS
<1>4. ~broken /\ ~broken' /\ UNCHANGED stored /\ view' = Receive(view, e) /\ t' = u /\ TranslatorTypes'
      /\ broken' \in BOOLEAN
  BY <1>2, <1>3, <1>a, ClaudeWrites
<1>5. e.kind = "content_block_start" /\ e.piece \in Piece /\ e.index = t.nextIndex /\ e.item = TextItem
  BY DEF Event, NoPiece, Piece
<1> HIDE DEF e, u
<1>6. /\ ViewTypes' /\ view'.frames = view.frames + 1 /\ view'.ends = view.ends
      /\ view'.shown = view.shown /\ view'.phase = view.phase
      /\ view'.blocks = Extended(view.blocks, e.index, NewBlock(e.item))
  BY <1>1, <1>4, <1>5, ClaudeReceives
<1>7. ~t.finished
  BY <1>1 DEF ClaudeBefore, Control, FlowOK
<1>8. Moves(chunk)
  BY <1>1, <1>2, <1>4, <1>7 DEF Moves, SameFlags, Stays, ConsumeSteps
<1>9. ShownOK'
  BY <1>2, <1>4, <1>6, ShownKept DEF ClaudeBefore, Control, Claude, Gemini, Rest, upVars
<1>10. EndsOK'
  BY <1>1, <1>2, <1>4, <1>6, <1>7, EndsGoOn DEF ClaudeBefore, ConsumeSteps
<1>b. ClaudeBlocks /\ ClaudeStage /\ view.phase = ClaudePhase
  BY <1>1, <1>4 DEF ClaudeOK
<1>11. ClaudeOK'
  <2>1. OpenCalls' = OpenCalls /\ view'.phase = ClaudePhase'
    BY <1>b, <1>2, <1>4, <1>6, <1>7, <1>1 DEF OpenCalls, ClaudePhase
  <2>2. OpenCalls = DOMAIN t.calls
    BY <1>1, <1>7 DEF OpenCalls
  <2>3. ClaudeBlocks'
    BY <1>b, <1>2, <1>3, <1>4, <1>5, <1>6, <1>n, <2>1, <2>2, TextBlockStarts
  <2>4. ClaudeStage'
    BY <1>b, <1>1, <1>2, <1>4, <1>7, <1>n DEF ClaudeStage, ConsumeSteps
  <2> QED
    BY <2>1, <2>3, <2>4 DEF ClaudeOK
<1>12. ClaudeClient!ProtocolNext
  <2>1. view.phase = "blocks" /\ Claude' /\ DOMAIN view.blocks = 0 .. t.nextIndex - 1
    BY <1>1, <1>2, <1>4, <1>7, <1>b DEF ClaudePhase, ClaudeBlocks, Claude
  <2>2. Cardinality(DOMAIN AsSeen(view.blocks)) = t.nextIndex
    BY <2>1, <1>n, IntervalSize DEF AsSeen
  <2> QED
    BY <1>1, <1>5, <1>6, <2>1, <2>2, SeenExtended, BlockFrame
<1> QED
  BY <1>4, <1>6, <1>8, <1>9, <1>10, <1>11, <1>12 DEF ClaudeAfter

\* A block that is written to or closed.
LEMMA BlockChanges ==
  ASSUME ClaudeBlocks, NEW i \in DOMAIN view.blocks, NEW B,
         B = OneDelta(view.blocks, i) \/ B = Shut(view.blocks, i)
  PROVE  /\ DOMAIN B = DOMAIN view.blocks
         /\ \A j \in DOMAIN B : IsBlock(B[j]) /\ B[j].item = view.blocks[j].item
         /\ \A j \in DOMAIN B : j # i => B[j] = view.blocks[j]
         /\ B = OneDelta(view.blocks, i) => B[i].open = view.blocks[i].open
         /\ B = Shut(view.blocks, i) => B[i].open = FALSE
<1>1. IsBlock(view.blocks[i]) /\ \A j \in DOMAIN view.blocks : IsBlock(view.blocks[j])
  BY DEF ClaudeBlocks
<1>2. CASE B = OneDelta(view.blocks, i)
  <2>1. /\ DOMAIN B = DOMAIN view.blocks /\ \A j \in DOMAIN B : j # i => B[j] = view.blocks[j]
        /\ B[i] = [open |-> view.blocks[i].open, deltas |-> view.blocks[i].deltas + 1,
                   item |-> view.blocks[i].item]
    BY <1>1, <1>2 DEF OneDelta, IsBlock
  <2>2. IsBlock(B[i]) /\ B[i].open = view.blocks[i].open /\ B[i].item = view.blocks[i].item
    BY <2>1 DEF IsBlock
  <2>3. B = Shut(view.blocks, i) => B[i].open = FALSE
    BY <1>1 DEF Shut, IsBlock
  <2> QED
    BY <1>1, <2>1, <2>2, <2>3
<1>3. CASE B = Shut(view.blocks, i)
  <2>1. /\ DOMAIN B = DOMAIN view.blocks /\ \A j \in DOMAIN B : j # i => B[j] = view.blocks[j]
        /\ B[i] = [open |-> FALSE, deltas |-> view.blocks[i].deltas, item |-> view.blocks[i].item]
    BY <1>1, <1>3 DEF Shut, IsBlock
  <2>2. IsBlock(B[i]) /\ B[i].open = FALSE /\ B[i].item = view.blocks[i].item
    BY <2>1 DEF IsBlock
  <2>3. B = OneDelta(view.blocks, i) => B[i].open = view.blocks[i].open
    BY <1>1 DEF OneDelta, IsBlock
  <2> QED
    BY <1>1, <2>1, <2>2, <2>3
<1> QED
  BY <1>2, <1>3

\* More data in an open block.
LEMMA BlocksFilled ==
  ASSUME ClaudeBlocks, NEW i \in DOMAIN view.blocks, view'.blocks = OneDelta(view.blocks, i),
         t'.nextIndex = t.nextIndex, t'.textOpen = t.textOpen, t'.textIndex = t.textIndex,
         t'.calls = t.calls, OpenCalls' = OpenCalls
  PROVE  ClaudeBlocks'
<1> DEFINE B == view'.blocks
<1>1. /\ DOMAIN B = DOMAIN view.blocks
      /\ \A j \in DOMAIN B : IsBlock(B[j]) /\ B[j].item = view.blocks[j].item
      /\ \A j \in DOMAIN B : B[j].open = view.blocks[j].open
  BY BlockChanges
<1> HIDE DEF B
<1> QED
  BY <1>1 DEF ClaudeBlocks, B

\* A block that is closed.
LEMMA BlocksShut ==
  ASSUME ClaudeBlocks, NEW i \in DOMAIN view.blocks, view'.blocks = Shut(view.blocks, i),
         t'.nextIndex = t.nextIndex, t'.textIndex = t.textIndex, t'.calls = t.calls,
         t'.textOpen = (t.textOpen /\ t.textIndex # i),
         \A x \in DOMAIN t.calls : x \in OpenCalls' <=> x \in OpenCalls /\ t.calls[x] # i,
         OpenCalls \subseteq DOMAIN t.calls, OpenCalls' \subseteq DOMAIN t.calls
  PROVE  ClaudeBlocks'
<1> DEFINE B == view'.blocks
<1>1. /\ DOMAIN B = DOMAIN view.blocks
      /\ \A j \in DOMAIN B : IsBlock(B[j]) /\ B[j].item = view.blocks[j].item
      /\ \A j \in DOMAIN B : j # i => B[j] = view.blocks[j]
      /\ B[i].open = FALSE
  BY BlockChanges
<1> HIDE DEF B
<1>2. ASSUME NEW j \in DOMAIN B
      PROVE  /\ B[j].open \in BOOLEAN
             /\ B[j].open <=> (t'.textOpen /\ j = t'.textIndex) \/ (\E x \in OpenCalls' : t'.calls[x] = j)
  <2>1. CASE j = i
    BY <1>1, <2>1
  <2>2. CASE j # i
    <3>1. view.blocks[j].open \in BOOLEAN
      BY <1>1 DEF ClaudeBlocks
    <3>2. view.blocks[j].open <=> (t.textOpen /\ j = t.textIndex) \/ (\E x \in OpenCalls : t.calls[x] = j)
      BY <1>1 DEF ClaudeBlocks
    <3>3. B[j] = view.blocks[j]
      BY <1>1, <2>2
    <3>4. (\E x \in OpenCalls' : t'.calls[x] = j) <=> (\E x \in OpenCalls : t.calls[x] = j)
      BY <2>2
    <3> QED
      BY <2>2, <3>1, <3>2, <3>3, <3>4
  <2> QED
    BY <2>1, <2>2
<1>3. DOMAIN B = 0 .. t'.nextIndex - 1
  BY <1>1 DEF ClaudeBlocks
<1>4. ASSUME t'.textOpen
      PROVE  t'.textIndex \in DOMAIN B /\ B[t'.textIndex].item = TextItem
  <2>1. t.textIndex \in DOMAIN view.blocks /\ view.blocks[t.textIndex].item = TextItem
    BY <1>4 DEF ClaudeBlocks
  <2> QED
    BY <1>1, <2>1
<1>5. \A x \in DOMAIN t'.calls : t'.calls[x] \in DOMAIN B /\ B[t'.calls[x]].item = x
  BY <1>1 DEF ClaudeBlocks
<1> QED
  BY <1>1, <1>2, <1>3, <1>4, <1>5 DEF ClaudeBlocks, B

\* A step that leaves the blocks alone.
LEMMA BlocksKept ==
  ASSUME ClaudeBlocks, view'.blocks = view.blocks, t'.nextIndex = t.nextIndex,
         t'.textOpen = t.textOpen, t'.textIndex = t.textIndex, t'.calls = t.calls,
         OpenCalls' = OpenCalls
  PROVE  ClaudeBlocks'
<1> DEFINE B == view'.blocks
<1>1. DOMAIN B = 0 .. t'.nextIndex - 1
  BY DEF ClaudeBlocks
<1>2. ASSUME NEW i \in DOMAIN B
      PROVE  /\ IsBlock(B[i]) /\ B[i].open \in BOOLEAN
             /\ B[i].open <=> (t'.textOpen /\ i = t'.textIndex) \/ (\E x \in OpenCalls' : t'.calls[x] = i)
  <2>1. IsBlock(view.blocks[i]) /\ view.blocks[i].open \in BOOLEAN
    BY <1>2 DEF ClaudeBlocks
  <2>2. view.blocks[i].open <=> (t.textOpen /\ i = t.textIndex) \/ (\E x \in OpenCalls : t.calls[x] = i)
    BY <1>2 DEF ClaudeBlocks
  <2> QED
    BY <2>1, <2>2, Zenon
<1>3. ASSUME t'.textOpen
      PROVE  t'.textIndex \in DOMAIN B /\ B[t'.textIndex].item = TextItem
  BY <1>3 DEF ClaudeBlocks
<1>4. \A x \in DOMAIN t'.calls : t'.calls[x] \in DOMAIN B /\ B[t'.calls[x]].item = x
  BY DEF ClaudeBlocks
<1> HIDE DEF B
<1> QED
  BY <1>1, <1>2, <1>3, <1>4 DEF ClaudeBlocks, B

LEMMA ClaudeShutsText ==
  ASSUME ClaudeBefore, NEW chunk, UNCHANGED Rest, t.todo \in {"tools", "finish"}, t.started,
         closeTextBlock
  PROVE  Fails \/ ClaudeAfter(chunk)
<1> DEFINE e == Event("content_block_stop", TextItem, t.textIndex, NoPiece)
           u == [t EXCEPT !.textOpen = FALSE]
<1>1. IsTranslator(t) /\ TranslatorTypes /\ Claude /\ ViewTypes /\ ClaudeOK
  BY DEF ClaudeBefore, TranslatorTypes
<1>2. /\ IsTranslator(u) /\ u.calls = t.calls /\ u.left = t.left /\ u.protocol = t.protocol
      /\ u.started = t.started /\ u.todo = t.todo /\ u.at = t.at /\ u.finished = t.finished
      /\ u.hasContent = t.hasContent /\ u.nextIndex = t.nextIndex /\ u.textOpen = FALSE
      /\ u.textIndex = t.textIndex
  BY <1>1 DEF IsTranslator
<1>3. CallsTyped(u) /\ emit(e, u) /\ t.textOpen
  BY <1>1, <1>2, SameCallsTyped DEF closeTextBlock
<1> SUFFICES ASSUME ~Fails PROVE ClaudeAfter(chunk)
  OBVIOUS
<1>4. ~broken /\ ~broken' /\ UNCHANGED stored /\ view' = Receive(view, e) /\ t' = u /\ TranslatorTypes'
      /\ broken' \in BOOLEAN
  BY <1>2, <1>3, ClaudeWrites
<1>5. e.kind = "content_block_stop" /\ e.piece \in Piece /\ e.index = t.textIndex
  BY DEF Event, NoPiece, Piece
<1> HIDE DEF e, u
<1>b. ClaudeBlocks /\ ClaudeStage /\ view.phase = ClaudePhase
  BY <1>1, <1>4 DEF ClaudeOK
<1>c. /\ e.index \in DOMAIN view.blocks /\ IsBlock(view.blocks[e.index])
      /\ view.blocks[e.index].item = TextItem /\ view.blocks[e.index].open
  BY <1>b, <1>3, <1>5 DEF ClaudeBlocks
<1>6. /\ ViewTypes' /\ view'.frames = view.frames + 1 /\ view'.ends = view.ends
      /\ view'.shown = view.shown /\ view'.phase = view.phase
      /\ view'.blocks = Shut(view.blocks, e.index)
  BY <1>1, <1>4, <1>5, <1>c, ClaudeReceives DEF Items
<1>7. ~t.finished
  BY <1>1 DEF ClaudeBefore, Control, FlowOK
<1>8. Moves(chunk)
  BY <1>1, <1>2, <1>4, <1>7 DEF Moves, SameFlags, Stays, GoesOn, ConsumeSteps, FinishSteps
<1>9. ShownOK'
  BY <1>2, <1>4, <1>6, ShownKept DEF ClaudeBefore, Control, Claude, Gemini, Rest, upVars
<1>10. EndsOK'
  BY <1>1, <1>2, <1>4, <1>6, <1>7, EndsGoOn DEF ClaudeBefore, ConsumeSteps, FinishSteps
<1>11. ClaudeOK'
  <2>1. OpenCalls' = OpenCalls /\ view'.phase = ClaudePhase'
    BY <1>b, <1>2, <1>4, <1>6, <1>7 DEF OpenCalls, ClaudePhase
  <2>2. OpenCalls \subseteq DOMAIN t.calls
    BY <1>1 DEF OpenCalls, TranslatorTypes, CallsTyped
  <2>3. \A x \in DOMAIN t.calls : t.calls[x] # e.index
    <3>1. \A x \in DOMAIN t.calls : view.blocks[t.calls[x]].item = x /\ x \in Nat
      BY <1>b, <1>1, ToolsAssumption DEF ClaudeBlocks, TranslatorTypes, CallsTyped
    <3> QED
      BY <3>1, <1>c DEF TextItem
  <2>4. ClaudeBlocks'
    BY <1>b, <1>c, <1>2, <1>3, <1>4, <1>5, <1>6, <2>1, <2>2, <2>3, BlocksShut
  <2>5. ClaudeStage'
    BY <1>b, <1>2, <1>4, <1>7 DEF ClaudeStage
  <2> QED
    BY <2>1, <2>4, <2>5 DEF ClaudeOK
<1>12. ClaudeClient!ProtocolNext
  <2>1. view.phase = "blocks" /\ Claude'
    BY <1>1, <1>2, <1>4, <1>7, <1>b DEF ClaudePhase, Claude
  <2>2. e.index \in DOMAIN AsSeen(view.blocks) /\ AsSeen(view.blocks)[e.index].open
        /\ AsSeen(view'.blocks) = Shut(AsSeen(view.blocks), e.index)
    BY <1>6, <1>c, SeenChanged
  <2> QED
    BY <1>1, <1>6, <2>1, <2>2, ChangeFrame
<1> QED
  BY <1>4, <1>6, <1>8, <1>9, <1>10, <1>11, <1>12 DEF ClaudeAfter

LEMMA ClaudeOpensTool ==
  ASSUME ClaudeBefore, NEW chunk, UNCHANGED Rest, t.todo = "tools", t.started, ~t.textOpen,
         NEW tool \in Tools, openToolBlock(tool)
  PROVE  Fails \/ ClaudeAfter(chunk)
<1> DEFINE e == Event("content_block_start", tool, t.nextIndex, NoPiece)
           u == [t EXCEPT !.calls = Extended(@, tool, t.nextIndex), !.nextIndex = @ + 1]
           C == Extended(t.calls, tool, t.nextIndex)
<1>1. IsTranslator(t) /\ TranslatorTypes /\ Claude /\ ViewTypes /\ ClaudeOK
  BY DEF ClaudeBefore, TranslatorTypes
<1>n. t.nextIndex \in Nat /\ t.nextIndex + 1 \in Nat
  BY <1>1 DEF IsTranslator
<1>2. /\ u.calls = C /\ u.left = t.left /\ u.protocol = t.protocol
      /\ u.started = t.started /\ u.todo = t.todo /\ u.at = t.at /\ u.finished = t.finished
      /\ u.hasContent = t.hasContent /\ u.nextIndex = t.nextIndex + 1 /\ u.textOpen = t.textOpen
      /\ u.textIndex = t.textIndex
  <2> HIDE DEF C
  <2>1. u = [t EXCEPT !.calls = C, !.nextIndex = t.nextIndex + 1]
    BY DEF C
  <2> HIDE DEF u
  <2> QED
    BY <1>1, <2>1 DEF IsTranslator
<1>a. IsTranslator(u)
  <2>1. u = [t EXCEPT !.calls = u.calls, !.nextIndex = u.nextIndex]
    BY <1>2
  <2> HIDE DEF u, C
  <2> QED
    BY <1>1, <1>2, <1>n, <2>1 DEF IsTranslator
<1>3. CallsTyped(u) /\ emit(e, u) /\ tool \notin DOMAIN t.calls
  <2>1. IsCall(t.protocol, t.nextIndex)
    BY <1>1, <1>n DEF IsCall, Claude
  <2> QED
    BY <1>1, <1>2, <1>a, <2>1, ExtendedTyped DEF openToolBlock
<1> SUFFICES ASSUME ~Fails PROVE ClaudeAfter(chunk)
  OBVIOUS
<1>4. ~broken /\ ~broken' /\ UNCHANGED stored /\ view' = Receive(view, e) /\ t' = u /\ TranslatorTypes'
      /\ broken' \in BOOLEAN
  BY <1>2, <1>3, <1>a, ClaudeWrites
<1>5. e.kind = "content_block_start" /\ e.piece \in Piece /\ e.index = t.nextIndex /\ e.item = tool
  BY DEF Event, NoPiece, Piece
<1> HIDE DEF e, u
<1>6. /\ ViewTypes' /\ view'.frames = view.frames + 1 /\ view'.ends = view.ends
      /\ view'.shown = view.shown /\ view'.phase = view.phase
      /\ view'.blocks = Extended(view.blocks, e.index, NewBlock(e.item))
  BY <1>1, <1>4, <1>5, ClaudeReceives
<1>7. ~t.finished
  BY <1>1 DEF ClaudeBefore, Control, FlowOK
<1>8. Moves(chunk)
  BY <1>1, <1>2, <1>4, <1>7 DEF Moves, SameFlags, Stays, ConsumeSteps
<1>9. ShownOK'
  BY <1>1, <1>2, <1>4, <1>6, ShownKept DEF ClaudeBefore, Control, Claude, Gemini, Rest, upVars
<1>10. EndsOK'
  BY <1>1, <1>2, <1>4, <1>6, <1>7, EndsGoOn DEF ClaudeBefore, ConsumeSteps
<1>b. ClaudeBlocks /\ ClaudeStage /\ view.phase = ClaudePhase
  BY <1>1, <1>4 DEF ClaudeOK
<1>11. ClaudeOK'
  <2>1. OpenCalls = DOMAIN t.calls /\ OpenCalls' = DOMAIN t'.calls
    BY <1>2, <1>4, <1>7 DEF OpenCalls
  <2>2. view'.phase = ClaudePhase'
    BY <1>b, <1>2, <1>4, <1>6, <1>7 DEF ClaudePhase
  <2>3. ClaudeBlocks'
    BY <1>b, <1>2, <1>3, <1>4, <1>5, <1>6, <1>n, <2>1, ToolBlockStarts
  <2>4. ClaudeStage'
    BY <1>b, <1>1, <1>2, <1>4, <1>7, <1>n DEF ClaudeStage, ConsumeSteps
  <2> QED
    BY <2>2, <2>3, <2>4 DEF ClaudeOK
<1>12. ClaudeClient!ProtocolNext
  <2>1. view.phase = "blocks" /\ Claude' /\ DOMAIN view.blocks = 0 .. t.nextIndex - 1
    BY <1>1, <1>2, <1>4, <1>7, <1>b DEF ClaudePhase, ClaudeBlocks, Claude
  <2>2. Cardinality(DOMAIN AsSeen(view.blocks)) = t.nextIndex
    BY <2>1, <1>n, IntervalSize DEF AsSeen
  <2> QED
    BY <1>1, <1>5, <1>6, <2>1, <2>2, SeenExtended, BlockFrame
<1> QED
  BY <1>4, <1>6, <1>8, <1>9, <1>10, <1>11, <1>12 DEF ClaudeAfter

LEMMA ClaudeAddsText ==
  ASSUME ClaudeBefore, UNCHANGED Rest, At("text"), t.started, textDelta(chunks[t.at[1]])
  PROVE  Fails \/ ClaudeAfter(chunks[t.at[1]])
<1> DEFINE chunk == chunks[t.at[1]]
           e == Event("content_block_delta", TextItem, t.textIndex, t.at)
           u == Onward(t, chunk)
<1>1. IsTranslator(t) /\ TranslatorTypes /\ Claude /\ ViewTypes /\ ClaudeOK /\ t.todo = "text"
  BY DEF ClaudeBefore, TranslatorTypes, At
<1>2. /\ IsTranslator(u) /\ u.calls = t.calls /\ u.left = t.left /\ u.protocol = t.protocol
      /\ u.started = t.started /\ u.todo \in {"idle", "tools"} /\ u.finished = t.finished
      /\ u.hasContent = t.hasContent /\ u.nextIndex = t.nextIndex /\ u.textOpen = t.textOpen
      /\ u.textIndex = t.textIndex
  <2>1. IsTranslator(u) /\ u.todo \in {"idle", "tools"} /\ u = [t EXCEPT !.todo = u.todo, !.at = u.at]
    BY <1>1, OnwardTyped
  <2> HIDE DEF u
  <2> QED
    BY <1>1, <2>1 DEF IsTranslator
<1>3. CallsTyped(u) /\ emit(e, u) /\ t.textOpen
  BY <1>1, <1>2, SameCallsTyped DEF textDelta
<1> SUFFICES ASSUME ~Fails PROVE ClaudeAfter(chunk)
  OBVIOUS
<1>4. ~broken /\ ~broken' /\ UNCHANGED stored /\ view' = Receive(view, e) /\ t' = u /\ TranslatorTypes'
      /\ broken' \in BOOLEAN
  BY <1>2, <1>3, ClaudeWrites
<1>5. e.kind = "content_block_delta" /\ e.piece = t.at /\ e.piece \in Piece /\ e.index = t.textIndex
  BY <1>1 DEF Event, IsTranslator
<1>m. u.todo = Onward(t, chunk).todo /\ u.at = Onward(t, chunk).at
  OBVIOUS
<1> HIDE DEF e, u
<1>b. ClaudeBlocks /\ ClaudeStage /\ view.phase = ClaudePhase
  BY <1>1, <1>4 DEF ClaudeOK
<1>c. /\ e.index \in DOMAIN view.blocks /\ IsBlock(view.blocks[e.index])
      /\ view.blocks[e.index].item = TextItem /\ view.blocks[e.index].open
  BY <1>b, <1>3, <1>5 DEF ClaudeBlocks
<1>6. /\ ViewTypes' /\ view'.frames = view.frames + 1 /\ view'.ends = view.ends
      /\ view'.shown = [view.shown EXCEPT ![TextItem] = Append(@, t.at)] /\ view'.phase = view.phase
      /\ view'.blocks = OneDelta(view.blocks, e.index)
  <2>1. view.blocks[e.index].item \in Items
    BY <1>c DEF Items
  <2>2. /\ ViewTypes' /\ view'.frames = view.frames + 1 /\ view'.ends = view.ends
        /\ view'.shown = [view.shown EXCEPT ![view.blocks[e.index].item] = Append(@, e.piece)]
        /\ view'.phase = view.phase /\ view'.blocks = OneDelta(view.blocks, e.index)
    BY <1>1, <1>4, <1>5, <1>c, <2>1, ClaudeReceives
  <2>3. view'.shown = [view.shown EXCEPT ![TextItem] = Append(@, t.at)]
    BY <1>5, <1>c, <2>2, Zenon
  <2> QED
    BY <2>2, <2>3
<1>7. ~t.finished /\ ReaderOK /\ PlaceOK /\ ShownOK
  BY <1>1 DEF ClaudeBefore, Control, FlowOK
<1>d. Advances(chunk)
  BY <1>1, <1>2, <1>4, <1>m DEF Advances, ConsumeSteps
<1>8. Moves(chunk)
  BY <1>2, <1>4, <1>d DEF Moves, SameFlags
<1>9. ShownOK'
  <2>1. \A item \in Items :
          view'.shown[item] = IF Carries(item, t.at[1], t.at[2])
                              THEN Append(view.shown[item], t.at) ELSE view.shown[item]
    <3>1. \A item \in Items : Carries(item, t.at[1], t.at[2]) <=> item = TextItem
      BY <1>1, <1>4, <1>7, PieceOfItem DEF ConsumeSteps
    <3>2. view.shown \in [Items -> Seq(Piece)]
      BY <1>1 DEF ViewTypes
    <3> QED
      BY <1>6, <3>1, <3>2
  <2> QED
    BY <1>1, <1>2, <1>4, <1>6, <1>7, <1>d, <2>1, ShownTaken DEF Claude, Gemini, Rest, upVars, ConsumeSteps
<1>10. EndsOK'
  BY <1>1, <1>2, <1>4, <1>6, <1>7, EndsGoOn DEF ClaudeBefore, ConsumeSteps, FinishSteps
<1>11. ClaudeOK'
  <2>1. OpenCalls' = OpenCalls /\ view'.phase = ClaudePhase'
    BY <1>b, <1>1, <1>2, <1>3, <1>4, <1>6, <1>7 DEF OpenCalls, ClaudePhase
  <2>2. ClaudeBlocks'
    BY <1>b, <1>c, <1>2, <1>4, <1>6, <2>1, BlocksFilled
  <2>3. t.nextIndex \in Nat /\ t.nextIndex # 0
    BY <1>1, <1>b, <1>c DEF ClaudeBlocks, IsTranslator
  <2>4. ClaudeStage'
    BY <1>b, <1>1, <1>2, <1>4, <1>7, <2>3 DEF ClaudeStage, ConsumeSteps
  <2> QED
    BY <2>1, <2>2, <2>4 DEF ClaudeOK
<1>12. ClaudeClient!ProtocolNext
  <2>1. view.phase = "blocks" /\ Claude'
    BY <1>1, <1>2, <1>4, <1>7, <1>b DEF ClaudePhase, Claude
  <2>2. e.index \in DOMAIN AsSeen(view.blocks) /\ AsSeen(view.blocks)[e.index].open
        /\ AsSeen(view'.blocks) = OneDelta(AsSeen(view.blocks), e.index)
    BY <1>6, <1>c, SeenChanged
  <2> QED
    BY <1>1, <1>6, <2>1, <2>2, ChangeFrame
<1> QED
  BY <1>4, <1>6, <1>8, <1>9, <1>10, <1>11, <1>12 DEF ClaudeAfter

\* Every non-empty set of natural numbers has a least element.
LEMMA LeastElement ==
  ASSUME NEW T, T \subseteq Nat, T # {}
  PROVE  \E x \in T : \A y \in T : x <= y
<1> DEFINE U == {0 .. x : x \in T}
<1>1. U \subseteq FiniteSubsetsOf(Nat) /\ U # {}
  <2>1. ASSUME NEW x \in T PROVE 0 .. x \in FiniteSubsetsOf(Nat)
    <3>1. x \in Int /\ 0 \in Int /\ 0 .. x \subseteq Nat
      OBVIOUS
    <3>2. IsFiniteSet(0 .. x)
      BY <3>1, FS_Interval
    <3> QED
      BY <3>1, <3>2 DEF FiniteSubsetsOf
  <2> QED
    BY <2>1
<1>2. PICK u \in U : \A v \in U : <<v, u>> \notin StrictSubsetOrdering(Nat)
  <2>1. IsWellFoundedOn(StrictSubsetOrdering(Nat), FiniteSubsetsOf(Nat))
    BY FS_StrictSubsetOrderingWellFounded
  <2> HIDE DEF U
  <2> QED
    BY <1>1, <2>1, WFMin
<1>3. PICK x \in T : u = 0 .. x
  BY <1>2
<1>4. ASSUME NEW y \in T, y < x PROVE FALSE
  <2>1. 0 .. y \subseteq u /\ 0 .. y # u /\ u \subseteq Nat
    <3>1. x \in u /\ x \notin 0 .. y
      BY <1>3, <1>4
    <3> QED
      BY <1>3, <1>4, <3>1
  <2> QED
    BY <1>2, <2>1 DEF StrictSubsetOrdering
<1> QED
  BY <1>4

LEMMA MinOf ==
  ASSUME NEW S, S \subseteq Nat, S # {}
  PROVE  Min(S) \in S /\ \A y \in S : Min(S) <= y
<1>1. \E x \in S : \A y \in S : x <= y
  BY LeastElement
<1> QED
  BY <1>1 DEF Min

LEMMA ClaudeAddsToTool ==
  ASSUME ClaudeBefore, UNCHANGED Rest, t.todo = "tools", t.started, ~t.textOpen,
         toolDelta(Fragment(chunks[t.at[1]]).tool, chunks[t.at[1]])
  PROVE  Fails \/ ClaudeAfter(chunks[t.at[1]])
<1> DEFINE chunk == chunks[t.at[1]]
           tool == Fragment(chunk).tool
           e == Event("content_block_delta", tool, t.calls[tool], t.at)
           u == Onward(t, chunk)
<1>1. IsTranslator(t) /\ TranslatorTypes /\ Claude /\ ViewTypes /\ ClaudeOK
  BY DEF ClaudeBefore, TranslatorTypes
<1>2. /\ IsTranslator(u) /\ u.calls = t.calls /\ u.left = t.left /\ u.protocol = t.protocol
      /\ u.started = t.started /\ u.todo \in {"idle", "tools"} /\ u.finished = t.finished
      /\ u.hasContent = t.hasContent /\ u.nextIndex = t.nextIndex /\ u.textOpen = t.textOpen
      /\ u.textIndex = t.textIndex
  <2>1. IsTranslator(u) /\ u.todo \in {"idle", "tools"} /\ u = [t EXCEPT !.todo = u.todo, !.at = u.at]
    BY <1>1, OnwardTyped
  <2> HIDE DEF u
  <2> QED
    BY <1>1, <2>1 DEF IsTranslator
<1>3. CallsTyped(u) /\ tool \in DOMAIN t.calls
      /\ (IF Fragment(chunk).args THEN emit(e, u) ELSE Silently(u))
  <2>1. CallsTyped(u)
    BY <1>1, <1>2, SameCallsTyped
  <2> QED
    BY <2>1 DEF toolDelta
<1> SUFFICES ASSUME ~Fails PROVE ClaudeAfter(chunk)
  OBVIOUS
<1>4. ~broken /\ ~broken' /\ UNCHANGED stored /\ t' = u /\ TranslatorTypes' /\ broken' \in BOOLEAN
      /\ (IF Fragment(chunk).args THEN view' = Receive(view, e) ELSE UNCHANGED view)
  <2>1. CASE Fragment(chunk).args
    BY <1>2, <1>3, <2>1, ClaudeWrites
  <2>2. CASE ~Fragment(chunk).args
    <3>1. t' = u /\ UNCHANGED clientVars
      BY <1>3, <2>2 DEF Silently
    <3>2. ~broken
      BY <1>1 DEF ClaudeBefore, Control, BrokenOK
    <3> QED
      BY <1>1, <1>2, <1>3, <2>2, <3>1, <3>2 DEF clientVars, TranslatorTypes, ViewTypes
  <2> QED
    BY <2>1, <2>2
<1>5. e.kind = "content_block_delta" /\ e.piece = t.at /\ e.piece \in Piece /\ e.index = t.calls[tool]
  BY <1>1 DEF Event, IsTranslator
<1>m. u.todo = Onward(t, chunk).todo /\ u.at = Onward(t, chunk).at
  OBVIOUS
<1> HIDE DEF e, u
<1>b. ClaudeBlocks /\ ClaudeStage /\ view.phase = ClaudePhase
  BY <1>1, <1>4 DEF ClaudeOK
<1>7. ~t.finished /\ ReaderOK /\ PlaceOK /\ ShownOK
  BY <1>1 DEF ClaudeBefore, Control, FlowOK
<1>e. OpenCalls = DOMAIN t.calls
  BY <1>7 DEF OpenCalls
<1>c. /\ e.index \in DOMAIN view.blocks /\ IsBlock(view.blocks[e.index])
      /\ view.blocks[e.index].item = tool /\ view.blocks[e.index].open /\ tool \in Items
  BY <1>b, <1>1, <1>3, <1>5, <1>e DEF ClaudeBlocks, TranslatorTypes, CallsTyped, Items
<1>6. /\ ViewTypes' /\ view'.ends = view.ends /\ view'.phase = view.phase
      /\ IF Fragment(chunk).args
         THEN /\ view'.frames = view.frames + 1
              /\ view'.shown = [view.shown EXCEPT ![tool] = Append(@, t.at)]
              /\ view'.blocks = OneDelta(view.blocks, e.index)
         ELSE view' = view
  <2>1. CASE Fragment(chunk).args
    <3>1. view' = Receive(view, e)
      BY <1>4, <2>1
    <3>2. /\ ViewTypes' /\ view'.frames = view.frames + 1 /\ view'.ends = view.ends
          /\ view'.shown = [view.shown EXCEPT ![view.blocks[e.index].item] = Append(@, e.piece)]
          /\ view'.phase = view.phase /\ view'.blocks = OneDelta(view.blocks, e.index)
      BY <1>1, <1>4, <1>5, <1>c, <3>1, ClaudeReceives
    <3>3. view'.shown = [view.shown EXCEPT ![tool] = Append(@, t.at)]
      BY <3>2, <1>5, <1>c, Zenon
    <3> QED
      BY <2>1, <3>2, <3>3
  <2>2. CASE ~Fragment(chunk).args
    BY <1>1, <1>4, <2>2 DEF ViewTypes
  <2> QED
    BY <2>1, <2>2
<1>d. Advances(chunk)
  BY <1>1, <1>2, <1>4, <1>m DEF Advances, ConsumeSteps
<1>8. Moves(chunk)
  BY <1>2, <1>4, <1>d DEF Moves, SameFlags
<1>9. ShownOK'
  <2>1. \A item \in Items :
          view'.shown[item] = IF Carries(item, t.at[1], t.at[2])
                              THEN Append(view.shown[item], t.at) ELSE view.shown[item]
    <3>1. \A item \in Items : Carries(item, t.at[1], t.at[2]) <=> item = tool /\ Fragment(chunk).args
      BY <1>1, <1>4, <1>7, PieceOfItem DEF ConsumeSteps
    <3>2. view.shown \in [Items -> Seq(Piece)]
      BY <1>1 DEF ViewTypes
    <3>3. CASE Fragment(chunk).args
      BY <1>6, <3>1, <3>2, <3>3
    <3>4. CASE ~Fragment(chunk).args
      BY <1>6, <3>1, <3>4
    <3> QED
      BY <3>3, <3>4
  <2> QED
    BY <1>1, <1>2, <1>4, <1>6, <1>7, <1>d, <2>1, ShownTaken DEF Claude, Gemini, Rest, upVars, ConsumeSteps
<1>10. EndsOK'
  BY <1>1, <1>2, <1>4, <1>6, <1>7, EndsGoOn DEF ClaudeBefore, ConsumeSteps, FinishSteps
<1>11. ClaudeOK'
  <2>1. OpenCalls' = OpenCalls
    BY <1>e, <1>2, <1>4, <1>7 DEF OpenCalls
  <2>2. view'.phase = ClaudePhase'
    BY <1>b, <1>1, <1>2, <1>4, <1>6, <1>7 DEF ClaudePhase
  <2>3. ClaudeBlocks'
    <3>1. CASE Fragment(chunk).args
      BY <1>b, <1>c, <1>2, <1>4, <1>6, <2>1, <3>1, BlocksFilled
    <3>2. CASE ~Fragment(chunk).args
      <4>1. /\ view' = view /\ t'.nextIndex = t.nextIndex /\ t'.textOpen = t.textOpen
            /\ t'.textIndex = t.textIndex /\ t'.calls = t.calls
        BY <1>2, <1>4, <1>6, <3>2
      <4> QED
        BY <1>b, <2>1, <4>1, BlocksKept
    <3> QED
      BY <3>1, <3>2
  <2>4. t.nextIndex \in Nat /\ t.nextIndex # 0
    BY <1>1, <1>b, <1>c DEF ClaudeBlocks, IsTranslator
  <2>5. ClaudeStage'
    BY <1>b, <1>1, <1>2, <1>4, <1>7, <2>4 DEF ClaudeStage, ConsumeSteps
  <2> QED
    BY <2>2, <2>3, <2>5 DEF ClaudeOK
<1>12. [ClaudeClient!ProtocolNext]_(ClaudeClient!protocolVars)
  <2>1. view.phase = "blocks" /\ Claude'
    BY <1>1, <1>2, <1>4, <1>7, <1>b DEF ClaudePhase, Claude
  <2>2. CASE Fragment(chunk).args
    <3>1. e.index \in DOMAIN AsSeen(view.blocks) /\ AsSeen(view.blocks)[e.index].open
          /\ AsSeen(view'.blocks) = OneDelta(AsSeen(view.blocks), e.index)
      BY <1>6, <1>c, <2>2, SeenChanged
    <3>2. view'.frames = view.frames + 1 /\ view'.phase = "blocks"
      BY <1>6, <2>1, <2>2
    <3>3. ClaudeClient!ProtocolNext
      BY <1>1, <2>1, <3>1, <3>2, ChangeFrame
    <3> QED
      BY <3>3
  <2>3. CASE ~Fragment(chunk).args
    BY <1>1, <1>6, <2>1, <2>3 DEF ClaudeClient!protocolVars, ViewOf, Claude
  <2> QED
    BY <2>2, <2>3
<1> QED
  BY <1>4, <1>6, <1>8, <1>9, <1>10, <1>11, <1>12 DEF ClaudeAfter

LEMMA ClaudeShutsTool ==
  ASSUME ClaudeBefore, NEW chunk, UNCHANGED Rest, t.todo = "finish", t.started, ~t.textOpen,
         stopToolBlock
  PROVE  Fails \/ ClaudeAfter(chunk)
<1> DEFINE first == Min({t.calls[x] : x \in t.left})
           rest == {x \in t.left : t.calls[x] # first}
           e == Event("content_block_stop", TextItem, first, NoPiece)
           u == [t EXCEPT !.left = rest]
<1>1. IsTranslator(t) /\ TranslatorTypes /\ Claude /\ ViewTypes /\ ClaudeOK
  BY DEF ClaudeBefore, TranslatorTypes
<1>f. PICK x0 \in t.left : t.calls[x0] = first
  <2>1. t.left # {} /\ t.left \subseteq DOMAIN t.calls
    BY <1>1 DEF stopToolBlock, TranslatorTypes, CallsTyped
  <2>2. \A x \in t.left : t.calls[x] \in Nat
    BY <1>1, <2>1 DEF TranslatorTypes, CallsTyped, IsCall, Claude
  <2>3. first \in {t.calls[x] : x \in t.left}
    <3> DEFINE S == {t.calls[x] : x \in t.left}
    <3>1. S \subseteq Nat /\ S # {}
      BY <2>1, <2>2
    <3> HIDE DEF S
    <3>2. Min(S) \in S
      BY <3>1, MinOf
    <3> QED
      BY <3>2 DEF S
  <2> QED
    BY <2>3
<1>r. rest \subseteq t.left
  OBVIOUS
<1>g. emit(e, u)
  BY DEF stopToolBlock
<1> HIDE DEF first, rest
<1>2. /\ IsTranslator(u) /\ u.calls = t.calls /\ u.left = rest /\ u.protocol = t.protocol
      /\ u.started = t.started /\ u.todo = t.todo /\ u.at = t.at /\ u.finished = t.finished
      /\ u.hasContent = t.hasContent /\ u.nextIndex = t.nextIndex /\ u.textOpen = t.textOpen
      /\ u.textIndex = t.textIndex
  BY <1>1, <1>r DEF IsTranslator
<1>3. CallsTyped(u)
  BY <1>1, <1>2, <1>r, SameCallsTyped
<1> SUFFICES ASSUME ~Fails PROVE ClaudeAfter(chunk)
  OBVIOUS
<1>4. ~broken /\ ~broken' /\ UNCHANGED stored /\ view' = Receive(view, e) /\ t' = u /\ TranslatorTypes'
      /\ broken' \in BOOLEAN
  BY <1>2, <1>3, <1>g, ClaudeWrites
<1>5. e.kind = "content_block_stop" /\ e.piece \in Piece /\ e.index = first
  BY DEF Event, NoPiece, Piece
<1> HIDE DEF e, u
<1>b. ClaudeBlocks /\ ClaudeStage /\ view.phase = ClaudePhase
  BY <1>1, <1>4 DEF ClaudeOK
<1>o. OpenCalls = t.left /\ OpenCalls' = rest
  BY <1>2, <1>4 DEF OpenCalls
<1>c. /\ e.index \in DOMAIN view.blocks /\ IsBlock(view.blocks[e.index])
      /\ view.blocks[e.index].item \in Items /\ view.blocks[e.index].open
  <2>1. x0 \in DOMAIN t.calls /\ x0 \in Tools /\ t.calls[x0] = e.index
    BY <1>1, <1>f, <1>5 DEF TranslatorTypes, CallsTyped
  <2>2. e.index \in DOMAIN view.blocks /\ view.blocks[e.index].item = x0
    BY <1>b, <2>1 DEF ClaudeBlocks
  <2>3. \E x \in OpenCalls : t.calls[x] = e.index
    BY <1>f, <1>o, <2>1
  <2> QED
    BY <1>b, <2>1, <2>2, <2>3 DEF ClaudeBlocks, Items
<1>6. /\ ViewTypes' /\ view'.frames = view.frames + 1 /\ view'.ends = view.ends
      /\ view'.shown = view.shown /\ view'.phase = view.phase
      /\ view'.blocks = Shut(view.blocks, e.index)
  BY <1>1, <1>4, <1>5, <1>c, ClaudeReceives
<1>7. ~t.finished
  BY <1>1 DEF ClaudeBefore, Control, FlowOK
<1>8. Moves(chunk)
  BY <1>1, <1>2, <1>4, <1>7 DEF Moves, SameFlags, GoesOn, FinishSteps
<1>9. ShownOK'
  BY <1>1, <1>2, <1>4, <1>6, ShownKept DEF ClaudeBefore, Control, Claude, Gemini, Rest, upVars
<1>10. EndsOK'
  BY <1>1, <1>2, <1>4, <1>6, <1>7, EndsGoOn DEF ClaudeBefore, FinishSteps
<1>11. ClaudeOK'
  <2>1. view'.phase = ClaudePhase'
    BY <1>b, <1>2, <1>4, <1>6, <1>7 DEF ClaudePhase
  <2>2. t.left \subseteq DOMAIN t.calls
    BY <1>1 DEF TranslatorTypes, CallsTyped
  <2>3. \A x \in DOMAIN t.calls : x \in OpenCalls' <=> x \in OpenCalls /\ t.calls[x] # e.index
    BY <1>o, <1>5 DEF rest
  <2>4. t'.textOpen = (t.textOpen /\ t.textIndex # e.index)
    BY <1>1, <1>2, <1>4 DEF IsTranslator
  <2>5. ClaudeBlocks'
    BY <1>b, <1>c, <1>o, <1>r, <1>2, <1>4, <1>6, <2>2, <2>3, <2>4, BlocksShut
  <2>6. ClaudeStage'
    BY <1>b, <1>2, <1>4, <1>7 DEF ClaudeStage
  <2> QED
    BY <2>1, <2>5, <2>6 DEF ClaudeOK
<1>12. ClaudeClient!ProtocolNext
  <2>1. view.phase = "blocks" /\ Claude'
    BY <1>1, <1>2, <1>4, <1>7, <1>b DEF ClaudePhase, Claude
  <2>2. e.index \in DOMAIN AsSeen(view.blocks) /\ AsSeen(view.blocks)[e.index].open
        /\ AsSeen(view'.blocks) = Shut(AsSeen(view.blocks), e.index)
    BY <1>6, <1>c, SeenChanged
  <2> QED
    BY <1>1, <1>6, <2>1, <2>2, ChangeFrame
<1> QED
  BY <1>4, <1>6, <1>8, <1>9, <1>10, <1>11, <1>12 DEF ClaudeAfter

LEMMA ClaudeCloses ==
  ASSUME ClaudeBefore, NEW chunk, UNCHANGED Rest, t.todo = "finish", t.started, ~t.textOpen,
         messageDelta
  PROVE  Fails \/ ClaudeAfter(chunk)
<1> DEFINE e == Mark("message_delta")
           u == [t EXCEPT !.todo = "stop"]
<1>1. IsTranslator(t) /\ TranslatorTypes /\ Claude /\ ViewTypes /\ ClaudeOK
  BY DEF ClaudeBefore, TranslatorTypes
<1>2. /\ IsTranslator(u) /\ u.calls = t.calls /\ u.left = t.left /\ u.protocol = t.protocol
      /\ u.started = t.started /\ u.todo = "stop" /\ u.at = t.at /\ u.finished = t.finished
      /\ u.hasContent = t.hasContent /\ u.nextIndex = t.nextIndex /\ u.textOpen = t.textOpen
      /\ u.textIndex = t.textIndex
  BY <1>1 DEF IsTranslator, Steps, FinishSteps
<1>3. CallsTyped(u) /\ emit(e, u) /\ t.left = {}
  BY <1>1, <1>2, SameCallsTyped DEF messageDelta
<1> SUFFICES ASSUME ~Fails PROVE ClaudeAfter(chunk)
  OBVIOUS
<1>4. ~broken /\ ~broken' /\ UNCHANGED stored /\ view' = Receive(view, e) /\ t' = u /\ TranslatorTypes'
      /\ broken' \in BOOLEAN
  BY <1>2, <1>3, ClaudeWrites
<1>5. e.kind = "message_delta" /\ e.piece \in Piece
  BY DEF Mark, Event, NoPiece, Piece
<1> HIDE DEF e, u
<1>b. ClaudeBlocks /\ ClaudeStage /\ view.phase = ClaudePhase
  BY <1>1, <1>4 DEF ClaudeOK
<1>6. /\ ViewTypes' /\ view'.frames = view.frames + 1 /\ view'.ends = view.ends
      /\ view'.shown = view.shown /\ view'.phase = "closing" /\ view'.blocks = view.blocks
  BY <1>1, <1>4, <1>5, ClaudeReceives
<1>7. ~t.finished /\ t.nextIndex # 0 /\ t.nextIndex \in Nat
  BY <1>1, <1>b DEF ClaudeBefore, Control, FlowOK, ClaudeStage, ConsumeSteps, IsTranslator
<1>8. Moves(chunk)
  BY <1>1, <1>2, <1>4, <1>7 DEF Moves, SameFlags, GoesOn, FinishSteps
<1>9. ShownOK'
  BY <1>1, <1>2, <1>4, <1>6, ShownKept DEF ClaudeBefore, Control, Claude, Gemini, Rest, upVars
<1>10. EndsOK'
  BY <1>1, <1>2, <1>4, <1>6, <1>7, EndsGoOn DEF ClaudeBefore, FinishSteps
<1>11. ClaudeOK'
  <2>1. OpenCalls = {} /\ OpenCalls' = {}
    BY <1>2, <1>3, <1>4 DEF OpenCalls
  <2>2. view'.phase = ClaudePhase'
    BY <1>2, <1>4, <1>6, <1>7 DEF ClaudePhase
  <2>3. ClaudeBlocks'
    BY <1>b, <1>2, <1>4, <1>6, <2>1, BlocksKept
  <2>4. ClaudeStage'
    BY <1>b, <1>2, <1>4, <1>7 DEF ClaudeStage
  <2> QED
    BY <2>2, <2>3, <2>4 DEF ClaudeOK
<1>12. ClaudeClient!ProtocolNext
  <2>1. view.phase = "blocks" /\ Claude'
    BY <1>1, <1>2, <1>4, <1>7, <1>b DEF ClaudePhase, Claude
  <2>2. DOMAIN view.blocks # {} /\ \A i \in DOMAIN view.blocks : ~view.blocks[i].open
    <3>1. OpenCalls = {} /\ 0 \in 0 .. t.nextIndex - 1
      BY <1>3, <1>7 DEF OpenCalls
    <3> QED
      BY <1>b, <3>1 DEF ClaudeBlocks
  <2>3. DOMAIN AsSeen(view.blocks) = DOMAIN view.blocks
        /\ \A i \in DOMAIN view.blocks : AsSeen(view.blocks)[i].open = view.blocks[i].open
    BY DEF AsSeen
  <2> QED
    BY <1>1, <1>6, <2>1, <2>2, <2>3, ClosingFrame
<1> QED
  BY <1>4, <1>6, <1>8, <1>9, <1>10, <1>11, <1>12 DEF ClaudeAfter

LEMMA ClaudeStops ==
  ASSUME ClaudeBefore, NEW chunk, UNCHANGED Rest, At("stop"), emit(Mark("message_stop"), Completed(t))
  PROVE  Fails \/ ClaudeAfter(chunk)
<1> DEFINE e == Mark("message_stop")
           u == Completed(t)
<1>1. IsTranslator(t) /\ TranslatorTypes /\ Claude /\ ViewTypes /\ ClaudeOK /\ t.todo = "stop"
  BY DEF ClaudeBefore, TranslatorTypes, At
<1>2. /\ IsTranslator(u) /\ u.calls = t.calls /\ u.left = t.left /\ u.protocol = t.protocol
      /\ u.started = t.started /\ u.todo = "idle" /\ u.at = t.at /\ u.finished
      /\ u.hasContent = t.hasContent /\ u.nextIndex = t.nextIndex /\ u.textOpen = t.textOpen
      /\ u.textIndex = t.textIndex
  BY <1>1 DEF IsTranslator, Steps, Completed
<1>3. CallsTyped(u) /\ emit(e, u)
  BY <1>1, <1>2, SameCallsTyped
<1> SUFFICES ASSUME ~Fails PROVE ClaudeAfter(chunk)
  OBVIOUS
<1>4. ~broken /\ ~broken' /\ UNCHANGED stored /\ view' = Receive(view, e) /\ t' = u /\ TranslatorTypes'
      /\ broken' \in BOOLEAN
  BY <1>2, <1>3, ClaudeWrites
<1>5. e.kind = "message_stop" /\ e.piece \in Piece
  BY DEF Mark, Event, NoPiece, Piece
<1> HIDE DEF e, u
<1>b. ClaudeBlocks /\ ClaudeStage /\ view.phase = ClaudePhase
  BY <1>1, <1>4 DEF ClaudeOK
<1>6. /\ ViewTypes' /\ view'.frames = view.frames + 1 /\ view'.ends = view.ends + 1
      /\ view'.last = "message_stop"
      /\ view'.shown = view.shown /\ view'.phase = "stopped" /\ view'.blocks = view.blocks
  BY <1>1, <1>4, <1>5, ClaudeReceives
<1>7. ~t.finished /\ t.nextIndex # 0 /\ t.started /\ ~t.textOpen
  BY <1>1, <1>b DEF ClaudeBefore, Control, FlowOK, ClaudeStage, ConsumeSteps
<1>8. Moves(chunk)
  BY <1>1, <1>2, <1>4, <1>7 DEF Moves, SameFlags, Completes, FinishSteps
<1>9. ShownOK'
  BY <1>1, <1>2, <1>4, <1>6, ShownKept DEF ClaudeBefore, Control, Claude, Gemini, Rest, upVars
<1>10. EndsOK'
  <2>1. LastKind = "message_stop"
    BY <1>1 DEF LastKind, Claude
  <2> QED
    BY <1>1, <1>2, <1>4, <1>6, <1>7, <2>1, EndsComplete DEF ClaudeBefore, FinishSteps
<1>11. ClaudeOK'
  <2>1. OpenCalls = {} /\ OpenCalls' = {}
    BY <1>1, <1>2, <1>4 DEF OpenCalls
  <2>2. view'.phase = ClaudePhase'
    BY <1>2, <1>4, <1>6, <1>7 DEF ClaudePhase
  <2>3. ClaudeBlocks'
    BY <1>b, <1>2, <1>4, <1>6, <2>1, BlocksKept
  <2>4. ClaudeStage'
    BY <1>b, <1>2, <1>4, <1>7 DEF ClaudeStage
  <2> QED
    BY <2>2, <2>3, <2>4 DEF ClaudeOK
<1>12. ClaudeClient!ProtocolNext
  <2>1. view.phase = "closing" /\ Claude'
    BY <1>1, <1>2, <1>4, <1>7, <1>b DEF ClaudePhase, Claude
  <2> QED
    BY <1>1, <1>6, <2>1, StopFrame
<1> QED
  BY <1>4, <1>6, <1>8, <1>9, <1>10, <1>11, <1>12 DEF ClaudeAfter

LEMMA ClaudeSteps ==
  ASSUME ClaudeBefore, UNCHANGED Rest, ClaudeStep(chunks[t.at[1]])
  PROVE  Fails \/ ClaudeAfter(chunks[t.at[1]])
<1> DEFINE chunk == chunks[t.at[1]]
<1>1. CASE t.todo \in {"text", "tools", "finish"} /\ ensureStarted
  BY <1>1, ClaudeStarts
<1>2. CASE At("text") /\ t.started /\ (ensureTextBlock \/ textDelta(chunk))
  BY <1>2, ClaudeOpensText, ClaudeAddsText
<1>3. CASE At("tools") /\ t.started /\ (closeTextBlock \/ consumeToolCall(chunk))
  <2>1. CASE closeTextBlock
    BY <1>3, <2>1, ClaudeShutsText DEF At
  <2>2. CASE consumeToolCall(chunk)
    <3>1. ~t.textOpen /\ (openToolBlock(Fragment(chunk).tool) \/ toolDelta(Fragment(chunk).tool, chunk))
      BY <2>2 DEF consumeToolCall
    <3>2. Fragment(chunk).tool \in Tools
      <4>1. ~broken /\ ReaderOK /\ PlaceOK
        BY <1>3 DEF ClaudeBefore, Control, BrokenOK, At
      <4> QED
        BY <1>3, <4>1, ChunkTyped DEF At, ConsumeSteps
    <3>3. t.todo = "tools" /\ t.started
      BY <1>3 DEF At
    <3>4. CASE openToolBlock(Fragment(chunk).tool)
      BY <3>1, <3>2, <3>3, <3>4, ClaudeOpensTool
    <3>5. CASE toolDelta(Fragment(chunk).tool, chunk)
      BY <3>1, <3>3, <3>5, ClaudeAddsToTool
    <3> QED
      BY <3>1, <3>4, <3>5
  <2> QED
    BY <1>3, <2>1, <2>2
<1>4. CASE At("finish") /\ t.started /\ (closeTextBlock \/ (~t.textOpen /\ (stopToolBlock \/ messageDelta)))
  BY <1>4, ClaudeShutsText, ClaudeShutsTool, ClaudeCloses DEF At
<1>5. CASE At("stop") /\ emit(Mark("message_stop"), Completed(t))
  BY <1>5, ClaudeStops
<1> QED
  BY <1>1, <1>2, <1>3, <1>4, <1>5 DEF ClaudeStep, ClaudeConsume, ClaudeFinish

-----------------------------------------------------------------------------
(* The steps of the Gemini translator.                                      *)

\* What every event does to the view, whatever the protocol.
Counted(e) == [view EXCEPT !.frames = @ + 1, !.last = e.kind,
                           !.ends = IF e.kind = LastKind THEN @ + 1 ELSE @]

IsView(v) ==
  v \in [comments : Nat, frames : Nat, last : {v.last}, ends : Nat,
         shown : [Items -> Seq(Piece)], phase : {v.phase}, blocks : {v.blocks}]

LEMMA CountedView ==
  ASSUME ViewTypes, NEW e
  PROVE  LET w == Counted(e) IN
         /\ w.frames = view.frames + 1 /\ w.last = e.kind /\ w.shown = view.shown
         /\ w.ends = IF e.kind = LastKind THEN view.ends + 1 ELSE view.ends
         /\ w.phase = view.phase /\ w.blocks = view.blocks /\ w.comments = view.comments
         /\ IsView(w)
<1> DEFINE w == Counted(e)
           ends == IF e.kind = LastKind THEN view.ends + 1 ELSE view.ends
<1>1. ends \in Nat /\ view.frames + 1 \in Nat
  BY DEF ViewTypes
<1>2. w = [view EXCEPT !.frames = view.frames + 1, !.last = e.kind, !.ends = ends]
  BY DEF Counted
<1> HIDE DEF w, ends
<1>3. /\ w.frames = view.frames + 1 /\ w.last = e.kind /\ w.shown = view.shown /\ w.ends = ends
      /\ w.phase = view.phase /\ w.blocks = view.blocks /\ w.comments = view.comments
  BY <1>2 DEF ViewTypes
<1>4. IsView(w)
  BY <1>1, <1>2, <1>3 DEF ViewTypes, IsView
<1> QED
  BY <1>3, <1>4 DEF w, ends

\* Data shown with their item.
ShowsMore(v, w, item, pieces) ==
  /\ v.frames = w.frames /\ v.last = w.last /\ v.ends = w.ends /\ v.phase = w.phase
  /\ v.blocks = w.blocks /\ v.comments = w.comments
  /\ v.shown[item] = w.shown[item] \o pieces
  /\ \A i \in Items : i # item => v.shown[i] = w.shown[i]
  /\ IsView(v)

LEMMA ShowsView ==
  ASSUME NEW w, IsView(w), NEW item \in Items, NEW pieces \in Seq(Piece)
  PROVE  ShowsMore(Shows(w, item, pieces), w, item, pieces)
<1> DEFINE S == [w.shown EXCEPT ![item] = @ \o pieces]
           v == Shows(w, item, pieces)
<1>0. w.shown \in [Items -> Seq(Piece)]
  BY DEF IsView
<1>1. S \in [Items -> Seq(Piece)] /\ S[item] = w.shown[item] \o pieces
      /\ \A i \in Items : i # item => S[i] = w.shown[i]
  <2>1. w.shown[item] \in Seq(Piece)
    BY <1>0
  <2>2. w.shown[item] \o pieces \in Seq(Piece)
    BY <2>1
  <2> QED
    BY <1>0, <2>2
<1>2. v = [w EXCEPT !.shown = S]
  BY DEF Shows
<1> HIDE DEF S, v
<1>3. /\ v.frames = w.frames /\ v.last = w.last /\ v.ends = w.ends /\ v.phase = w.phase
      /\ v.blocks = w.blocks /\ v.comments = w.comments /\ v.shown = S
  BY <1>2 DEF IsView
<1>4. IsView(v)
  BY <1>1, <1>2, <1>3 DEF IsView
<1> QED
  BY <1>1, <1>3, <1>4 DEF v, ShowsMore

LEMMA GeminiReceives ==
  ASSUME ViewTypes, Gemini, NEW e, view' = Receive(view, e), e.kind \in {"text", "functionCall", "finish"},
         e.kind = "text" => e.item = TextItem /\ e.piece \in Piece,
         e.kind = "functionCall" => e.item \in Tools /\ e.piece \in Seq(Piece),
         broken' \in BOOLEAN
  PROVE  /\ ViewTypes'
         /\ view'.last = e.kind /\ view'.blocks = view.blocks
         /\ view'.ends = IF e.kind = "finish" THEN view.ends + 1 ELSE view.ends
         /\ e.kind = "finish" => view'.shown = view.shown
         /\ e.kind = "text" =>
              /\ view'.shown[TextItem] = Append(view.shown[TextItem], e.piece)
              /\ \A i \in Items : i # TextItem => view'.shown[i] = view.shown[i]
         /\ e.kind = "functionCall" =>
              /\ view'.shown[e.item] = view.shown[e.item] \o e.piece
              /\ \A i \in Items : i # e.item => view'.shown[i] = view.shown[i]
<1> DEFINE w == Counted(e)
<1>1. view' = ReceiveGemini(w, e) /\ LastKind = "finish"
  BY DEF Receive, LastKind, Gemini, Counted
<1>2. /\ w.last = e.kind /\ w.shown = view.shown
      /\ w.ends = IF e.kind = LastKind THEN view.ends + 1 ELSE view.ends
      /\ w.blocks = view.blocks
      /\ IsView(w)
  BY CountedView
<1>b. view.blocks = [i \in DOMAIN view.blocks |-> view.blocks[i]] /\ view.shown \in [Items -> Seq(Piece)]
  BY DEF ViewTypes
<1> HIDE DEF w
<1>3. CASE e.kind = "finish"
  <2>1. view' = w
    BY <1>1, <1>3 DEF ReceiveGemini
  <2> QED
    BY <1>1, <1>2, <1>3, <1>b, <2>1 DEF ViewTypes, IsView
<1>4. CASE e.kind = "text"
  <2>1. view' = Shows(w, TextItem, <<e.piece>>) /\ TextItem \in Items /\ <<e.piece>> \in Seq(Piece)
    BY <1>1, <1>4 DEF ReceiveGemini, Items
  <2>2. view.shown[TextItem] \o <<e.piece>> = Append(view.shown[TextItem], e.piece)
    <3>1. view.shown[TextItem] \in Seq(Piece)
      BY <1>b, <2>1
    <3> QED
      BY <3>1, ConcatOfOne
  <2>3. /\ view'.last = w.last /\ view'.ends = w.ends /\ view'.blocks = w.blocks
        /\ view'.shown[TextItem] = w.shown[TextItem] \o <<e.piece>>
        /\ \A i \in Items : i # TextItem => view'.shown[i] = w.shown[i]
        /\ IsView(view')
    <3>1. ShowsMore(view', w, TextItem, <<e.piece>>)
      BY <1>2, <2>1, ShowsView
    <3> QED
      BY <3>1 DEF ShowsMore
  <2>4. ViewTypes'
    BY <1>2, <1>b, <2>3 DEF ViewTypes, IsView
  <2> QED
    BY <1>1, <1>2, <1>4, <2>2, <2>3, <2>4
<1>5. CASE e.kind = "functionCall"
  <2>1. view' = Shows(w, e.item, e.piece) /\ e.item \in Items /\ e.piece \in Seq(Piece)
    BY <1>1, <1>5 DEF ReceiveGemini, Items
  <2>3. /\ view'.last = w.last /\ view'.ends = w.ends /\ view'.blocks = w.blocks
        /\ view'.shown[e.item] = w.shown[e.item] \o e.piece
        /\ \A i \in Items : i # e.item => view'.shown[i] = w.shown[i]
        /\ IsView(view')
    <3>1. ShowsMore(view', w, e.item, e.piece)
      BY <1>2, <2>1, ShowsView
    <3> QED
      BY <3>1 DEF ShowsMore
  <2>4. ViewTypes'
    BY <1>2, <1>b, <2>3 DEF ViewTypes, IsView
  <2> QED
    BY <1>1, <1>2, <1>5, <2>3, <2>4
<1> QED
  BY <1>3, <1>4, <1>5

GeminiBefore ==
  /\ Gemini /\ Places
  /\ TranslatorTypes /\ ViewTypes /\ Control /\ ShownOK /\ EndsOK /\ GeminiOK

GeminiAfter(chunk) ==
  /\ Moves(chunk) /\ UNCHANGED stored
  /\ TranslatorTypes' /\ ViewTypes' /\ ShownOK' /\ EndsOK' /\ GeminiOK'

LEMMA GeminiWrites ==
  ASSUME GeminiBefore, NEW e, NEW u, emit(e, u), IsTranslator(u), CallsTyped(u),
         u.protocol = t.protocol
  PROVE  Fails \/ (/\ ~broken /\ ~broken' /\ UNCHANGED stored
                   /\ view' = Receive(view, e) /\ t' = u /\ TranslatorTypes'
                   /\ broken' \in BOOLEAN)
<1>1. TranslatorTypes' /\ t'.protocol = t.protocol
  BY EmitTyped
<1>2. CASE ~broken /\ UNCHANGED broken /\ view' = Receive(view, e) /\ t' = u
  BY <1>1, <1>2 DEF emit, write, GeminiBefore, ViewTypes
<1>3. CASE /\ broken' = TRUE /\ UNCHANGED view
           /\ t' = [u EXCEPT !.started = TRUE, !.finished = FALSE, !.todo = "error"]
  <2>1. t'.todo = "error" /\ t'.started /\ ~t'.finished
    BY <1>3 DEF IsTranslator
  <2>2. ~Responses
    BY DEF GeminiBefore, Gemini, Responses
  <2>3. UNCHANGED stored
    BY DEF emit, write
  <2> QED
    BY <1>1, <1>3, <2>1, <2>2, <2>3 DEF Fails
<1> QED
  BY <1>2, <1>3 DEF emit, write

LEMMA GeminiText ==
  ASSUME GeminiBefore, UNCHANGED Rest, At("text"),
         geminiEmit(Event("text", TextItem, 0, t.at), Onward(t, chunks[t.at[1]]))
  PROVE  Fails \/ GeminiAfter(chunks[t.at[1]])
<1> DEFINE chunk == chunks[t.at[1]]
           e == Event("text", TextItem, 0, t.at)
           w == Onward(t, chunk)
           u == [w EXCEPT !.started = TRUE]
<1>1. IsTranslator(t) /\ TranslatorTypes /\ Gemini /\ ViewTypes /\ t.todo = "text"
  BY DEF GeminiBefore, TranslatorTypes, At
<1>2. /\ IsTranslator(u) /\ u.calls = t.calls /\ u.left = t.left /\ u.protocol = t.protocol
      /\ u.started /\ u.todo \in {"idle", "tools"} /\ u.finished = t.finished
      /\ u.hasContent = t.hasContent /\ u.todo = w.todo /\ u.at = w.at
  <2>1. IsTranslator(w) /\ w.todo \in {"idle", "tools"} /\ w = [t EXCEPT !.todo = w.todo, !.at = w.at]
    BY <1>1, OnwardTyped
  <2> HIDE DEF w
  <2> QED
    BY <1>1, <2>1 DEF IsTranslator
<1>3. CallsTyped(u) /\ emit(e, u)
  BY <1>1, <1>2, SameCallsTyped DEF geminiEmit
<1> SUFFICES ASSUME ~Fails PROVE GeminiAfter(chunk)
  OBVIOUS
<1>4. ~broken /\ ~broken' /\ UNCHANGED stored /\ view' = Receive(view, e) /\ t' = u /\ TranslatorTypes'
      /\ broken' \in BOOLEAN
  BY <1>2, <1>3, GeminiWrites
<1>5. e.kind = "text" /\ e.item = TextItem /\ e.piece = t.at /\ e.piece \in Piece
  BY <1>1 DEF Event, IsTranslator
<1> HIDE DEF e, u
<1>6. /\ ViewTypes' /\ view'.ends = view.ends
      /\ view'.shown[TextItem] = Append(view.shown[TextItem], t.at)
      /\ \A i \in Items : i # TextItem => view'.shown[i] = view.shown[i]
  BY <1>1, <1>4, <1>5, GeminiReceives
<1>7. ~t.finished /\ ReaderOK /\ PlaceOK /\ ShownOK
  BY <1>1 DEF GeminiBefore, Control, FlowOK
<1>d. Advances(chunk)
  BY <1>1, <1>2, <1>4 DEF Advances, ConsumeSteps
<1>8. Moves(chunk)
  BY <1>2, <1>4, <1>d DEF Moves, SameFlags
<1>9. ShownOK'
  <2>1. \A item \in Items :
          view'.shown[item] = IF Carries(item, t.at[1], t.at[2])
                              THEN Append(view.shown[item], t.at) ELSE view.shown[item]
    <3>1. \A item \in Items : Carries(item, t.at[1], t.at[2]) <=> item = TextItem
      BY <1>1, <1>4, <1>7, PieceOfItem DEF ConsumeSteps
    <3> QED
      BY <1>6, <3>1
  <2>2. Written = {} /\ Written' = {}
    BY <1>1, <1>2, <1>4, <1>7 DEF Written
  <2> QED
    BY <1>1, <1>2, <1>4, <1>6, <1>7, <1>d, <2>1, <2>2, ShownTaken DEF Rest, upVars, ConsumeSteps
<1>10. EndsOK'
  BY <1>1, <1>2, <1>4, <1>6, <1>7, EndsGoOn DEF GeminiBefore, ConsumeSteps
<1>11. GeminiOK'
  BY <1>2, <1>4 DEF GeminiOK, ConsumeSteps
<1> QED
  BY <1>4, <1>6, <1>8, <1>9, <1>10, <1>11 DEF GeminiAfter

LEMMA GeminiCollects ==
  ASSUME GeminiBefore, UNCHANGED Rest, At("tools"),
         Silently(Onward([t EXCEPT !.calls = collect(@, Fragment(chunks[t.at[1]]), t.at)],
                         chunks[t.at[1]]))
  PROVE  GeminiAfter(chunks[t.at[1]])
<1> DEFINE chunk == chunks[t.at[1]]
           fragment == Fragment(chunk)
           tool == fragment.tool
           call == IF fragment.args THEN Append(Collected(tool), t.at) ELSE Collected(tool)
           C == collect(t.calls, fragment, t.at)
           t1 == [t EXCEPT !.calls = C]
           u == Onward(t1, chunk)
<1>1. IsTranslator(t) /\ CallsTyped(t) /\ TranslatorTypes /\ Gemini /\ ViewTypes /\ t.todo = "tools" /\ ~broken
  BY DEF GeminiBefore, TranslatorTypes, At, Control, BrokenOK
<1>2. ~t.finished /\ ReaderOK /\ PlaceOK /\ ShownOK
  BY <1>1 DEF GeminiBefore, Control, FlowOK
<1>3. tool \in Tools /\ fragment.args \in BOOLEAN
  BY <1>1, <1>2, ChunkTyped DEF ConsumeSteps
<1>4. t' = u /\ UNCHANGED clientVars
  BY DEF Silently
<1>5. C = Extended(t.calls, tool, call)
  BY DEF collect, Collected
<1>6. call \in Seq(Piece) /\ Collected(tool) \in Seq(Piece) /\ t.at \in Piece
  <2>1. Collected(tool) \in Seq(Piece)
    BY <1>1 DEF Collected, CallsTyped, IsCall, Gemini
  <2> QED
    BY <2>1, <1>1 DEF IsTranslator
<1> HIDE DEF C, call
<1>7. IsTranslator(t1) /\ t1.calls = C /\ t1.at = t.at /\ t1 = [t EXCEPT !.calls = t1.calls]
  BY <1>1 DEF IsTranslator
<1> HIDE DEF t1
<1>8. IsTranslator(u) /\ u = [t1 EXCEPT !.todo = u.todo, !.at = u.at]
  BY <1>7, OnwardTyped
<1>9. u.todo = Onward(t, chunk).todo /\ u.at = Onward(t, chunk).at
  BY <1>1, <1>7, OnwardFields
<1> HIDE DEF u
<1>10. /\ u.calls = C /\ u.left = t.left /\ u.protocol = t.protocol /\ u.started = t.started
       /\ u.finished = t.finished /\ u.hasContent = t.hasContent
  BY <1>1, <1>7, <1>8 DEF IsTranslator
<1>11. CallsTyped(u)
  <2>1. IsCall(t.protocol, call)
    BY <1>1, <1>6 DEF IsCall, Gemini
  <2> QED
    BY <1>1, <1>3, <1>5, <1>8, <1>10, <2>1, ExtendedTyped
<1>12. TranslatorTypes' /\ ViewTypes' /\ ~broken' /\ UNCHANGED <<view, stored>>
  BY <1>1, <1>4, <1>8, <1>11 DEF TranslatorTypes, ViewTypes, clientVars
<1>d. Advances(chunk)
  BY <1>1, <1>4, <1>9, <1>10 DEF Advances, ConsumeSteps
<1>13. Moves(chunk)
  BY <1>1, <1>4, <1>10, <1>12, <1>d DEF Moves, SameFlags
<1>14. ShownOK'
  <2>1. Written = {} /\ Written' = {}
    <3>1. u.todo \in {"idle", "tools"}
      BY <1>7, OnwardTyped DEF u
    <3> QED
      BY <1>1, <1>2, <1>4, <1>10, <3>1 DEF Written
  <2>p. \A item : Carries(item, t.at[1], t.at[2]) <=> item = tool /\ fragment.args
    BY <1>1, <1>2, PieceOfItem DEF ConsumeSteps
  <2>q. \A item : /\ Pieces(item)' = Pieces(item)
                  /\ Carries(item, t.at[1], t.at[2]) => Reached(item)' = Reached(item) \cup {t.at}
                  /\ ~Carries(item, t.at[1], t.at[2]) => Reached(item)' = Reached(item)
    <3>1. /\ UNCHANGED chunks /\ t.at[1] \in DOMAIN chunks /\ t.at[2] \in 0 .. Len(Fragments(chunk))
          /\ t'.at = Onward(t, chunk).at /\ t'.protocol = t.protocol
      BY <1>1, <1>2, <1>4, <1>9, <1>10, PieceOfItem DEF ConsumeSteps, Rest, upVars
    <3> QED
      BY <1>1, <1>2, <3>1, ReachedOnward
  <2>2. \A item \in Items : Pieces(item)' \subseteq Piece
    BY <1>2, <2>q, PiecesTyped
  <2>3. Lists(view'.shown[TextItem], Reached(TextItem)')
    <3>1. ~Carries(TextItem, t.at[1], t.at[2])
      BY <1>3, <2>p, ToolsAssumption DEF TextItem
    <3> QED
      BY <1>1, <1>2, <1>12, <2>q, <3>1 DEF ShownOK
  <2>4. ASSUME NEW x \in Tools
        PROVE  /\ Lists(Collected(x)', Reached(x)')
               /\ view'.shown[x] = IF x \in Written' THEN t'.calls[x] ELSE <<>>
    <3>1. Lists(Collected(x), Reached(x)) /\ view.shown[x] = <<>>
      BY <1>1, <1>2, <2>1 DEF ShownOK
    <3>2. Collected(x)' = IF x = tool THEN call ELSE Collected(x)
      BY <1>4, <1>5, <1>10 DEF Collected, Extended
    <3>3. CASE x = tool /\ fragment.args
      <4>1. \A q \in Reached(x) : Before(q, t.at)
        BY DEF Reached
      <4>2. call = Append(Collected(x), t.at)
        BY <3>3 DEF call
      <4>3. Lists(call, Reached(x) \cup {t.at})
        BY <1>6, <3>1, <3>3, <4>1, <4>2, ListsAppend
      <4> QED
        BY <1>12, <2>1, <2>p, <2>q, <3>1, <3>2, <3>3, <4>3
    <3>4. CASE ~(x = tool /\ fragment.args)
      <4>1. Collected(x)' = Collected(x)
        BY <3>2, <3>4 DEF call
      <4> QED
        BY <1>12, <2>1, <2>p, <2>q, <3>1, <3>4, <4>1
    <3> QED
      BY <3>3, <3>4
  <2>5. ~t'.started => \A item \in Items : view'.shown[item] = <<>>
    BY <1>2, <1>4, <1>10, <1>12 DEF ShownOK
  <2>6. Gemini'
    BY <1>1, <1>4, <1>10 DEF Gemini
  <2> QED
    BY <1>12, <2>2, <2>3, <2>4, <2>5, <2>6, ShownNext
<1>15. EndsOK'
  BY <1>1, <1>2, <1>4, <1>10, <1>12, EndsGoOn DEF GeminiBefore, ConsumeSteps
<1>16. GeminiOK'
  BY <1>7, <1>4, OnwardTyped DEF GeminiOK, ConsumeSteps, u
<1> QED
  BY <1>12, <1>13, <1>14, <1>15, <1>16 DEF GeminiAfter

LEMMA GeminiCalls ==
  ASSUME GeminiBefore, NEW chunk, UNCHANGED Rest, At("finish"), t.left # {},
         geminiEmit(Event("functionCall", Min(t.left), 0, t.calls[Min(t.left)]),
                    [t EXCEPT !.left = @ \ {Min(t.left)}])
  PROVE  Fails \/ GeminiAfter(chunk)
<1> DEFINE tool == Min(t.left)
           rest == t.left \ {tool}
           e == Event("functionCall", tool, 0, t.calls[tool])
           u == [t EXCEPT !.left = rest, !.started = TRUE]
<1>1. IsTranslator(t) /\ CallsTyped(t) /\ TranslatorTypes /\ Gemini /\ ViewTypes /\ t.todo = "finish"
  BY DEF GeminiBefore, TranslatorTypes, At
<1>a. tool \in t.left /\ t.left \subseteq DOMAIN t.calls /\ DOMAIN t.calls \subseteq Tools
  <2>1. t.left \subseteq Nat
    BY <1>1, ToolsAssumption DEF CallsTyped
  <2> QED
    BY <1>1, <2>1, MinOf DEF CallsTyped
<1>b. t.calls[tool] \in Seq(Piece)
  BY <1>1, <1>a DEF CallsTyped, IsCall, Gemini
<1>g. emit(e, u)
  BY DEF geminiEmit
<1> HIDE DEF tool
<1>2. /\ IsTranslator(u) /\ u.calls = t.calls /\ u.left = rest /\ u.protocol = t.protocol
      /\ u.started /\ u.todo = t.todo /\ u.at = t.at /\ u.finished = t.finished
      /\ u.hasContent = t.hasContent
  BY <1>1 DEF IsTranslator
<1>3. CallsTyped(u)
  BY <1>1, <1>2, SameCallsTyped
<1> SUFFICES ASSUME ~Fails PROVE GeminiAfter(chunk)
  OBVIOUS
<1>4. ~broken /\ ~broken' /\ UNCHANGED stored /\ view' = Receive(view, e) /\ t' = u /\ TranslatorTypes'
      /\ broken' \in BOOLEAN
  BY <1>2, <1>3, <1>g, GeminiWrites
<1>5. e.kind = "functionCall" /\ e.item = tool /\ e.piece = t.calls[tool]
  BY DEF Event
<1> HIDE DEF e, u
<1>6. /\ ViewTypes' /\ view'.ends = view.ends
      /\ view'.shown[tool] = view.shown[tool] \o t.calls[tool]
      /\ \A i \in Items : i # tool => view'.shown[i] = view.shown[i]
  BY <1>1, <1>4, <1>5, <1>a, <1>b, GeminiReceives
<1>7. ~t.finished /\ ReaderOK /\ PlaceOK /\ ShownOK
  BY <1>1 DEF GeminiBefore, Control, FlowOK
<1>8. Moves(chunk)
  BY <1>1, <1>2, <1>4 DEF Moves, SameFlags, GoesOn, FinishSteps
<1>9. ShownOK'
  <2>1. Written = DOMAIN t.calls \ t.left /\ Written' = DOMAIN t.calls \ rest
    BY <1>1, <1>2, <1>4 DEF Written
  <2>2. \A item : Pieces(item)' = Pieces(item) /\ Reached(item)' = Reached(item)
    BY <1>2, <1>4, ReachedSame DEF Rest, upVars
  <2>3. \A item \in Items : Pieces(item)' \subseteq Piece
    BY <1>7, <2>2, PiecesTyped
  <2>4. Lists(view'.shown[TextItem], Reached(TextItem)')
    <3>1. TextItem \in Items /\ TextItem # tool
      BY <1>a, ToolsAssumption DEF Items, TextItem
    <3> QED
      BY <1>4, <1>6, <1>7, <2>2, <3>1 DEF ShownOK
  <2>5. ASSUME NEW x \in Tools
        PROVE  /\ Lists(Collected(x)', Reached(x)')
               /\ view'.shown[x] = IF x \in Written' THEN t'.calls[x] ELSE <<>>
    <3>1. Lists(Collected(x), Reached(x))
          /\ view.shown[x] = IF x \in Written THEN t.calls[x] ELSE <<>>
      BY <1>1, <1>4, <1>7 DEF ShownOK
    <3>2. Collected(x)' = Collected(x)
      BY <1>2, <1>4 DEF Collected
    <3>3. CASE x = tool
      <4>1. view.shown[x] = <<>> /\ x \in Written'
        BY <1>a, <2>1, <3>1, <3>3
      <4>2. <<>> \o t.calls[tool] = t.calls[tool]
        BY <1>b
      <4> QED
        BY <1>2, <1>4, <1>6, <2>2, <3>1, <3>2, <3>3, <4>1, <4>2
    <3>4. CASE x # tool
      <4>1. view'.shown[x] = view.shown[x]
        BY <1>6, <3>4 DEF Items
      <4>2. x \in Written' <=> x \in Written
        BY <2>1, <3>4
      <4> QED
        BY <1>2, <1>4, <2>2, <3>1, <3>2, <4>1, <4>2
    <3> QED
      BY <3>3, <3>4
  <2>6. Gemini' /\ t'.started
    BY <1>1, <1>2, <1>4 DEF Gemini
  <2> QED
    BY <1>4, <1>6, <2>3, <2>4, <2>5, <2>6, ShownNext
<1>10. EndsOK'
  BY <1>1, <1>2, <1>4, <1>6, <1>7, EndsGoOn DEF GeminiBefore, FinishSteps
<1>11. GeminiOK'
  BY <1>1, <1>2, <1>4 DEF GeminiOK
<1> QED
  BY <1>4, <1>6, <1>8, <1>9, <1>10, <1>11 DEF GeminiAfter

LEMMA GeminiStops ==
  ASSUME GeminiBefore, NEW chunk, UNCHANGED Rest, At("finish"), t.left = {},
         geminiEmit(Mark("finish"), Completed(t))
  PROVE  Fails \/ GeminiAfter(chunk)
<1> DEFINE e == Mark("finish")
           u == [Completed(t) EXCEPT !.started = TRUE]
<1>1. IsTranslator(t) /\ TranslatorTypes /\ Gemini /\ ViewTypes /\ t.todo = "finish"
  BY DEF GeminiBefore, TranslatorTypes, At
<1>2. /\ IsTranslator(u) /\ u.calls = t.calls /\ u.left = t.left /\ u.protocol = t.protocol
      /\ u.started /\ u.todo = "idle" /\ u.at = t.at /\ u.finished
      /\ u.hasContent = t.hasContent
  BY <1>1 DEF IsTranslator, Completed, Steps
<1>3. CallsTyped(u) /\ emit(e, u)
  BY <1>1, <1>2, SameCallsTyped DEF geminiEmit
<1> SUFFICES ASSUME ~Fails PROVE GeminiAfter(chunk)
  OBVIOUS
<1>4. ~broken /\ ~broken' /\ UNCHANGED stored /\ view' = Receive(view, e) /\ t' = u /\ TranslatorTypes'
      /\ broken' \in BOOLEAN
  BY <1>2, <1>3, GeminiWrites
<1>5. e.kind = "finish"
  BY DEF Mark, Event
<1> HIDE DEF e, u
<1>6. ViewTypes' /\ view'.ends = view.ends + 1 /\ view'.last = "finish" /\ view'.shown = view.shown
  BY <1>1, <1>4, <1>5, GeminiReceives
<1>7. ~t.finished /\ ReaderOK /\ PlaceOK /\ ShownOK
  BY <1>1 DEF GeminiBefore, Control, FlowOK
<1>8. Moves(chunk)
  BY <1>1, <1>2, <1>4 DEF Moves, SameFlags, Completes, FinishSteps
<1>9. ShownOK'
  <2>1. Written' = Written
    BY <1>1, <1>2, <1>4 DEF Written
  <2> QED
    BY <1>1, <1>2, <1>4, <1>6, <1>7, <2>1, ShownKept DEF Rest, upVars
<1>10. EndsOK'
  <2>1. LastKind = "finish"
    BY <1>1 DEF LastKind, Gemini
  <2> QED
    BY <1>1, <1>2, <1>4, <1>6, <2>1, EndsComplete DEF GeminiBefore, FinishSteps
<1>11. GeminiOK'
  BY <1>2, <1>4 DEF GeminiOK
<1> QED
  BY <1>4, <1>6, <1>8, <1>9, <1>10, <1>11 DEF GeminiAfter

LEMMA GeminiSteps ==
  ASSUME GeminiBefore, UNCHANGED Rest, GeminiConsume(chunks[t.at[1]]) \/ GeminiFinish
  PROVE  Fails \/ GeminiAfter(chunks[t.at[1]])
BY GeminiText, GeminiCollects, GeminiCalls, GeminiStops DEF GeminiConsume, GeminiFinish
=============================================================================

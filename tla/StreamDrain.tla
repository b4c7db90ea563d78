---------------------------- MODULE StreamDrain ----------------------------
(***************************************************************************)
(* One OpenAI stream passed through to the client: the reader goroutine    *)
(* and the select loop of drainOpenAIChunks, and the part of               *)
(* executeOpenAIStream around it with its keep-alive goroutine.  Three     *)
(* goroutines share the upstream body, two channels and the client's       *)
(* ResponseWriter.                                                         *)
(*                                                                         *)
(* The upstream's answer is a sequence of SSE events that arrive in        *)
(* halves, because a read may end anywhere: half 2e-1 and half 2e make     *)
(* event e, and the last event is "data: [DONE]".  The upstream may close  *)
(* or break the connection after any half.  Writes to the ResponseWriter   *)
(* are taken as atomic, which its two writers do not ensure by any lock.   *)
(***************************************************************************)
EXTENDS Naturals, Sequences, SequencesExt

CONSTANTS
  Events,        \* number of events in the complete answer, [DONE] included
  MaxRead,       \* most halves one Read returns
  CacheEnabled,  \* temperature 0
  KeepAlive,     \* StreamKeepAliveSec > 0 and the writer can flush
  MaxBeats,      \* bound on keep-alive comments
  KeepAliveFrame, \* the comment ": keep-alive"
  EndFrame       \* what ends an interrupted stream, with its [DONE]

ASSUME DrainAssumption ==
  /\ Events \in Nat \ {0} /\ MaxRead \in Nat \ {0} /\ MaxBeats \in Nat
  /\ CacheEnabled \in BOOLEAN /\ KeepAlive \in BOOLEAN
  /\ KeepAliveFrame \notin Nat /\ EndFrame \notin Nat /\ KeepAliveFrame # EndFrame

VARIABLES
  received,      \* halves of the answer Read has returned
  bodyOpen,      \* resp.Body has not been closed
  cancelled,     \* ctx is done
  abort,         \* the abort channel is closed
  rpc,           \* reader: "read", "send" or "gone" (readerDone closed)
  buf,           \* content of the reader's buffer
  result,        \* what the reader offers: [data, err]
  pc,            \* main goroutine
  chunk,         \* what the main goroutine took from the channel
  state,         \* the drainState to be returned
  hb,            \* keep-alive goroutine: "wait", "write" or "gone"
  hbStopped,     \* ticker stopped and keepAliveDone closed
  wire,          \* what was written to the client
  responseBuffer,
  cached         \* what was stored for the prompt, <<>> if nothing

readerVars == <<rpc, buf, result, received>>
mainVars == <<pc, chunk, state, abort, bodyOpen, hbStopped, responseBuffer, cached>>
vars == <<readerVars, mainVars, cancelled, hb, wire>>

Answer == [i \in 1 .. 2 * Events |-> i]
Nothing == [data |-> <<>>, err |-> "nil"]

-----------------------------------------------------------------------------
Init ==
  /\ received = 0 /\ bodyOpen = TRUE /\ cancelled = FALSE /\ abort = FALSE
  /\ rpc = "read" /\ buf = <<>> /\ result = Nothing
  /\ pc = "select" /\ chunk = Nothing /\ state = "none"
  /\ hb = IF KeepAlive THEN "wait" ELSE "gone"
  /\ hbStopped = FALSE
  /\ wire = <<>> /\ responseBuffer = <<>> /\ cached = <<>>

(* The reader goroutine.  Read returns some halves, alone or with the end   *)
(* of the body, or an end without data.  Once the body is closed or the     *)
(* context done, it fails at the latest when there is nothing left.         *)
Read(n, err) ==
  /\ rpc = "read"
  /\ received + n <= 2 * Events
  /\ n = 0 => err # "nil"
  /\ received' = received + n
  /\ buf' = IF n = 0 THEN buf ELSE SubSeq(Answer, received + 1, received + n)
  /\ result' = [data |-> SubSeq(Answer, received + 1, received + n), err |-> err]
  /\ rpc' = "send"
  /\ UNCHANGED <<mainVars, cancelled, hb, wire>>

ReadSome == \E n \in 0 .. MaxRead, err \in {"nil", "eof", "err"} : Read(n, err)

ReadFails == (~bodyOpen \/ cancelled) /\ Read(0, "err")

\* The unbuffered channel: both sides move, and the reader ends with its error.
Rendezvous ==
  /\ rpc = "send" /\ pc = "select"
  /\ chunk' = result
  /\ rpc' = IF result.err = "nil" THEN "read" ELSE "gone"
  /\ pc' = "chunk"
  /\ result' = Nothing
  /\ UNCHANGED <<buf, received, state, abort, bodyOpen, hbStopped,
                 responseBuffer, cached, cancelled, hb, wire>>

ReaderAborts ==
  /\ rpc = "send" /\ abort
  /\ rpc' = "gone"
  /\ UNCHANGED <<buf, result, received, mainVars, cancelled, hb, wire>>

-----------------------------------------------------------------------------
(* The main goroutine.                                                      *)

Leave(s) == pc' = "abort" /\ state' = s

\* Mutant of HandleChunk: the payload aliases the reader's buffer.
HandleChunkAliased ==
  LET data == IF chunk.data = <<>> THEN <<>> ELSE buf
  IN
  /\ pc = "chunk"
  /\ wire' = wire \o data
  /\ responseBuffer' = responseBuffer \o data
  /\ CASE chunk.err = "nil" -> pc' = "select" /\ UNCHANGED state
       [] chunk.err = "eof" -> Leave("EOF")
       [] chunk.err = "err" -> Leave("UpstreamErr")
  /\ UNCHANGED <<readerVars, chunk, abort, bodyOpen, hbStopped, cached, cancelled, hb>>

HandleChunk ==
  /\ pc = "chunk"
  /\ wire' = wire \o chunk.data
  /\ responseBuffer' = responseBuffer \o chunk.data
  /\ CASE chunk.err = "nil" -> pc' = "select" /\ UNCHANGED state
       [] chunk.err = "eof" -> Leave("EOF")
       [] chunk.err = "err" -> Leave("UpstreamErr")
  /\ UNCHANGED <<readerVars, chunk, abort, bodyOpen, hbStopped, cached, cancelled, hb>>

IdleTimeout ==
  /\ pc = "select"
  /\ Leave("IdleTimeout")
  /\ UNCHANGED <<readerVars, chunk, abort, bodyOpen, hbStopped, responseBuffer,
                 cached, cancelled, hb, wire>>

ContextDone ==
  /\ pc = "select" /\ cancelled
  /\ Leave("ContextCanceled")
  /\ UNCHANGED <<readerVars, chunk, abort, bodyOpen, hbStopped, responseBuffer,
                 cached, cancelled, hb, wire>>

\* Mutant of DoAbort: the body is closed, the abort channel is not.
DoAbortBodyOnly ==
  /\ pc = "abort"
  /\ bodyOpen' = FALSE
  /\ pc' = "join"
  /\ UNCHANGED <<readerVars, chunk, state, abort, hbStopped, responseBuffer,
                 cached, cancelled, hb, wire>>

\* The deferred function: doAbort, then wait for the reader.
DoAbort ==
  /\ pc = "abort"
  /\ abort' = TRUE
  /\ bodyOpen' = FALSE
  /\ pc' = "join"
  /\ UNCHANGED <<readerVars, chunk, state, hbStopped, responseBuffer,
                 cached, cancelled, hb, wire>>

\* Mutant of Join: return without waiting.
JoinAtOnce ==
  /\ pc = "join"
  /\ pc' = "stopHeartbeat"
  /\ UNCHANGED <<readerVars, chunk, state, abort, bodyOpen, hbStopped,
                 responseBuffer, cached, cancelled, hb, wire>>

Join ==
  /\ pc = "join" /\ rpc = "gone"
  /\ pc' = "stopHeartbeat"
  /\ UNCHANGED <<readerVars, chunk, state, abort, bodyOpen, hbStopped,
                 responseBuffer, cached, cancelled, hb, wire>>

StopHeartbeat ==
  /\ pc = "stopHeartbeat"
  /\ hbStopped' = TRUE
  /\ pc' = "tail"
  /\ UNCHANGED <<readerVars, chunk, state, abort, bodyOpen, responseBuffer,
                 cached, cancelled, hb, wire>>

ContainDone(bytes) == {2 * Events - 1, 2 * Events} \subseteq ToSet(bytes)

\* Mutant of WriteTail: an interrupted stream always gets the frame.
WriteTailAlways ==
  /\ pc = "tail"
  /\ wire' = IF state \in {"IdleTimeout", "UpstreamErr"}
             THEN Append(wire, EndFrame) ELSE wire
  /\ pc' = "finish"
  /\ UNCHANGED <<readerVars, chunk, state, abort, bodyOpen, hbStopped,
                 responseBuffer, cached, cancelled, hb>>

WriteTail ==
  /\ pc = "tail"
  /\ wire' = IF /\ state \in {"IdleTimeout", "UpstreamErr"}
                /\ ~ContainDone(responseBuffer)
             THEN Append(wire, EndFrame) ELSE wire
  /\ pc' = "finish"
  /\ UNCHANGED <<readerVars, chunk, state, abort, bodyOpen, hbStopped,
                 responseBuffer, cached, cancelled, hb>>

\* Mutant of Cacheable: any stream that ended by itself is kept.
CacheableWithoutDone == CacheEnabled /\ responseBuffer # <<>> /\ state = "EOF"

Cacheable ==
  /\ CacheEnabled /\ responseBuffer # <<>>
  /\ state = "EOF"                       \* not streamInterrupted
  /\ ContainDone(responseBuffer)

\* Close the body, release the key, charge the request, fill the cache.
Finish ==
  /\ pc = "finish"
  /\ bodyOpen' = FALSE
  /\ cached' = IF Cacheable THEN responseBuffer ELSE cached
  /\ pc' = "returned"
  /\ UNCHANGED <<readerVars, chunk, state, abort, hbStopped, responseBuffer,
                 cancelled, hb, wire>>

-----------------------------------------------------------------------------
(* The keep-alive goroutine.  A stopped ticker delivers no more ticks, but  *)
(* a tick already received is still written.                                *)

Beats == Len(SelectSeq(wire, LAMBDA x : x = KeepAliveFrame))

HeartbeatTick ==
  /\ hb = "wait" /\ ~hbStopped /\ Beats < MaxBeats
  /\ hb' = "write"
  /\ UNCHANGED <<readerVars, mainVars, cancelled, wire>>

HeartbeatWrite ==
  /\ hb = "write"
  /\ wire' = Append(wire, KeepAliveFrame)
  /\ hb' = "wait"
  /\ UNCHANGED <<readerVars, mainVars, cancelled>>

HeartbeatExit ==
  /\ hb = "wait" /\ hbStopped
  /\ hb' = "gone"
  /\ UNCHANGED <<readerVars, mainVars, cancelled, wire>>

CancelContext ==
  /\ ~cancelled /\ pc # "returned"
  /\ cancelled' = TRUE
  /\ UNCHANGED <<readerVars, mainVars, hb, wire>>

Reader == ReadSome \/ ReadFails \/ ReaderAborts
Main == Rendezvous \/ HandleChunk \/ IdleTimeout \/ ContextDone \/ DoAbort \/ Join
        \/ StopHeartbeat \/ WriteTail \/ Finish
Heartbeat == HeartbeatTick \/ HeartbeatWrite \/ HeartbeatExit

Done == pc = "returned" /\ rpc = "gone" /\ hb = "gone" /\ UNCHANGED vars

Next == Reader \/ Main \/ Heartbeat \/ CancelContext \/ Done

(* The main goroutine always moves on: at the latest the idle timer fires.  *)
(* Of the reader only a Read that must fail and the abort are certain: an   *)
(* upstream may stay silent for ever.                                       *)
Spec ==
  /\ Init /\ [][Next]_vars
  /\ WF_vars(Main)
  /\ WF_vars(ReadFails) /\ WF_vars(ReaderAborts)
  /\ WF_vars(HeartbeatWrite) /\ WF_vars(HeartbeatExit)

-----------------------------------------------------------------------------
(* Properties.                                                              *)

AfterDrain == {"stopHeartbeat", "tail", "finish", "returned"}

\* Type invariant of the three goroutines.
TypeOK ==
  /\ received \in 0 .. 2 * Events
  /\ {bodyOpen, cancelled, abort, hbStopped} \subseteq BOOLEAN
  /\ rpc \in {"read", "send", "gone"}
  /\ pc \in {"select", "chunk", "abort", "join"} \cup AfterDrain
  /\ state \in {"none", "EOF", "UpstreamErr", "IdleTimeout", "ContextCanceled"}
  /\ hb \in {"wait", "write", "gone"}
  /\ Len(responseBuffer) <= 2 * Events
  /\ ToSet(wire) \subseteq (1 .. 2 * Events) \cup {KeepAliveFrame, EndFrame}

\* Where the upstream's halves, the terminators stand on the wire.
FromUpstream == {i \in DOMAIN wire : wire[i] \in 1 .. 2 * Events}
Terminators == {i \in DOMAIN wire : wire[i] = EndFrame}

\* The client receives the upstream's bytes once each and in order, whatever
\* the reader does meanwhile, and a stream that ended by itself is passed on to
\* its last byte, including data that came together with the end
\* (stream_drain.go 71-111; the copy and its comment at 10-11 and 64).
ClientGetsTheAnswer ==
  /\ \A i, j \in FromUpstream : i < j => wire[i] < wire[j]
  /\ \E n \in 0 .. received :
       /\ {wire[i] : i \in FromUpstream} = 1 .. n
       /\ pc \in AfterDrain /\ state = "EOF" => n = received

\* When the drain returns, its reader goroutine has ended: nobody reads the
\* body or holds the pooled buffer any more (stream_drain.go 27-31, 88-92).
ReaderGoneAtReturn == pc \in AfterDrain => rpc = "gone"

\* A stream the upstream breaks or lets go silent ends for the client with one
\* [DONE], its own or the one of the interruption frame (proxy.go 646-663).
OneTerminator ==
  pc \in {"finish", "returned"} =>
    /\ ContainDone(wire) => Terminators = {}
    /\ \A i, j \in Terminators : i = j
    /\ state \in {"IdleTimeout", "UpstreamErr"} => ContainDone(wire) \/ Terminators # {}

\* What the cache replays for 24 hours is a complete answer, never one the
\* upstream cut short, cleanly or not (proxy.go 676-678).
CacheOnlyComplete == cached # <<>> => cached = Answer

\* The request ends and leaves no goroutine behind, even when the upstream says
\* nothing any more or the client goes away at any point (stream_drain.go 27-31).
DrainReturns == <>[](pc = "returned" /\ rpc = "gone" /\ hb = "gone")

\* The keep-alive is a comment frame that clients ignore (proxy.go 621): it
\* stands between two events, never inside one.
KeepAliveBetweenEvents ==
  \A i \in 1 .. Len(wire) : wire[i] = KeepAliveFrame =>
     Len(SelectSeq(SubSeq(wire, 1, i), LAMBDA x : x \notin {KeepAliveFrame, EndFrame})) % 2 = 0

\* After the stream the keep-alive goroutine is stopped (proxy.go 638): it
\* writes nothing behind the interruption frame or after the handler returned.
HeartbeatStopsWithStream == [][hbStopped => Beats' = Beats]_vars
=============================================================================

------------------------- MODULE StreamDrainProofs -------------------------
(***************************************************************************)
(* What the client of a passed-through stream receives, for any number of  *)
(* events, any size of the reads and any timing of the reader, the main    *)
(* loop, the keep-alive goroutine, the idle timer and the client.          *)
(*                                                                         *)
(* The invariant follows each half of an event from the reader's offer     *)
(* through the chunk to the wire: the pieces in flight join on without a   *)
(* gap or an overlap.                                                      *)
(***************************************************************************)
EXTENDS StreamDrain, SequenceTheorems, TLAPS

Halves == 1 .. 2 * Events
Frames == Halves \cup {KeepAliveFrame, EndFrame}
Payloads == [data : Seq(Halves), err : {"nil", "eof", "err"}]

DrainTypeOK ==
  /\ received \in 0 .. 2 * Events
  /\ bodyOpen \in BOOLEAN /\ cancelled \in BOOLEAN /\ abort \in BOOLEAN
  /\ hbStopped \in BOOLEAN
  /\ rpc \in {"read", "send", "gone"}
  /\ pc \in {"select", "chunk", "abort", "join"} \cup AfterDrain
  /\ state \in {"none", "EOF", "UpstreamErr", "IdleTimeout", "ContextCanceled"}
  /\ hb \in {"wait", "write", "gone"}
  /\ result \in Payloads /\ chunk \in Payloads
  /\ wire \in Seq(Frames)
  /\ responseBuffer \in Seq(Halves)

\* The halves after the first n, one after the other.
Continues(data, n) == \A i \in 1 .. Len(data) : data[i] = n + i

\* How many halves the main loop has taken from the channel.
Taken == Len(responseBuffer) + (IF pc = "chunk" THEN Len(chunk.data) ELSE 0)

\* The pieces between the upstream and the wire, none lost while the loop runs.
PiecesJoin ==
  /\ Continues(responseBuffer, 0)
  /\ Len(responseBuffer) <= received
  /\ pc = "chunk" => Continues(chunk.data, Len(responseBuffer))
  /\ rpc = "send" /\ pc \in {"select", "chunk"} => Continues(result.data, Taken)
  /\ pc \in {"select", "chunk"} =>
       received = Taken + (IF rpc = "send" THEN Len(result.data) ELSE 0)

\* Along the positions in S, u shows 1 to n, once each and in order.
CountsTo(u, S, n) ==
  /\ \A i, j \in S : i < j => u[i] < u[j]
  /\ \A i \in S : u[i] \in 1 .. n
  /\ \A h \in 1 .. n : \E i \in S : u[i] = h

WireIsBuffer == CountsTo(wire, FromUpstream, Len(responseBuffer))

\* The reader ends with the error it hands over or with the abort, and no
\* later than the join.
ReaderLifetime ==
  /\ abort => pc \in {"join"} \cup AfterDrain
  /\ pc = "select" => rpc # "gone"
  /\ pc = "chunk" => (rpc = "gone" <=> chunk.err # "nil")
  /\ pc \in {"select", "chunk"} => state = "none"
  /\ state = "EOF" => rpc = "gone" /\ received = Len(responseBuffer)
  /\ pc \in AfterDrain => rpc = "gone"

OneFrame ==
  /\ Terminators # {} => pc \in {"finish", "returned"} /\ ~ContainDone(responseBuffer)
  /\ \A i, j \in Terminators : i = j
  /\ pc \in {"finish", "returned"} /\ state \in {"IdleTimeout", "UpstreamErr"} =>
       ContainDone(responseBuffer) \/ Terminators # {}

DrainInv ==
  /\ DrainTypeOK /\ PiecesJoin /\ WireIsBuffer /\ ReaderLifetime /\ OneFrame
  /\ CacheOnlyComplete

-----------------------------------------------------------------------------
(* Pieces of the answer.                                                   *)

LEMMA PieceOfAnswer ==
  ASSUME NEW a \in Nat, NEW n \in Nat, a + n <= 2 * Events
  PROVE  LET piece == SubSeq(Answer, a + 1, a + n)
         IN piece \in Seq(Halves) /\ Len(piece) = n /\ Continues(piece, a)
<1>1. 2 * Events \in Nat
  BY DrainAssumption
<1>2. \A i \in a + 1 .. a + n : Answer[i] = i /\ Answer[i] \in Halves
  BY <1>1 DEF Answer, Halves
<1> DEFINE piece == SubSeq(Answer, a + 1, a + n)
<1>3. /\ piece \in Seq(Halves)
      /\ Len(piece) = IF a + 1 <= a + n THEN (a + n) - (a + 1) + 1 ELSE 0
      /\ \A i \in 1 .. (a + n) - (a + 1) + 1 : piece[i] = Answer[a + 1 + i - 1]
  <2>1. a + 1 \in Int /\ a + n \in Int /\ \A i \in a + 1 .. a + n : Answer[i] \in Halves
    BY <1>2
  <2> HIDE DEF piece
  <2> QED
    BY <2>1, SubSeqProperties DEF piece
<1> HIDE DEF piece
<1>4. Len(piece) = n
  BY <1>3
<1>5. \A i \in 1 .. Len(piece) : piece[i] = a + i
  BY <1>2, <1>3, <1>4
<1> QED
  BY <1>3, <1>4, <1>5 DEF Continues, piece

\* A buffer that continues from the first half holds [DONE] when it is full.
LEMMA DoneMeansFull ==
  ASSUME NEW bytes \in Seq(Halves), Continues(bytes, 0), Len(bytes) <= 2 * Events
  PROVE  /\ ToSet(bytes) = 1 .. Len(bytes)
         /\ ContainDone(bytes) <=> Len(bytes) = 2 * Events
         /\ ContainDone(bytes) => bytes = Answer
<1>1. Events \in Nat \ {0} /\ Len(bytes) \in Nat
  BY DrainAssumption, LenProperties
<1>2. DOMAIN bytes = 1 .. Len(bytes) /\ \A i \in 1 .. Len(bytes) : bytes[i] = i
  BY LenProperties DEF Continues
<1>3. ToSet(bytes) = 1 .. Len(bytes)
  BY <1>2 DEF ToSet
<1>4. ContainDone(bytes) <=> Len(bytes) = 2 * Events
  BY <1>1, <1>3 DEF ContainDone
<1>5. ASSUME Len(bytes) = 2 * Events PROVE bytes = Answer
  <2>1. bytes \in [1 .. 2 * Events -> Halves]
    BY <1>5, LenProperties
  <2> QED
    BY <1>2, <1>5, <2>1 DEF Answer
<1> QED
  BY <1>3, <1>4, <1>5

-----------------------------------------------------------------------------
(* The wire.                                                               *)

\* A frame of the gateway's own leaves the upstream's halves where they are.
LEMMA OwnFrame ==
  ASSUME DrainTypeOK, NEW frame \in {KeepAliveFrame, EndFrame}, wire' = Append(wire, frame)
  PROVE  /\ wire' \in Seq(Frames)
         /\ FromUpstream' = FromUpstream
         /\ \A i \in FromUpstream : wire'[i] = wire[i]
         /\ Terminators' = Terminators \cup (IF frame = EndFrame THEN {Len(wire) + 1} ELSE {})
<1>1. /\ wire \in Seq(Frames) /\ frame \in Frames /\ frame \notin 1 .. 2 * Events
  BY DrainAssumption DEF DrainTypeOK, Frames
<1>2. Len(wire) \in Nat /\ DOMAIN wire = 1 .. Len(wire)
  BY <1>1, LenProperties
<1>3. /\ wire' \in Seq(Frames) /\ Len(wire') = Len(wire) + 1
      /\ \A i \in 1 .. Len(wire) : wire'[i] = wire[i]
      /\ wire'[Len(wire) + 1] = frame
  BY <1>1, AppendProperties
<1>4. DOMAIN wire' = 1 .. Len(wire) + 1
  BY <1>3, LenProperties
<1> QED
  BY <1>1, <1>2, <1>3, <1>4 DEF FromUpstream, Terminators

\* What counts to n up to position w and goes on behind it counts further.
LEMMA CountsFurther ==
  ASSUME NEW n \in Nat, NEW w \in Nat, NEW d \in Nat, NEW u, NEW v,
         NEW S \in SUBSET (1 .. w), CountsTo(u, S, n),
         \A i \in S : v[i] = u[i],
         \A i \in w + 1 .. w + d : v[i] = n + (i - w)
  PROVE  CountsTo(v, S \cup (w + 1 .. w + d), n + d)
<1> DEFINE all == S \cup (w + 1 .. w + d)
<1>1. \A i \in S : v[i] \in 1 .. n /\ i \in 1 .. w
  BY DEF CountsTo
<1>2. \A i \in w + 1 .. w + d : v[i] \in n + 1 .. n + d
  OBVIOUS
<1>3. \A i, j \in all : i < j => v[i] < v[j]
  BY <1>1, <1>2 DEF CountsTo
<1>4. \A i \in all : v[i] \in 1 .. n + d
  BY <1>1, <1>2
<1>5. \A h \in 1 .. n : \E i \in S : v[i] = h
  BY DEF CountsTo
<1>6. ASSUME NEW h \in n + 1 .. n + d PROVE \E i \in all : v[i] = h
  <2>1. w + (h - n) \in w + 1 .. w + d /\ v[w + (h - n)] = h
    OBVIOUS
  <2> QED
    BY <2>1
<1>7. \A h \in 1 .. n + d : h \in 1 .. n \/ h \in n + 1 .. n + d
  OBVIOUS
<1>8. \A h \in 1 .. n + d : \E i \in all : v[i] = h
  BY <1>5, <1>6, <1>7
<1> QED
  BY <1>3, <1>4, <1>8 DEF CountsTo

\* What the reader read next goes behind what is there.
LEMMA NextHalves ==
  ASSUME DrainInv, NEW data \in Seq(Halves), Continues(data, Len(responseBuffer)),
         wire' = wire \o data, responseBuffer' = responseBuffer \o data
  PROVE  /\ wire' \in Seq(Frames) /\ responseBuffer' \in Seq(Halves)
         /\ Len(responseBuffer') = Len(responseBuffer) + Len(data)
         /\ Continues(responseBuffer', 0) /\ WireIsBuffer' /\ Terminators' = Terminators
<1> DEFINE n == Len(responseBuffer)
           w == Len(wire)
           d == Len(data)
<1>1. /\ wire \in Seq(Frames) /\ responseBuffer \in Seq(Halves) /\ data \in Seq(Frames)
      /\ n \in Nat /\ w \in Nat /\ d \in Nat /\ DOMAIN wire = 1 .. w
  BY LenProperties, SeqMonotonic DEF DrainInv, DrainTypeOK, Frames
<1>2. /\ wire' \in Seq(Frames) /\ Len(wire') = w + d
      /\ \A i \in 1 .. w + d : wire'[i] = IF i <= w THEN wire[i] ELSE data[i - w]
  BY <1>1, ConcatProperties
<1>3. /\ responseBuffer' \in Seq(Halves) /\ Len(responseBuffer') = n + d
      /\ \A i \in 1 .. n + d :
           responseBuffer'[i] = IF i <= n THEN responseBuffer[i] ELSE data[i - n]
  BY <1>1, ConcatProperties
<1>4. DOMAIN wire' = 1 .. w + d
  BY <1>2, LenProperties
<1>5. \A i \in 1 .. n : responseBuffer[i] = i
  BY DEF DrainInv, PiecesJoin, Continues
<1>6. \A i \in 1 .. d : data[i] = n + i /\ data[i] \in Halves
  BY <1>1, ElementOfSeq DEF Continues
<1> HIDE DEF n, w, d
<1>7. \A i \in 1 .. n + d : responseBuffer'[i] = i
  BY <1>1, <1>3, <1>5, <1>6
<1>8. Continues(responseBuffer', 0)
  BY <1>1, <1>3, <1>7 DEF Continues
<1>9. /\ FromUpstream' = FromUpstream \cup (w + 1 .. w + d)
      /\ FromUpstream \subseteq 1 .. w
      /\ \A i \in FromUpstream : wire'[i] = wire[i]
      /\ \A i \in w + 1 .. w + d : wire'[i] = n + (i - w)
      /\ Terminators' = Terminators
  <2>1. \A i \in 1 .. w : i \in 1 .. w + d /\ wire'[i] = wire[i]
    BY <1>1, <1>2
  <2>2. \A i \in w + 1 .. w + d : wire'[i] = n + (i - w) /\ wire'[i] \in Halves
    <3> SUFFICES ASSUME NEW i \in w + 1 .. w + d
                 PROVE  wire'[i] = n + (i - w) /\ wire'[i] \in Halves
      OBVIOUS
    <3>1. i - w \in 1 .. d /\ i \in 1 .. w + d /\ ~(i <= w)
      BY <1>1
    <3> QED
      BY <1>2, <1>6, <3>1
  <2>3. FromUpstream = {i \in 1 .. w : wire[i] \in Halves}
    BY <1>1 DEF FromUpstream, Halves
  <2>4. FromUpstream' = {i \in 1 .. w + d : wire'[i] \in Halves}
    BY <1>4 DEF FromUpstream, Halves
  <2>5. 1 .. w + d = (1 .. w) \cup (w + 1 .. w + d)
    BY <1>1
  <2>6. EndFrame \notin Halves
    BY DrainAssumption DEF Halves
  <2>7. /\ Terminators = {i \in 1 .. w : wire[i] = EndFrame}
        /\ Terminators' = {i \in (1 .. w) \cup (w + 1 .. w + d) : wire'[i] = EndFrame}
    BY <1>1, <1>4, <2>5 DEF Terminators
  <2> QED
    BY <2>1, <2>2, <2>3, <2>4, <2>5, <2>6, <2>7
<1>10. CountsTo(wire, FromUpstream, n) /\ FromUpstream \in SUBSET (1 .. w)
  BY <1>9 DEF DrainInv, WireIsBuffer, n
<1>11. CountsTo(wire', FromUpstream', n + d)
  BY <1>1, <1>9, <1>10, CountsFurther
<1>12. WireIsBuffer'
  BY <1>3, <1>11 DEF WireIsBuffer
<1> QED
  BY <1>2, <1>3, <1>8, <1>9, <1>12 DEF n, d

-----------------------------------------------------------------------------
(* The steps.                                                              *)

\* A step that leaves the wire and the buffer alone.
LEMMA WireUntouched ==
  ASSUME DrainInv, UNCHANGED <<wire, responseBuffer>>
  PROVE  /\ WireIsBuffer' /\ Terminators' = Terminators
         /\ Continues(responseBuffer', 0)
         /\ ContainDone(responseBuffer') = ContainDone(responseBuffer)
  BY DEF DrainInv, WireIsBuffer, CountsTo, FromUpstream, Terminators, PiecesJoin, Continues,
         ContainDone

LEMMA TakenIsNat == DrainInv => Taken \in Nat
  BY LenProperties DEF DrainInv, DrainTypeOK, Payloads, Taken

LEMMA ReadKeeps ==
  ASSUME DrainInv, NEW n \in 0 .. MaxRead, NEW err \in {"nil", "eof", "err"}, Read(n, err)
  PROVE  DrainInv'
<1> DEFINE piece == SubSeq(Answer, received + 1, received + n)
<1>1. /\ received \in Nat /\ n \in Nat /\ received + n <= 2 * Events
      /\ rpc = "read" /\ rpc' = "send" /\ received' = received + n
      /\ result' = [data |-> piece, err |-> err]
      /\ UNCHANGED <<mainVars, cancelled, hb, wire>>
  BY DrainAssumption DEF Read, DrainInv, DrainTypeOK
<1>2. piece \in Seq(Halves) /\ Len(piece) = n /\ Continues(piece, received)
  BY <1>1, PieceOfAnswer
<1> HIDE DEF piece
<1>3. UNCHANGED <<pc, chunk, state, abort, bodyOpen, hbStopped, responseBuffer, cached>>
  BY <1>1 DEF mainVars
<1>4. result'.data = piece /\ result' \in Payloads
  BY <1>1, <1>2 DEF Payloads
<1>5. DrainTypeOK'
  BY <1>1, <1>3, <1>4, DrainAssumption DEF DrainInv, DrainTypeOK, mainVars
<1>6. PiecesJoin'
  <2>1. Len(responseBuffer) <= received' /\ Continues(responseBuffer', 0)
    BY <1>1, <1>3, WireUntouched, LenProperties DEF DrainInv, PiecesJoin, DrainTypeOK
  <2>2. pc' = "chunk" => Continues(chunk'.data, Len(responseBuffer'))
    BY <1>3 DEF DrainInv, PiecesJoin
  <2>3. Taken' = Taken
    BY <1>3 DEF Taken
  <2>4. pc \in {"select", "chunk"} => received = Taken
    BY <1>1, TakenIsNat DEF DrainInv, PiecesJoin
  <2> QED
    BY <1>1, <1>2, <1>3, <1>4, <2>1, <2>2, <2>3, <2>4 DEF PiecesJoin
<1>7. ReaderLifetime'
  BY <1>1, <1>3 DEF DrainInv, ReaderLifetime
<1> QED
  BY <1>1, <1>3, <1>5, <1>6, <1>7, WireUntouched DEF DrainInv, OneFrame, CacheOnlyComplete

LEMMA ReaderKeeps ==
  ASSUME DrainInv, Reader
  PROVE  DrainInv'
<1>1. CASE ReadSome
  BY <1>1, ReadKeeps DEF ReadSome
<1>2. CASE ReadFails
  BY <1>2, ReadKeeps, DrainAssumption DEF ReadFails
<1>3. CASE ReaderAborts
  <2>1. /\ rpc = "send" /\ abort /\ rpc' = "gone" /\ UNCHANGED <<result, received>>
        /\ UNCHANGED <<pc, chunk, state, abort, bodyOpen, hbStopped, responseBuffer, cached>>
        /\ UNCHANGED <<cancelled, hb, wire>>
    BY <1>3 DEF ReaderAborts, mainVars
  <2>2. pc \in {"join"} \cup AfterDrain
    BY <2>1 DEF DrainInv, ReaderLifetime
  <2>3. DrainTypeOK'
    BY <2>1 DEF DrainInv, DrainTypeOK
  <2>4. PiecesJoin'
    BY <2>1, <2>2, WireUntouched DEF DrainInv, PiecesJoin, AfterDrain
  <2>5. ReaderLifetime'
    BY <2>1, <2>2 DEF DrainInv, ReaderLifetime, AfterDrain
  <2> QED
    BY <2>1, <2>3, <2>4, <2>5, WireUntouched DEF DrainInv, OneFrame, CacheOnlyComplete
<1> QED
  BY <1>1, <1>2, <1>3 DEF Reader

LEMMA RendezvousKeeps ==
  ASSUME DrainInv, Rendezvous
  PROVE  DrainInv'
<1>1. /\ rpc = "send" /\ pc = "select" /\ pc' = "chunk" /\ chunk' = result
      /\ rpc' = IF result.err = "nil" THEN "read" ELSE "gone"
      /\ result' = Nothing
      /\ UNCHANGED <<received, state, abort, bodyOpen, hbStopped, responseBuffer, cached,
                     cancelled, hb, wire>>
  BY DEF Rendezvous
<1>2. DrainTypeOK'
  BY <1>1, EmptySeq DEF DrainInv, DrainTypeOK, Payloads, Nothing
<1>3. Taken = Len(responseBuffer) /\ Taken' = Len(responseBuffer) + Len(result.data)
  BY <1>1, LenProperties DEF Taken, DrainInv, DrainTypeOK
<1>4. PiecesJoin'
  <2>1. received = Len(responseBuffer) + Len(result.data)
    BY <1>1, <1>3 DEF DrainInv, PiecesJoin
  <2>2. Len(responseBuffer) \in Nat /\ Len(result.data) \in Nat
    BY LenProperties DEF DrainInv, DrainTypeOK, Payloads
  <2>3. Continues(result.data, Len(responseBuffer))
    BY <1>1, <1>3 DEF DrainInv, PiecesJoin
  <2> QED
    BY <1>1, <1>3, <2>1, <2>2, <2>3, WireUntouched DEF DrainInv, PiecesJoin
<1>5. ReaderLifetime'
  BY <1>1 DEF DrainInv, ReaderLifetime, AfterDrain
<1> QED
  BY <1>1, <1>2, <1>4, <1>5, WireUntouched DEF DrainInv, OneFrame, CacheOnlyComplete

LEMMA HandleChunkKeeps ==
  ASSUME DrainInv, HandleChunk
  PROVE  DrainInv'
<1>1. /\ pc = "chunk"
      /\ wire' = wire \o chunk.data /\ responseBuffer' = responseBuffer \o chunk.data
      /\ UNCHANGED <<received, rpc, result, chunk, abort, bodyOpen, hbStopped, cached,
                     cancelled, hb>>
  BY DEF HandleChunk, readerVars
<1>2. /\ chunk.data \in Seq(Halves) /\ chunk.err \in {"nil", "eof", "err"}
      /\ Continues(chunk.data, Len(responseBuffer))
      /\ Len(chunk.data) \in Nat /\ Len(responseBuffer) \in Nat
  BY <1>1, LenProperties DEF DrainInv, DrainTypeOK, Payloads, PiecesJoin
<1>3. /\ wire' \in Seq(Frames) /\ responseBuffer' \in Seq(Halves)
      /\ Len(responseBuffer') = Len(responseBuffer) + Len(chunk.data)
      /\ Continues(responseBuffer', 0) /\ WireIsBuffer' /\ Terminators' = Terminators
  BY <1>1, <1>2, NextHalves
<1>4. /\ pc' = IF chunk.err = "nil" THEN "select" ELSE "abort"
      /\ state' = CASE chunk.err = "nil" -> state
                    [] chunk.err = "eof" -> "EOF"
                    [] chunk.err = "err" -> "UpstreamErr"
  BY <1>2 DEF HandleChunk, Leave
<1>5. /\ state = "none" /\ ~abort /\ Terminators = {} /\ (rpc = "gone" <=> chunk.err # "nil")
      /\ received = Taken + (IF rpc = "send" THEN Len(result.data) ELSE 0)
      /\ rpc = "send" => Continues(result.data, Taken)
      /\ Taken = Len(responseBuffer')
  BY <1>1, <1>3 DEF DrainInv, ReaderLifetime, OneFrame, PiecesJoin, Taken, AfterDrain
<1>6. DrainTypeOK'
  BY <1>1, <1>2, <1>3, <1>4, <1>5 DEF DrainInv, DrainTypeOK
<1>7. Taken' = Len(responseBuffer') /\ Len(responseBuffer') \in Nat
  BY <1>2, <1>3, <1>4 DEF Taken
<1>8. PiecesJoin'
  <2>1. Len(responseBuffer') <= received
    BY <1>5, <1>7, LenProperties DEF DrainInv, DrainTypeOK, Payloads
  <2> QED
    BY <1>1, <1>3, <1>4, <1>5, <1>7, <2>1 DEF PiecesJoin
<1>9. ReaderLifetime'
  <2>1. chunk.err # "nil" => received = Len(responseBuffer')
    BY <1>5, <1>7
  <2> QED
    BY <1>1, <1>2, <1>4, <1>5, <2>1 DEF ReaderLifetime, AfterDrain
<1>10. OneFrame'
  BY <1>3, <1>4, <1>5 DEF OneFrame
<1> QED
  BY <1>1, <1>3, <1>6, <1>8, <1>9, <1>10 DEF DrainInv, CacheOnlyComplete

\* The main loop leaves without a chunk, or waits for its reader.
LEMMA LeavingKeeps ==
  ASSUME DrainInv, IdleTimeout \/ ContextDone \/ DoAbort \/ Join \/ StopHeartbeat
  PROVE  DrainInv'
<1>1. /\ UNCHANGED <<received, rpc, result, chunk, responseBuffer, cached, cancelled, hb, wire>>
      /\ pc' \in {"abort", "join"} \cup AfterDrain /\ pc' \notin {"finish", "returned"}
      /\ state' \in {state, "IdleTimeout", "ContextCanceled"}
      /\ abort' \in BOOLEAN /\ bodyOpen' \in BOOLEAN /\ hbStopped' \in BOOLEAN
  BY DEF IdleTimeout, ContextDone, DoAbort, Join, StopHeartbeat, Leave, readerVars, AfterDrain,
         DrainInv, DrainTypeOK
<1>2. DrainTypeOK'
  BY <1>1 DEF DrainInv, DrainTypeOK
<1>3. PiecesJoin'
  BY <1>1, WireUntouched DEF DrainInv, PiecesJoin, AfterDrain
<1>4. ReaderLifetime'
  BY <1>1 DEF DrainInv, ReaderLifetime, IdleTimeout, ContextDone, DoAbort, Join,
     StopHeartbeat, Leave, AfterDrain
<1>5. OneFrame'
  BY <1>1, WireUntouched
     DEF DrainInv, OneFrame, IdleTimeout, ContextDone, DoAbort, Join, StopHeartbeat, Leave
<1> QED
  BY <1>1, <1>2, <1>3, <1>4, <1>5, WireUntouched DEF DrainInv, CacheOnlyComplete

LEMMA WriteTailKeeps ==
  ASSUME DrainInv, WriteTail
  PROVE  DrainInv'
<1> DEFINE broken == state \in {"IdleTimeout", "UpstreamErr"} /\ ~ContainDone(responseBuffer)
<1>1. /\ pc = "tail" /\ pc' = "finish" /\ Terminators = {}
      /\ wire' = IF broken THEN Append(wire, EndFrame) ELSE wire
      /\ UNCHANGED <<received, rpc, result, chunk, state, abort, bodyOpen, hbStopped,
                     responseBuffer, cached, cancelled, hb>>
  BY DEF WriteTail, readerVars, DrainInv, OneFrame
<1>2. /\ wire' \in Seq(Frames)
      /\ WireIsBuffer'
      /\ Terminators' = IF broken THEN {Len(wire) + 1} ELSE {}
  <2>1. CASE broken
    <3>1. DrainTypeOK /\ wire' = Append(wire, EndFrame)
      BY <1>1, <2>1 DEF DrainInv
    <3>2. /\ wire' \in Seq(Frames) /\ FromUpstream' = FromUpstream
          /\ \A i \in FromUpstream : wire'[i] = wire[i]
          /\ Terminators' = {Len(wire) + 1}
      BY <1>1, <3>1, OwnFrame
    <3> QED
      BY <1>1, <2>1, <3>2 DEF DrainInv, WireIsBuffer, CountsTo
  <2>2. CASE ~broken
    BY <1>1, <2>2, WireUntouched DEF DrainInv, DrainTypeOK
  <2> QED
    BY <2>1, <2>2
<1>3. DrainTypeOK'
  BY <1>1, <1>2 DEF DrainInv, DrainTypeOK, AfterDrain
<1>4. PiecesJoin'
  BY <1>1 DEF DrainInv, PiecesJoin, Continues, AfterDrain
<1>5. ReaderLifetime'
  BY <1>1 DEF DrainInv, ReaderLifetime, AfterDrain
<1>6. OneFrame'
  <2>1. ContainDone(responseBuffer)' = ContainDone(responseBuffer)
    BY <1>1 DEF ContainDone
  <2> QED
    BY <1>1, <1>2, <2>1 DEF OneFrame
<1> QED
  BY <1>1, <1>2, <1>3, <1>4, <1>5, <1>6 DEF DrainInv, CacheOnlyComplete

LEMMA BufferedDone ==
  ASSUME DrainInv
  PROVE  /\ ContainDone(wire) <=> ContainDone(responseBuffer)
         /\ ContainDone(responseBuffer) => responseBuffer = Answer
<1>1. /\ responseBuffer \in Seq(Halves) /\ Continues(responseBuffer, 0)
      /\ Len(responseBuffer) \in Nat /\ Len(responseBuffer) <= 2 * Events
      /\ 2 * Events - 1 \in Halves /\ 2 * Events \in Halves
  BY DrainAssumption, LenProperties DEF DrainInv, DrainTypeOK, PiecesJoin, Halves
<1>2. \A h \in Halves : h \in ToSet(wire) <=> h \in 1 .. Len(responseBuffer)
  BY DEF DrainInv, WireIsBuffer, CountsTo, FromUpstream, ToSet, Halves
<1> QED
  BY <1>1, <1>2, DoneMeansFull DEF ContainDone

LEMMA FinishKeeps ==
  ASSUME DrainInv, Finish
  PROVE  DrainInv'
<1>1. /\ pc = "finish" /\ pc' = "returned" /\ bodyOpen' = FALSE
      /\ cached' = IF Cacheable THEN responseBuffer ELSE cached
      /\ UNCHANGED <<received, rpc, result, chunk, state, abort, hbStopped, responseBuffer,
                     cancelled, hb, wire>>
  BY DEF Finish, readerVars
<1>2. DrainTypeOK'
  BY <1>1 DEF DrainInv, DrainTypeOK, AfterDrain
<1>3. PiecesJoin'
  BY <1>1, WireUntouched DEF DrainInv, PiecesJoin, AfterDrain
<1>4. ReaderLifetime'
  BY <1>1 DEF DrainInv, ReaderLifetime, AfterDrain
<1>5. OneFrame'
  BY <1>1, WireUntouched DEF DrainInv, OneFrame
<1>6. CacheOnlyComplete'
  BY <1>1, BufferedDone DEF DrainInv, CacheOnlyComplete, Cacheable, Answer
<1> QED
  BY <1>1, <1>2, <1>3, <1>4, <1>5, <1>6, WireUntouched DEF DrainInv

LEMMA HeartbeatKeeps ==
  ASSUME DrainInv, Heartbeat
  PROVE  DrainInv'
<1>1. /\ UNCHANGED <<received, rpc, result, pc, chunk, state, abort, bodyOpen, hbStopped,
                     responseBuffer, cached, cancelled>>
      /\ hb' \in {"wait", "write", "gone"}
      /\ wire' = wire \/ wire' = Append(wire, KeepAliveFrame)
  BY DEF Heartbeat, HeartbeatTick, HeartbeatWrite, HeartbeatExit, readerVars, mainVars
<1>2. wire' \in Seq(Frames) /\ WireIsBuffer' /\ Terminators' = Terminators
  <2>1. CASE wire' = wire
    BY <1>1, <2>1, WireUntouched DEF DrainInv, DrainTypeOK
  <2>2. CASE wire' = Append(wire, KeepAliveFrame)
    <3>1. /\ wire' \in Seq(Frames) /\ FromUpstream' = FromUpstream
          /\ \A i \in FromUpstream : wire'[i] = wire[i]
          /\ Terminators' = Terminators
      BY <2>2, OwnFrame, DrainAssumption DEF DrainInv
    <3> QED
      BY <1>1, <3>1 DEF DrainInv, WireIsBuffer, CountsTo
  <2> QED
    BY <1>1, <2>1, <2>2
<1>3. DrainTypeOK'
  BY <1>1, <1>2 DEF DrainInv, DrainTypeOK
<1>4. PiecesJoin'
  BY <1>1 DEF DrainInv, PiecesJoin, Continues, Taken
<1>5. ReaderLifetime' /\ CacheOnlyComplete'
  BY <1>1 DEF DrainInv, ReaderLifetime, CacheOnlyComplete
<1>6. OneFrame'
  BY <1>1, <1>2 DEF DrainInv, OneFrame, ContainDone
<1> QED
  BY <1>2, <1>3, <1>4, <1>5, <1>6 DEF DrainInv

LEMMA Unmoved ==
  ASSUME DrainInv, cancelled' \in BOOLEAN,
         UNCHANGED <<received, rpc, result, pc, chunk, state, abort, bodyOpen, hbStopped,
                     responseBuffer, cached, hb, wire>>
  PROVE  DrainInv'
<1>1. DrainTypeOK'
  BY DEF DrainInv, DrainTypeOK
<1>2. PiecesJoin'
  BY DEF DrainInv, PiecesJoin, Continues, Taken
<1>3. ReaderLifetime' /\ CacheOnlyComplete'
  BY DEF DrainInv, ReaderLifetime, CacheOnlyComplete
<1>4. OneFrame'
  BY WireUntouched DEF DrainInv, OneFrame
<1> QED
  BY <1>1, <1>2, <1>3, <1>4, WireUntouched DEF DrainInv

-----------------------------------------------------------------------------
LEMMA DrainInitially == Init => DrainInv
<1> SUFFICES ASSUME Init PROVE DrainInv
  OBVIOUS
<1>1. /\ responseBuffer = <<>> /\ wire = <<>> /\ <<>> \in Seq(Halves) /\ <<>> \in Seq(Frames)
      /\ Len(responseBuffer) = 0 /\ DOMAIN wire = {}
  BY EmptySeq, LenProperties DEF Init
<1>2. DrainTypeOK
  <2>1. received \in 0 .. 2 * Events
    BY DrainAssumption DEF Init
  <2>2. Nothing \in Payloads
    BY <1>1 DEF Nothing, Payloads
  <2>3. hb \in {"wait", "write", "gone"}
    BY DEF Init
  <2> QED
    BY <1>1, <2>1, <2>2, <2>3 DEF Init, DrainTypeOK
<1>3. PiecesJoin
  BY <1>1 DEF Init, PiecesJoin, Continues, Taken
<1>4. WireIsBuffer /\ Terminators = {}
  BY <1>1 DEF WireIsBuffer, CountsTo, FromUpstream, Terminators
<1>5. ReaderLifetime /\ OneFrame /\ CacheOnlyComplete
  BY <1>4 DEF Init, ReaderLifetime, OneFrame, CacheOnlyComplete, AfterDrain
<1> QED
  BY <1>2, <1>3, <1>4, <1>5 DEF DrainInv

LEMMA DrainKept == DrainInv /\ [Next]_vars => DrainInv'
<1> SUFFICES ASSUME DrainInv, [Next]_vars PROVE DrainInv'
  OBVIOUS
<1>1. CASE Reader
  BY <1>1, ReaderKeeps
<1>2. CASE Main
  BY <1>2, RendezvousKeeps, HandleChunkKeeps, LeavingKeeps, WriteTailKeeps, FinishKeeps
  DEF Main
<1>3. CASE Heartbeat
  BY <1>3, HeartbeatKeeps
<1>4. CASE CancelContext \/ Done \/ UNCHANGED vars
  <2>1. /\ cancelled' \in BOOLEAN
        /\ UNCHANGED <<received, rpc, result, pc, chunk, state, abort, bodyOpen, hbStopped,
                       responseBuffer, cached, hb, wire>>
    BY <1>4 DEF CancelContext, Done, vars, readerVars, mainVars, DrainInv, DrainTypeOK
  <2> QED
    BY <2>1, Unmoved
<1> QED
  BY <1>1, <1>2, <1>3, <1>4 DEF Next

-----------------------------------------------------------------------------
(* What follows from it.                                                   *)

\* The client receives the upstream's bytes once each and in order, whatever
\* the reader does meanwhile, and to the last one when the stream ended by
\* itself (stream_drain.go 71-111).
THEOREM EveryByteOnce == Spec => []ClientGetsTheAnswer
<1>1. DrainInv => ClientGetsTheAnswer
  <2> SUFFICES ASSUME DrainInv PROVE ClientGetsTheAnswer
    OBVIOUS
  <2>1. Len(responseBuffer) \in 0 .. received
    BY LenProperties DEF DrainInv, DrainTypeOK, PiecesJoin
  <2>2. {wire[i] : i \in FromUpstream} = 1 .. Len(responseBuffer)
    BY DEF DrainInv, WireIsBuffer, CountsTo
  <2>3. pc \in AfterDrain /\ state = "EOF" => Len(responseBuffer) = received
    BY DEF DrainInv, ReaderLifetime
  <2>4. \A i, j \in FromUpstream : i < j => wire[i] < wire[j]
    BY DEF DrainInv, WireIsBuffer, CountsTo
  <2> QED
    BY <2>1, <2>2, <2>3, <2>4 DEF ClientGetsTheAnswer
<1> QED
  BY <1>1, DrainInitially, DrainKept, PTL DEF Spec

\* When the drain returns, nobody reads the body or holds the pooled buffer
\* any more (stream_drain.go 27-31, 88-92).
THEOREM NoReaderLeftBehind == Spec => []ReaderGoneAtReturn
<1>1. DrainInv => ReaderGoneAtReturn
  BY DEF DrainInv, ReaderLifetime, ReaderGoneAtReturn
<1> QED
  BY <1>1, DrainInitially, DrainKept, PTL DEF Spec

\* A broken or silent stream ends for the client with one [DONE], its own or
\* the one of the interruption frame (proxy.go 646-663).
THEOREM ExactlyOneEnd == Spec => []OneTerminator
<1>1. DrainInv => OneTerminator
  BY BufferedDone DEF DrainInv, OneFrame, OneTerminator
<1> QED
  BY <1>1, DrainInitially, DrainKept, PTL DEF Spec

\* The cache never keeps an answer the upstream cut short (proxy.go 676-678).
THEOREM CachedAnswersAreComplete == Spec => []CacheOnlyComplete
<1>1. DrainInv => CacheOnlyComplete
  BY DEF DrainInv
<1> QED
  BY <1>1, DrainInitially, DrainKept, PTL DEF Spec

=============================================================================

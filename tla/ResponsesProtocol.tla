------------------------- MODULE ResponsesProtocol -------------------------
(***************************************************************************)
(* What the client of a Responses stream relies on: one response.created,   *)
(* then output items that are added, filled and finished, each stage once  *)
(* and in order, with data only while the item is open; response.completed  *)
(* when every item is finished, or response.failed, which may come alone;   *)
(* [DONE] behind it and nothing more.  The stream may break off anywhere.   *)
(***************************************************************************)
EXTENDS Naturals

CONSTANT Message   \* the item that holds the text; the others are calls

VARIABLES
  phase,   \* "before", "in progress", "completed", "failed" or "stopped"
  items,   \* item -> its stage
  frames   \* number of frames written

protocolVars == <<phase, items, frames>>

ProtocolInit == phase = "before" /\ items = [i \in {} |-> ""] /\ frames = 0

NextFrame == frames' = frames + 1

Created ==
  /\ phase = "before" /\ phase' = "in progress"
  /\ NextFrame /\ UNCHANGED items

\* A call is filled as it is; the message has a part that opens and closes.
ItemAdded(i) ==
  /\ phase = "in progress" /\ i \notin DOMAIN items
  /\ items' = [j \in DOMAIN items \cup {i} |->
                 IF j # i THEN items[j] ELSE IF i = Message THEN "added" ELSE "open"]
  /\ NextFrame /\ UNCHANGED phase

Stage(i, from, to) ==
  /\ phase = "in progress" /\ items[i] = from
  /\ items' = [items EXCEPT ![i] = to]
  /\ NextFrame /\ UNCHANGED phase

PartAdded == Message \in DOMAIN items /\ Stage(Message, "added", "open")
Delta(i) == Stage(i, "open", "open")
ContentDone(i) == Stage(i, "open", IF i = Message THEN "filled" ELSE "closed")
PartDone == Message \in DOMAIN items /\ Stage(Message, "filled", "closed")
ItemDone(i) == Stage(i, "closed", "done")

Completed ==
  /\ phase = "in progress"
  /\ DOMAIN items # {} /\ \A i \in DOMAIN items : items[i] = "done"
  /\ phase' = "completed"
  /\ NextFrame /\ UNCHANGED items

Failed ==
  /\ phase \in {"before", "in progress"} /\ phase' = "failed"
  /\ NextFrame /\ UNCHANGED items

Stopped ==
  /\ phase \in {"completed", "failed"} /\ phase' = "stopped"
  /\ NextFrame /\ UNCHANGED items

ProtocolNext ==
  \/ Created \/ PartAdded \/ PartDone \/ Completed \/ Failed \/ Stopped
  \/ \E i \in DOMAIN items' : ItemAdded(i)
  \/ \E i \in DOMAIN items : Delta(i) \/ ContentDone(i) \/ ItemDone(i)

ProtocolSpec == ProtocolInit /\ [][ProtocolNext]_protocolVars
=============================================================================

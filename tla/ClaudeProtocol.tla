--------------------------- MODULE ClaudeProtocol ---------------------------
(***************************************************************************)
(* What the client of a Claude stream relies on: one message_start, content *)
(* blocks with fresh consecutive indices, deltas only for open blocks, every *)
(* block closed before the closing message_delta, one message_stop and      *)
(* nothing behind it.  The stream may break off anywhere.                   *)
(***************************************************************************)
EXTENDS Naturals, FiniteSets

VARIABLES
  phase,   \* "before", "blocks", "closing" or "stopped"
  blocks,  \* index of a content block -> is it open, how many deltas it had
  frames   \* number of frames written

protocolVars == <<phase, blocks, frames>>

ProtocolInit == phase = "before" /\ blocks = [i \in {} |-> 0] /\ frames = 0

NextFrame == frames' = frames + 1

MessageStart ==
  /\ phase = "before"
  /\ phase' = "blocks"
  /\ NextFrame /\ UNCHANGED blocks

BlockStart ==
  LET fresh == Cardinality(DOMAIN blocks) IN
  /\ phase = "blocks"
  /\ blocks' = [i \in DOMAIN blocks \cup {fresh} |->
                  IF i = fresh THEN [open |-> TRUE, deltas |-> 0] ELSE blocks[i]]
  /\ NextFrame /\ UNCHANGED phase

BlockDelta(i) ==
  /\ phase = "blocks" /\ blocks[i].open
  /\ blocks' = [blocks EXCEPT ![i].deltas = @ + 1]
  /\ NextFrame /\ UNCHANGED phase

BlockStop(i) ==
  /\ phase = "blocks" /\ blocks[i].open
  /\ blocks' = [blocks EXCEPT ![i].open = FALSE]
  /\ NextFrame /\ UNCHANGED phase

MessageDelta ==
  /\ phase = "blocks"
  /\ DOMAIN blocks # {} /\ \A i \in DOMAIN blocks : ~blocks[i].open
  /\ phase' = "closing"
  /\ NextFrame /\ UNCHANGED blocks

MessageStop ==
  /\ phase = "closing"
  /\ phase' = "stopped"
  /\ NextFrame /\ UNCHANGED blocks

ProtocolNext ==
  \/ MessageStart \/ BlockStart \/ MessageDelta \/ MessageStop
  \/ \E i \in DOMAIN blocks : BlockDelta(i) \/ BlockStop(i)

ProtocolSpec == ProtocolInit /\ [][ProtocolNext]_protocolVars
=============================================================================

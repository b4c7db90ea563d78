--------------------------- MODULE MCStreamDrain ---------------------------
(* Small instance of StreamDrain: two events and [DONE], each in two halves. *)
EXTENDS StreamDrain
=============================================================================

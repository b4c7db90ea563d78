-------------------------- MODULE MCCompatStream ---------------------------
(* Small instance of CompatStream: the kinds of chunks that the translators *)
(* tell apart, with two tool calls. *)
EXTENDS CompatStream

Delta(tool, args, bare) == [tool |-> tool, args |-> args, bare |-> bare]
Chunk(text, tools) == [text |-> text, tools |-> tools]

SomeChunks == {
  Chunk(FALSE, <<Delta(0, TRUE, TRUE)>>),       \* white space: nothing to Claude
  Chunk(TRUE, <<>>),
  Chunk(TRUE, <<Delta(1, FALSE, TRUE), Delta(0, TRUE, FALSE)>>)}
=============================================================================

---------------------------- MODULE MCRingBuffer ----------------------------
(* An instance of RingBuffer for TLC: chunks shorter than, as long as and   *)
(* longer than the buffer.                                                  *)
EXTENDS RingBuffer

CONSTANT MaxChunk   \* bound: bytes in one read

MCChunks == UNION {[1..n -> Byte] : n \in 0..MaxChunk}
=============================================================================

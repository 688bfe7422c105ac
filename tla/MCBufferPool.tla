---------------------------- MODULE MCBufferPool ----------------------------
(* A small instance of BufferPool: one page more than frames, and pages    *)
(* of two octets, so that half a page can be read or written.              *)
EXTENDS BufferPool

CONSTANTS zero, x

MCWritten == {<<x, x>>}
=============================================================================

----------------------------- MODULE MCSharedMem -----------------------------
(* The shared memory with a few pages: the larger layout holds one more than  *)
(* the smaller, and a batch is filled by one or two frames.                   *)
EXTENDS SharedMemProps
=============================================================================

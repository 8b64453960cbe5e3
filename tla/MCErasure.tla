------------------------------ MODULE MCErasure ------------------------------
(* One operator with two runs, and a disk that fails in some of its writes.  *)
EXTENDS Erasure

LaterWrites == {"roster", "steps", "data"}  \* once the deletion is in the journals
=============================================================================

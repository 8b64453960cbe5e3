---------------------------- MODULE MCClientView ----------------------------
(* One window and one operator: two edits, another change, a lost stream,   *)
(* a failed request, and a replay of one frame.                              *)
EXTENDS ClientView
=============================================================================

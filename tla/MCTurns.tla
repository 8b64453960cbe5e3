------------------------------- MODULE MCTurns -------------------------------
(* Small instances of Turns: one operator with two threads, or two          *)
(* operators in one project folder.                                         *)
EXTENDS Turns

CONSTANTS o1, o2, t1, t2, u

MCOwner == [t \in Threads |-> IF t = u THEN o2 ELSE o1]
=============================================================================

---------------------------- MODULE MCSteerQueue ----------------------------
(* Small instances of SteerQueue: one operator with two runs, or two       *)
(* operators with one run each.                                            *)
EXTENDS SteerQueue

CONSTANTS b1, b2, t1, t2, s1, s2, s3

OneBotOwner  == [t \in Threads |-> b1]
TwoBotOwner  == [t \in Threads |-> IF t = t1 THEN b1 ELSE b2]
SendTargets  == [s \in Sends |-> IF s = s3 THEN t2 ELSE t1]
=============================================================================

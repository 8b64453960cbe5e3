---------------------------- MODULE MCDelegations ----------------------------
(* Small instances of Delegations: an operator with one or two runs that   *)
(* hands work to one or two peers.                                         *)
EXTENDS Delegations

CONSTANTS o1, o2, o3, ta, ta2, tb, tc, h1, h2, h3

MCOwner == [t \in Threads |-> CASE t \in {ta, ta2} -> o1 [] t = tb -> o2 [] t = tc -> o3]
MCHome  == [x \in Bots |-> CASE x = o1 -> ta [] x = o2 -> tb [] x = o3 -> tc]

\* Both handoffs of one run to one peer; h3 to another peer.
OneRun  == [h \in Handoffs |-> ta]
ToPeers == [h \in Handoffs |-> IF h = h3 THEN o3 ELSE o2]
=============================================================================

--------------------------- MODULE HandoffLifecycle ---------------------------
(***************************************************************************)
(* What a handoff promises the operator that made it, as check_delegation  *)
(* and wait_delegation report it while the process lives: it is queued, it *)
(* runs as the only handoff of its peer, and it ends in one outcome, which *)
(* is final, unless a card was open on the handoff when it was given up.   *)
(***************************************************************************)
CONSTANTS Handoffs,
          Target,   \* the peer of a handoff
          Outcomes, \* how a handoff may end: none of them is in Open
          Provisional  \* the outcomes that an open card's answer may replace
VARIABLE status

Open == {"new", "queued", "running"}

Init == status = [h \in Handoffs |-> "new"]

\* The peer runs one handoff at a time.
OneAtATime(s) == \A g, h \in Handoffs :
  s[g] = "running" /\ s[h] = "running" /\ Target[g] = Target[h] => g = h

Edges == {<<"new", "queued">>, <<"queued", "running">>}
           \cup ({"queued", "running"} \cup Provisional) \X Outcomes
           \cup Provisional \X {"running"}

\* Several handoffs may end at once: a failed turn drops all it queued.
Move ==
  /\ status' \in [Handoffs -> Open \cup Outcomes] /\ OneAtATime(status')
  /\ \A h \in Handoffs : <<status[h], status'[h]>> \in Edges \/ status'[h] = status[h]

Spec == Init /\ [][Move]_status
=============================================================================

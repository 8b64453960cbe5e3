----------------------------- MODULE AtomicImport -----------------------------
(***************************************************************************)
(* What the import endpoints promise of one idempotency key: the key makes  *)
(* at most one crew, every later request with it is answered by that crew, *)
(* and once the crew was undone the key is retired.                        *)
(***************************************************************************)
CONSTANTS Keys, Crews, NoCrew

VARIABLES
  crew,   \* key -> the crew its import made, NoCrew before
  retired \* keys whose import was undone

Init == crew = [k \in Keys |-> NoCrew] /\ retired = {}

Import(k, c) ==
  /\ crew[k] = NoCrew /\ crew' = [crew EXCEPT ![k] = c]
  /\ UNCHANGED retired

Undo(k) ==
  /\ crew[k] # NoCrew /\ retired' = retired \cup {k}
  /\ UNCHANGED crew

Next == \E k \in Keys : Undo(k) \/ \E c \in Crews : Import(k, c)

Spec == Init /\ [][Next]_<<crew, retired>>
===============================================================================

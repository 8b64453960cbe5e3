---------------------------- MODULE ErasureProofs ----------------------------
(* For any runs, any number of deletions, failures and crashes: what bots.json *)
(* names keeps its data, and, as long as the journal's entries can be written,  *)
(* what it no longer names is in the journal's file.                            *)
EXTENDS Erasure, TLAPS

\* What a segment in progress may rely on: memory never names a run the file does
\* not, a batch is named until the commit and unnamed from then on, and what is
\* being erased is not named.
Owned ==
  /\ mem \subseteq file
  /\ server = "boot" => mem = file
  /\ at # "idle" => server = "up"
  /\ at \in {"journal", "desk", "roster"} => batch \subseteq mem
  /\ at \in {"purge", "clear"} => file = mem /\ batch \cap file = {}
  /\ \A t \in Threads : job[t] # {} => t \notin file
  /\ OwnersKeepTheirs

\* What memory no longer names, or is about to drop, is in the journal's file, which
\* has the entries memory has.
Planned ==
  /\ \A t \in Threads : plan[t].state = "none" <=> planFile[t].state = "none"
  /\ \A t \in Threads \ mem : planFile[t].state # "none"
  /\ at \in {"desk", "roster"} => \A t \in batch : planFile[t].state # "none"

USE DEF durable
-----------------------------------------------------------------------------
\* The steps of an erasure are the kinds of private data.
LEMMA StepIsKind == \A i \in 1..5 : Steps[i] \in Kinds
  BY SMT DEF Steps, Kinds

\* An entry stays an entry as its thread is entered, purged and completed.
LEMMA EntryStays ==
  ASSUME NEW e \in Entries
  PROVE  /\ Entered(e) \in Entries
         /\ \A s \in Kinds : [e EXCEPT !.done = @ \cup {s}] \in Entries
         /\ \A x \in {"complete", e.state} : [e EXCEPT !.state = x] \in Entries
  BY SMT DEF Entries, Entered

-----------------------------------------------------------------------------
(* Type correctness.                                                       *)

LEMMA TypeInit == Init => TypeOK
  BY ErasureAssumption, SMT DEF Init, TypeOK, Entries, Kinds

LEMMA TypeStep == TypeOK /\ [Next]_vars => TypeOK'
<1> SUFFICES ASSUME TypeOK, [Next]_vars PROVE TypeOK'
  OBVIOUS
<1> USE ErasureAssumption DEF TypeOK
<1>1. ASSUME NEW t \in Threads, DeleteTask(t) PROVE TypeOK'
  BY <1>1, SMT DEF DeleteTask, Serving
<1>2. CASE DeleteBot
  BY <1>2, SMT DEF DeleteBot, Serving
<1>3. CASE Prepare
  <2>1. plan' \in [Threads -> Entries]
    <3>1. \A t \in Threads : Entered(plan[t]) \in Entries
      BY EntryStays
    <3> QED BY <1>3, <3>1, SMT DEF Prepare, Enter
  <2>2. fails' \in 0..MaxFails
    BY <1>3, SMT DEF Prepare, Fails
  <2> QED BY <1>3, <2>1, <2>2, SMT DEF Prepare
<1>4. CASE PrepareDesk
  <2>1. /\ fails' \in 0..MaxFails
        /\ {desk', deskFile'} \subseteq {"none", "pending", "complete"}
    BY <1>4, SMT DEF PrepareDesk, Written, Fails
  <2> QED BY <1>4, <2>1, SMT DEF PrepareDesk
<1>5. CASE SaveBots
  BY <1>5, SMT DEF SaveBots, Fails
<1>6. ASSUME NEW t \in Threads, Purge(t) PROVE TypeOK'
  <2>1. fails' \in 0..MaxFails
    BY <1>6, SMT DEF Purge, Fails
  <2>2. left' \in [Threads -> SUBSET Kinds]
    BY <1>6, SMT DEF Purge
  <2>3. job' \in [Threads -> SUBSET (Kinds \cup {"end"})]
    BY <1>6, SMT DEF Purge, ToTry
  <2> QED BY <1>6, <2>1, <2>2, <2>3, SMT DEF Purge
<1>7. CASE Purged
  BY <1>7, SMT DEF Purged
<1>8. CASE SaveLater
  BY <1>8, SMT DEF SaveLater
<1>9. ASSUME NEW t \in Threads, Perform(t) PROVE TypeOK'
  <2>1. PICK i \in 1..5 :
          \/ /\ left' = [left EXCEPT ![t] = @ \ {Steps[i]}]
             /\ plan' = [plan EXCEPT ![t].done = @ \cup {Steps[i]}]
             /\ Saves(t, job[t] \ {Steps[i]})
          \/ /\ Fails("data") /\ planFile' = plan /\ job' = [job EXCEPT ![t] = @ \ {Steps[i]}]
             /\ UNCHANGED <<server, left, plan>>
    BY <1>9, Zenon DEF Perform
  <2>2. Steps[i] \in Kinds
    BY StepIsKind
  <2>3. /\ fails' \in 0..MaxFails /\ planFile' \in {plan', planFile, plan}
        /\ server' \in {"down", "boot", "up"}
    BY <2>1, SMT DEF Saves, Fails
  <2>4. plan' \in [Threads -> Entries] /\ left' \in [Threads -> SUBSET Kinds]
    <3> DEFINE s == Steps[i]
    <3>1. [plan[t] EXCEPT !.done = @ \cup {s}] \in Entries
      BY <2>2, EntryStays
    <3>2. \/ left' = [left EXCEPT ![t] = @ \ {s}] /\ plan' = [plan EXCEPT ![t].done = @ \cup {s}]
          \/ UNCHANGED <<left, plan>>
      BY <2>1
    <3> HIDE DEF s
    <3>3. CASE plan' = [plan EXCEPT ![t].done = @ \cup {s}] /\ left' = [left EXCEPT ![t] = @ \ {s}]
      BY <3>1, <3>3, SMT
    <3> QED BY <3>2, <3>3, SMT
  <2>5. job' \in [Threads -> SUBSET (Kinds \cup {"end"})]
    BY <2>1, SMT DEF Saves
  <2> QED BY <1>9, <2>3, <2>4, <2>5, SMT DEF Perform
<1>10. ASSUME NEW t \in Threads, Finish(t) PROVE TypeOK'
  <2>1. fails' \in 0..MaxFails /\ planFile' \in {plan', planFile}
    BY <1>10, SMT DEF Finish, Saves, Fails
  <2>2. plan' \in [Threads -> Entries]
    <3>1. \A x \in {"complete", plan[t].state} : [plan[t] EXCEPT !.state = x] \in Entries
      BY EntryStays
    <3> QED BY <1>10, <3>1, SMT DEF Finish
  <2>3. /\ server' \in {"down", "boot", "up"}
        /\ job' \in [Threads -> SUBSET (Kinds \cup {"end"})]
    BY <1>10, SMT DEF Finish, Saves
  <2> QED BY <1>10, <2>1, <2>2, <2>3, SMT DEF Finish
<1>11. ASSUME ClearDesk
       PROVE  /\ fails' \in 0..MaxFails /\ folder' \in BOOLEAN
              /\ {desk', deskFile'} \subseteq {"none", "pending", "complete"}
  <2>1. folder' = FALSE \/ folder' = folder
    BY <1>11, Zenon DEF ClearDesk
  <2>2. fails' \in 0..MaxFails
    BY <1>11, SMT DEF ClearDesk, Written, Fails
  <2>3. desk' \in {desk, "complete", "pending"} /\ deskFile' \in {deskFile, desk, "complete"}
    BY <1>11, SMT DEF ClearDesk, Written
  <2>4. folder' \in BOOLEAN
    BY <2>1, Zenon
  <2> QED BY <2>2, <2>3, <2>4, SMT
<1>12. CASE Deleted
  BY <1>11, <1>12, SMT DEF Deleted
<1>13. ASSUME NEW t \in Threads, Turn(t) PROVE TypeOK'
  BY <1>13, SMT DEF Turn, Serving
<1>14. ASSUME NEW t \in Threads, Ends(t) PROVE TypeOK'
  BY <1>14, SMT DEF Ends, Serving, Kinds
<1>15. CASE Crash
  BY <1>15, SMT DEF Crash
<1>16. CASE Boot
  BY <1>16, SMT DEF Boot, Start, ToTry
<1>17. CASE Booted
  BY <1>11, <1>17, SMT DEF Booted
<1>18. CASE UNCHANGED vars
  BY <1>18, SMT DEF vars
<1> QED BY <1>1, <1>2, <1>3, <1>4, <1>5, <1>6, <1>7, <1>8, <1>9, <1>10, <1>12, <1>13,
           <1>14, <1>15, <1>16, <1>17, <1>18, Zenon DEF Next, Deletes

\* Every step of deletions, erasures, turns, failures, crashes and starts keeps every
\* variable in its type.
THEOREM TypeCorrect == Spec => []TypeOK
  BY TypeInit, TypeStep, PTL DEF Spec
-----------------------------------------------------------------------------
(* No surviving owner loses its data.                                      *)

LEMMA OwnedInit == Init => Owned
  BY SMT DEF Init, Owned, OwnersKeepTheirs

\* The workspace goes only when no run is named.
LEMMA DeskOwned ==
  ASSUME ClearDesk, folder, mem = file
  PROVE  file # {} => folder'
  BY Zenon DEF ClearDesk

LEMMA OwnedStep == TypeOK /\ Owned /\ [Next]_vars => Owned'
<1> SUFFICES ASSUME TypeOK, Owned, [Next]_vars PROVE Owned'
  OBVIOUS
<1> USE DEF Owned, OwnersKeepTheirs
<1>1. ASSUME NEW t \in Threads, DeleteTask(t) PROVE Owned'
  BY <1>1, SMT DEF DeleteTask, Serving, Held
<1>2. CASE DeleteBot
  BY <1>2, SMT DEF DeleteBot, Serving, Held
<1>3. CASE Prepare
  BY <1>3, SMT DEF Prepare
<1>4. CASE PrepareDesk
  BY <1>4, SMT DEF PrepareDesk
<1>5. CASE SaveBots
  BY <1>5, SMT DEF SaveBots
<1>6. ASSUME NEW t \in Threads, Purge(t) PROVE Owned'
  BY <1>6, SMT DEF Purge, TypeOK
<1>7. CASE Purged
  BY <1>7, SMT DEF Purged
<1>8. CASE SaveLater
  BY <1>8, SMT DEF SaveLater, Serving, Held
<1>9. ASSUME NEW t \in Threads, Perform(t) PROVE Owned'
  BY <1>9, SMT DEF Perform, Saves, TypeOK
<1>10. ASSUME NEW t \in Threads, Finish(t) PROVE Owned'
  BY <1>10, SMT DEF Finish, Saves, TypeOK
<1>11. CASE Deleted
  BY <1>11, DeskOwned, SMT DEF Deleted
<1>12. ASSUME NEW t \in Threads, Turn(t) PROVE Owned'
  BY <1>12, SMT DEF Turn
<1>13. ASSUME NEW t \in Threads, Ends(t) PROVE Owned'
  BY <1>13, SMT DEF Ends, Kinds, TypeOK
<1>14. CASE Crash
  BY <1>14, SMT DEF Crash
<1>15. CASE Boot
  BY <1>15, SMT DEF Boot, Start
<1>16. CASE Booted
  BY <1>16, DeskOwned, SMT DEF Booted
<1>17. CASE UNCHANGED vars
  BY <1>17, SMT DEF vars
<1> QED BY <1>1, <1>2, <1>3, <1>4, <1>5, <1>6, <1>7, <1>8, <1>9, <1>10, <1>11, <1>12, <1>13,
           <1>14, <1>15, <1>16, <1>17, Zenon DEF Next, Deletes

\* No crash, failed write or retried erasure takes a transcript, a log or a desk from
\* a run or an operator that bots.json still names.
THEOREM OwnersKeep == Spec => []OwnersKeepTheirs
<1>1. Owned => OwnersKeepTheirs
  BY DEF Owned
<1> QED BY <1>1, TypeCorrect, OwnedInit, OwnedStep, PTL DEF Spec
-----------------------------------------------------------------------------
(* What is deleted is in the journal.                                      *)

LEMMA PlannedInit == Init => Planned
  BY SMT DEF Init, Planned

LEMMA PlannedStep ==
  ASSUME "journal" \notin MayFail
  PROVE  TypeOK /\ Owned /\ Planned /\ [Next]_vars => Planned'
<1> SUFFICES ASSUME TypeOK, Owned, Planned, [Next]_vars PROVE Planned'
  OBVIOUS
<1> USE DEF Planned
<1>1. ASSUME NEW t \in Threads, DeleteTask(t) PROVE Planned'
  BY <1>1, SMT DEF DeleteTask
<1>2. CASE DeleteBot
  BY <1>2, SMT DEF DeleteBot
<1>3. CASE Prepare
  <2>1. \/ plan' # plan /\ planFile' = plan'
        \/ UNCHANGED <<plan, planFile>>
    BY <1>3, SMT DEF Prepare, Fails
  <2>2. \A t \in Threads : /\ plan'[t].state = "none" => plan[t].state = "none"
                           /\ t \in batch => plan'[t].state # "none"
    BY <1>3, SMT DEF Prepare, Enter, Entered, TypeOK, Entries
  <2>3. batch \subseteq Threads /\ batch' \subseteq batch /\ mem' = mem /\ at' \in {"idle", "desk", "roster"}
    BY <1>3, SMT DEF Prepare, TypeOK
  <2> QED BY <2>1, <2>2, <2>3, SMT
<1>4. CASE PrepareDesk
  BY <1>4, SMT DEF PrepareDesk
<1>5. CASE SaveBots
  BY <1>5, SMT DEF SaveBots
<1>6. ASSUME NEW t \in Threads, Purge(t) PROVE Planned'
  BY <1>6, SMT DEF Purge
<1>7. CASE Purged
  BY <1>7, SMT DEF Purged
<1>8. CASE SaveLater
  BY <1>8, SMT DEF SaveLater
<1>9. ASSUME NEW t \in Threads, Perform(t) PROVE Planned'
  <2>1. \A u \in Threads : plan'[u].state = plan[u].state
    BY <1>9, SMT DEF Perform, TypeOK, Entries
  <2>2. planFile' \in {plan, plan', planFile}
    BY <1>9, SMT DEF Perform, Saves
  <2>3. UNCHANGED <<mem, at, batch>>
    BY <1>9, SMT DEF Perform
  <2>4. batch \subseteq Threads
    BY DEF TypeOK
  <2> QED BY <2>1, <2>2, <2>3, <2>4, SMT
<1>10. ASSUME NEW t \in Threads, Finish(t) PROVE Planned'
  <2>1. \A u \in Threads : plan'[u].state = plan[u].state \/ (u = t /\ plan'[u].state = "complete")
    BY <1>10, SMT DEF Finish, TypeOK, Entries
  <2>2. plan[t].state # "none"
    BY <1>10, SMT DEF Finish, Owned
  <2>3. planFile' \in {plan', planFile} /\ UNCHANGED <<mem, at, batch>>
    BY <1>10, SMT DEF Finish, Saves
  <2>4. batch \subseteq Threads
    BY DEF TypeOK
  <2> QED BY <2>1, <2>2, <2>3, <2>4, SMT
<1>11. CASE Deleted
  BY <1>11, SMT DEF Deleted
<1>12. ASSUME NEW t \in Threads, Turn(t) PROVE Planned'
  BY <1>12, SMT DEF Turn
<1>13. ASSUME NEW t \in Threads, Ends(t) PROVE Planned'
  BY <1>13, SMT DEF Ends
<1>14. CASE Crash
  BY <1>14, SMT DEF Crash
<1>15. CASE Boot
  BY <1>15, SMT DEF Boot, Start, Owned
<1>16. CASE Booted
  BY <1>16, SMT DEF Booted
<1>17. CASE UNCHANGED vars
  BY <1>17, SMT DEF vars
<1> QED BY <1>1, <1>2, <1>3, <1>4, <1>5, <1>6, <1>7, <1>8, <1>9, <1>10, <1>11, <1>12, <1>13,
           <1>14, <1>15, <1>16, <1>17, Zenon DEF Next, Deletes

\* While entries can be written to the journal, no crash leaves a run that bots.json
\* has dropped without its plan, whatever else fails.
THEOREM DeletedIsPlanned ==
  ASSUME "journal" \notin MayFail
  PROVE  Spec => []OwnerOrPlan
<1>1. Owned /\ Planned => OwnerOrPlan
  BY SMT DEF Owned, Planned, OwnerOrPlan
<1>2. TypeOK /\ Owned /\ Planned /\ [Next]_vars => Planned'
  BY PlannedStep
<1> QED BY <1>1, <1>2, TypeCorrect, OwnedInit, OwnedStep, PlannedInit, PTL DEF Spec
=============================================================================

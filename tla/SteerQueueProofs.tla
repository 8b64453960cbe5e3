--------------------------- MODULE SteerQueueProofs ---------------------------
(* Proofs about SteerQueue, for every set of operators, runs and sends and *)
(* any number of crashes and failed writes: an accepted message is never   *)
(* lost, lands once and in order, fires once, and stays cancelled; and no  *)
(* idle operator keeps a message waiting.                                  *)
EXTENDS SteerQueue, SequencesExt, SequenceTheorems, WellFoundedInduction, TLAPS

(* Sequences.                                                              *)

\* The elements of a sequence are the values at its positions.
LEMMA ElementsOfSeq ==
  ASSUME NEW S, NEW q \in Seq(S)
  PROVE  /\ DOMAIN q = 1..Len(q) /\ Len(q) \in Nat
         /\ ToSet(q) = {q[i] : i \in 1..Len(q)} /\ ToSet(q) \subseteq S
<1>1. DOMAIN q = 1..Len(q) /\ Len(q) \in Nat
  BY LenProperties
<1>. QED BY <1>1, ElementOfSeq DEF ToSet

\* The empty sequence has no elements.
LEMMA ElementsOfEmpty == ToSet(<<>>) = {}
  BY DEF ToSet

\* Appending adds exactly the appended element, at the end.
LEMMA AppendElements ==
  ASSUME NEW S, NEW q \in Seq(S), NEW e \in S
  PROVE  Append(q, e) \in Seq(S) /\ ToSet(Append(q, e)) = ToSet(q) \cup {e}
<1>1. PICK r : r = Append(q, e)
  OBVIOUS
<1>2. /\ r \in Seq(S) /\ Len(r) = Len(q) + 1
      /\ \A i \in 1..Len(q) : r[i] = q[i]
      /\ r[Len(q) + 1] = e
  BY <1>1, AppendProperties
<1>3. Len(q) \in Nat
  BY LenProperties
<1>4. ToSet(r) = {r[i] : i \in 1..Len(r)} /\ ToSet(q) = {q[i] : i \in 1..Len(q)}
  BY <1>2, ElementsOfSeq
<1>5. 1..Len(r) = (1..Len(q)) \cup {Len(q) + 1}
  BY <1>2, <1>3
<1>6. ToSet(r) = ToSet(q) \cup {e}
  BY <1>2, <1>4, <1>5
<1>. QED BY <1>1, <1>2, <1>6

\* Appending an element that is not there keeps the elements distinct.
LEMMA AppendKeepsDistinct ==
  ASSUME NEW S, NEW q \in Seq(S), NEW e \in S, IsInjective(q), e \notin ToSet(q)
  PROVE  IsInjective(Append(q, e))
<1>1. PICK r : r = Append(q, e)
  OBVIOUS
<1>2. /\ r \in Seq(S) /\ Len(r) = Len(q) + 1
      /\ \A i \in 1..Len(q) : r[i] = q[i]
      /\ r[Len(q) + 1] = e
  BY <1>1, AppendProperties
<1>3. Len(q) \in Nat /\ DOMAIN q = 1..Len(q) /\ DOMAIN r = 1..(Len(q) + 1)
  BY <1>2, LenProperties
<1>4. \A i \in 1..Len(q) : q[i] # e
  BY ElementsOfSeq
<1>5. \A i, j \in 1..Len(q) : q[i] = q[j] => i = j
  BY <1>3 DEF IsInjective
<1>6. ASSUME NEW i \in DOMAIN r, NEW j \in DOMAIN r, r[i] = r[j] PROVE i = j
  <2>1. i \in 1..Len(q) \/ i = Len(q) + 1
    BY <1>3
  <2>2. j \in 1..Len(q) \/ j = Len(q) + 1
    BY <1>3
  <2>. QED BY <1>2, <1>4, <1>5, <1>6, <2>1, <2>2
<1>. QED BY <1>1, <1>6 DEF IsInjective

\* Deleting position i shifts the positions behind it by one.
LEMMA RemoveAtPositions ==
  ASSUME NEW S, NEW q \in Seq(S), NEW i \in 1..Len(q)
  PROVE  /\ RemoveAt(q, i) \in Seq(S)
         /\ Len(RemoveAt(q, i)) = Len(q) - 1
         /\ \A j \in 1..(Len(q) - 1) : j < i => RemoveAt(q, i)[j] = q[j]
         /\ \A j \in 1..(Len(q) - 1) : j >= i => RemoveAt(q, i)[j] = q[j + 1]
<1>1. PICK n \in Nat : n = Len(q)
  BY LenProperties
<1>2. i \in Nat /\ i >= 1 /\ i <= n /\ \A j \in 1..n : q[j] \in S
  BY <1>1, ElementOfSeq
<1>3. PICK x : x = SubSeq(q, 1, i - 1)
  OBVIOUS
<1>4. PICK y : y = SubSeq(q, i + 1, n)
  OBVIOUS
<1>5. x \in Seq(S) /\ Len(x) = i - 1 /\ \A j \in 1..(i - 1) : x[j] = q[j]
  <2>1. 1 \in Int /\ i - 1 \in Int /\ \A j \in 1..(i - 1) : q[j] \in S
    BY <1>2
  <2>2. /\ x \in Seq(S)
        /\ Len(x) = IF 1 <= i - 1 THEN (i - 1) - 1 + 1 ELSE 0
        /\ \A j \in 1..((i - 1) - 1 + 1) : x[j] = q[1 + j - 1]
    BY <1>3, <2>1, SubSeqProperties
  <2>. QED BY <1>2, <2>2
<1>6. y \in Seq(S) /\ Len(y) = n - i /\ \A j \in 1..(n - i) : y[j] = q[i + j]
  <2>1. i + 1 \in Int /\ n \in Int /\ \A j \in (i + 1)..n : q[j] \in S
    BY <1>2
  <2>2. /\ y \in Seq(S)
        /\ Len(y) = IF i + 1 <= n THEN n - (i + 1) + 1 ELSE 0
        /\ \A j \in 1..(n - (i + 1) + 1) : y[j] = q[(i + 1) + j - 1]
    BY <1>4, <2>1, SubSeqProperties
  <2>. QED BY <1>2, <2>2
<1>7. PICK r : r = x \o y
  OBVIOUS
<1>8. /\ r \in Seq(S) /\ Len(r) = Len(x) + Len(y)
      /\ \A j \in 1..(Len(x) + Len(y)) :
           r[j] = IF j <= Len(x) THEN x[j] ELSE y[j - Len(x)]
  BY <1>5, <1>6, <1>7, ConcatProperties
<1>9. Len(r) = n - 1
  BY <1>2, <1>5, <1>6, <1>8
<1>10. ASSUME NEW j \in 1..(n - 1), j < i PROVE r[j] = q[j]
  BY <1>2, <1>5, <1>6, <1>8, <1>10
<1>11. ASSUME NEW j \in 1..(n - 1), j >= i PROVE r[j] = q[j + 1]
  <2>1. r[j] = y[j - (i - 1)]
    BY <1>2, <1>5, <1>6, <1>8, <1>11
  <2>2. j - (i - 1) \in 1..(n - i) /\ i + (j - (i - 1)) = j + 1
    BY <1>2, <1>11
  <2>. QED BY <1>6, <2>1, <2>2
<1>12. r = RemoveAt(q, i)
  BY <1>1, <1>3, <1>4, <1>7 DEF RemoveAt
<1>. QED BY <1>1, <1>8, <1>9, <1>10, <1>11, <1>12

\* Deleting position i keeps every other element, and distinct elements
\* distinct: the deleted one is then gone.
LEMMA RemoveAtElements ==
  ASSUME NEW S, NEW q \in Seq(S), NEW i \in 1..Len(q)
  PROVE  /\ RemoveAt(q, i) \in Seq(S)
         /\ ToSet(RemoveAt(q, i)) \subseteq ToSet(q)
         /\ \A e \in ToSet(q) : e # q[i] => e \in ToSet(RemoveAt(q, i))
         /\ IsInjective(q) => /\ IsInjective(RemoveAt(q, i))
                              /\ q[i] \notin ToSet(RemoveAt(q, i))
<1>1. PICK n \in Nat : n = Len(q)
  BY LenProperties
<1>2. PICK r : r = RemoveAt(q, i)
  OBVIOUS
<1>3. /\ r \in Seq(S) /\ Len(r) = n - 1
      /\ \A j \in 1..(n - 1) : j < i => r[j] = q[j]
      /\ \A j \in 1..(n - 1) : j >= i => r[j] = q[j + 1]
  BY <1>1, <1>2, RemoveAtPositions
<1>4. i \in Nat /\ 1 <= i /\ i <= n
  BY <1>1
<1>5. /\ ToSet(r) = {r[j] : j \in 1..(n - 1)} /\ DOMAIN r = 1..(n - 1)
      /\ ToSet(q) = {q[j] : j \in 1..n} /\ DOMAIN q = 1..n
  BY <1>1, <1>3, ElementsOfSeq
<1>6. ASSUME NEW j \in 1..(n - 1)
      PROVE  \E k \in 1..n : r[j] = q[k] /\ k # i /\ k = IF j < i THEN j ELSE j + 1
  <2>1. CASE j < i
    BY <1>3, <1>4, <2>1
  <2>2. CASE j >= i
    BY <1>3, <1>4, <2>2
  <2>. QED BY <1>4, <2>1, <2>2
<1>7. ToSet(r) \subseteq ToSet(q)
  BY <1>5, <1>6
<1>8. ASSUME NEW e \in ToSet(q), e # q[i] PROVE e \in ToSet(r)
  <2>1. PICK k \in 1..n : q[k] = e
    BY <1>5
  <2>2. CASE k < i
    <3>1. k \in 1..(n - 1) /\ r[k] = e
      BY <1>3, <1>4, <2>1, <2>2
    <3>. QED BY <1>5, <3>1
  <2>3. CASE k > i
    <3>1. k - 1 \in 1..(n - 1) /\ k - 1 >= i /\ (k - 1) + 1 = k
      BY <1>4, <2>3
    <3>2. r[k - 1] = e
      BY <1>3, <2>1, <3>1
    <3>. QED BY <1>5, <3>1, <3>2
  <2>. QED BY <1>4, <1>8, <2>1, <2>2, <2>3
<1>9. ASSUME IsInjective(q) PROVE IsInjective(r) /\ q[i] \notin ToSet(r)
  <2>1. \A a, b \in 1..n : q[a] = q[b] => a = b
    BY <1>5, <1>9 DEF IsInjective
  <2>2. ASSUME NEW a \in 1..(n - 1), NEW b \in 1..(n - 1), r[a] = r[b]
        PROVE  a = b
    <3>1. PICK k \in 1..n : r[a] = q[k] /\ k # i /\ k = IF a < i THEN a ELSE a + 1
      BY <1>6
    <3>2. PICK l \in 1..n : r[b] = q[l] /\ l # i /\ l = IF b < i THEN b ELSE b + 1
      BY <1>6
    <3>3. k = l
      BY <2>1, <2>2, <3>1, <3>2
    <3>. QED BY <1>4, <3>1, <3>2, <3>3
  <2>3. ASSUME NEW j \in 1..(n - 1) PROVE r[j] # q[i]
    <3>1. PICK k \in 1..n : r[j] = q[k] /\ k # i /\ k = IF j < i THEN j ELSE j + 1
      BY <1>6
    <3>. QED BY <1>4, <2>1, <3>1
  <2>4. IsInjective(r)
    BY <1>5, <2>2 DEF IsInjective
  <2>. QED BY <1>5, <2>3, <2>4
<1>. QED BY <1>2, <1>3, <1>7, <1>8, <1>9

\* A sequence is a prefix of itself.
LEMMA PrefixReflexive ==
  ASSUME NEW S, NEW q \in Seq(S)
  PROVE  IsPrefix(q, q)
  BY LenProperties DEF IsPrefix

-----------------------------------------------------------------------------
\* What a drain pass and an entry's waiter are made of.
LEMMA PassTypes ==
  /\ NoScan \in Passes /\ NoPass \in Waiters
  /\ \A seen \in SUBSET Threads : Pass(seen) \in Passes
  BY EmptySeq DEF NoScan, Pass, NoPass, Passes, Waiters

\* The sends of an entry emptied or left alone are sends of the entry.
LEMMA Emptied ==
  ASSUME NEW q \in [Threads -> Seq(Sends)], NEW gone
  PROVE  [t \in Threads |-> IF t \in gone THEN <<>> ELSE q[t]]
           \in [Threads -> Seq(Sends)]
  BY EmptySeq
-----------------------------------------------------------------------------
(* Every step keeps every variable in its type.                            *)

\* The operators' runs and turns.
LEMMA TurnsStep == TypeOK /\ [Next]_vars => TurnsTyped'
<1> SUFFICES ASSUME TurnsTyped, PassesTyped, [Next]_vars PROVE TurnsTyped'
  BY DEF TypeOK
<1> USE SteerAssumption
<1>1. ASSUME NEW b \in Bots, NEW t \in Threads, NEW ss, TurnStarts(b, t, ss),
             UNCHANGED <<tasks, active>>
      PROVE  TurnsTyped'
  BY <1>1 DEF TurnsTyped, TurnStarts
<1>2. CASE UNCHANGED <<tasks, active, turn, routine, ran>>
  BY <1>2 DEF TurnsTyped
<1>3. ASSUME NEW s \in Sends, SendToIdle(s) \/ SteerFallsToTurn(s)
      PROVE  TurnsTyped'
  <2>1. Owner[Target[s]] \in Bots /\ Target[s] \in Threads
    OBVIOUS
  <2>. QED BY <1>1, <1>3, <2>1 DEF SendToIdle, SteerFallsToTurn
<1>4. ASSUME NEW s \in Sends,
             SendToBusy(s) \/ Replay(s) \/ SteerRefused(s) \/ SteerRecorded(s)
               \/ SteerFallsToQueue(s) \/ Cancel(s)
      PROVE  TurnsTyped'
  BY <1>2, <1>4 DEF SendToBusy, Replay, SteerRefused, SteerRecorded,
                    SteerFallsToQueue, Cancel
<1>5. ASSUME NEW t \in Threads, DeleteTask(t) PROVE TurnsTyped'
  BY <1>5 DEF DeleteTask, TurnsTyped
<1>6. ASSUME NEW b \in Bots, DeleteBot(b) PROVE TurnsTyped'
  BY <1>6 DEF DeleteBot, Idles, TurnsTyped
<1>7. ASSUME NEW b \in Bots,
             Settle(b) \/ SettleUnheard(b) \/ GateCloses(b)
      PROVE  TurnsTyped'
  BY <1>7 DEF Settle, SettleUnheard, GateCloses, Idles, TurnsTyped
<1>8. ASSUME NEW b \in Bots, NEW t \in Threads, SwitchTask(b, t) \/ OtherTurn(b, t)
      PROVE  TurnsTyped'
  BY <1>8 DEF SwitchTask, OtherTurn, Takes, TurnsTyped
<1>9. ASSUME NEW b \in Bots, NEW x \in Threads \cup {Gate}, SettleRetaken(b, x)
      PROVE  TurnsTyped'
  BY <1>9 DEF SettleRetaken, Takes, TurnsTyped
<1>10. ASSUME ReloadProviders \/ Restart PROVE TurnsTyped'
  BY <1>10 DEF ReloadProviders, Restart, TurnsTyped
<1>11. ASSUME DrainRun PROVE TurnsTyped'
  <2>1. Owner[scan.at] \in Bots /\ scan.at \in Threads
    BY <1>11 DEF DrainRun, PassesTyped, Passes
  <2>. QED BY <1>1, <1>2, <1>11, <2>1 DEF DrainRun
<1>12. CASE UNCHANGED vars
  BY <1>2, <1>12 DEF vars
<1>13. CASE Drain /\ ~DrainRun
  BY <1>2, <1>13 DEF Drain, DrainOrphan, DrainTake, DrainResume, DrainAppend,
                     DrainEnds
<1>. QED
  BY <1>3, <1>4, <1>5, <1>6, <1>7, <1>8, <1>9, <1>10, <1>11, <1>12, <1>13
     DEF Next, Drain

\* The map, the file and the transcripts.
LEMMA QueuesStep == TypeOK /\ [Next]_vars => QueuesTyped'
<1> SUFFICES ASSUME QueuesTyped, PassesTyped, [Next]_vars
             PROVE  QueuesTyped'
  BY DEF TypeOK
<1>1. CASE UNCHANGED <<queue, disk, transcript>>
  BY <1>1 DEF QueuesTyped
<1>2. ASSUME NEW t \in Threads, NEW s \in Sends, UNCHANGED <<queue, disk>>,
             transcript' = [transcript EXCEPT ![t] = Append(@, s)]
      PROVE  QueuesTyped'
  BY <1>2, AppendElements DEF QueuesTyped
<1>3. \A s \in Sends : Target[s] \in Threads
  BY SteerAssumption
<1>4. ASSUME NEW s \in Sends, SendToIdle(s) \/ SteerFallsToTurn(s) \/ SteerRecorded(s)
      PROVE  QueuesTyped'
  BY <1>2, <1>3, <1>4 DEF SendToIdle, SteerFallsToTurn, SteerRecorded
<1>5. ASSUME NEW s \in Sends, SendToBusy(s) \/ Replay(s) \/ SteerRefused(s)
      PROVE  QueuesTyped'
  BY <1>1, <1>5 DEF SendToBusy, Replay, SteerRefused
<1>6. ASSUME NEW s \in Sends, SteerFallsToQueue(s) PROVE QueuesTyped'
  <2>1. CASE queue' = queue /\ disk' = disk
    BY <1>1, <1>6, <2>1 DEF SteerFallsToQueue
  <2>2. CASE queue' = [queue EXCEPT ![Target[s]] = Append(@, s)] /\ disk'.queue = queue'
    <3>1. Append(queue[Target[s]], s) \in Seq(Sends)
      BY <1>3, AppendElements DEF QueuesTyped
    <3>. QED BY <1>3, <1>6, <2>2, <3>1 DEF SteerFallsToQueue, QueuesTyped
  <2>. QED BY <1>6, <2>1, <2>2 DEF SteerFallsToQueue, Saves, SaveFails
<1>7. ASSUME NEW s \in Sends, Cancel(s) PROVE QueuesTyped'
  <2>1. CASE queue' = queue /\ disk' = disk
    BY <1>1, <1>7, <2>1 DEF Cancel
  <2>2. CASE EntryLoses(s) /\ disk'.queue = queue'
    <3>1. PICK i \in 1..Len(queue[Target[s]]) :
            queue' = [queue EXCEPT ![Target[s]] = RemoveAt(@, i)]
      <4>1. DOMAIN queue[Target[s]] = 1..Len(queue[Target[s]])
        BY <1>3, LenProperties DEF QueuesTyped
      <4>. QED BY <2>2, <4>1 DEF EntryLoses
    <3>2. RemoveAt(queue[Target[s]], i) \in Seq(Sends)
      BY <1>3, RemoveAtElements DEF QueuesTyped
    <3>3. transcript' = transcript
      BY <1>7 DEF Cancel
    <3>4. queue' \in [Threads -> Seq(Sends)]
      BY <1>3, <3>1, <3>2 DEF QueuesTyped
    <3>. QED BY <2>2, <3>3, <3>4 DEF QueuesTyped
  <2>. QED BY <1>7, <2>1, <2>2 DEF Cancel, Saves, SaveFails
<1>8. ASSUME NEW gone, Discards(gone) \/ DiscardFails(gone), transcript' = transcript
      PROVE  QueuesTyped'
  <2>1. CASE queue' = queue /\ disk' = disk
    BY <1>1, <1>8, <2>1
  <2>2. CASE /\ queue' = [t \in Threads |-> IF t \in gone THEN <<>> ELSE queue[t]]
             /\ disk'.queue = queue'
    BY <1>8, <2>2, Emptied DEF QueuesTyped
  <2>. QED BY <1>8, <2>1, <2>2 DEF Discards, DiscardFails, Saves, SaveFails
<1>9. ASSUME NEW t \in Threads, DeleteTask(t) PROVE QueuesTyped'
  BY <1>8, <1>9 DEF DeleteTask
<1>10. ASSUME NEW b \in Bots, DeleteBot(b) PROVE QueuesTyped'
  BY <1>8, <1>10 DEF DeleteBot
<1>11. ASSUME NEW b \in Bots,
             Settle(b) \/ SettleUnheard(b) \/ GateCloses(b)
      PROVE  QueuesTyped'
  BY <1>1, <1>11 DEF Settle, SettleUnheard, GateCloses
<1>12. ASSUME NEW b \in Bots, NEW t \in Threads, SwitchTask(b, t) \/ OtherTurn(b, t)
       PROVE  QueuesTyped'
  BY <1>1, <1>12 DEF SwitchTask, OtherTurn
<1>13. ASSUME NEW b \in Bots, NEW x \in Threads \cup {Gate}, SettleRetaken(b, x)
       PROVE  QueuesTyped'
  BY <1>1, <1>13 DEF SettleRetaken
<1>14. ASSUME ReloadProviders \/ UNCHANGED vars PROVE QueuesTyped'
  BY <1>1, <1>14 DEF ReloadProviders, vars
<1>15. ASSUME Restart PROVE QueuesTyped'
  BY <1>15 DEF Restart, QueuesTyped
<1>16. ASSUME NEW t \in Threads, NEW seen, DropEntry(t, seen),
              transcript' = transcript
       PROVE  QueuesTyped'
  <2>1. queue' \in [Threads -> Seq(Sends)]
    <3>1. <<>> \in Seq(Sends)
      BY EmptySeq
    <3>. QED BY <1>16, <3>1 DEF DropEntry, QueuesTyped
  <2>2. disk' = disk \/ disk'.queue = queue'
    <3>1. Saves(queue', order') \/ SaveFails
      BY <1>16 DEF DropEntry
    <3>. QED BY <3>1 DEF Saves, SaveFails
  <2>. QED BY <1>16, <2>1, <2>2 DEF QueuesTyped
<1>17. ASSUME NEW t \in Threads, DrainOrphan(t) \/ DrainResume(t) PROVE QueuesTyped'
  BY <1>1, <1>16, <1>17 DEF DrainOrphan, DrainResume
<1>18. ASSUME (\E t \in Threads : DrainTake(t)) \/ DrainRun \/ DrainEnds
       PROVE  QueuesTyped'
  BY <1>1, <1>18 DEF DrainTake, DrainRun, DrainEnds
<1>19. ASSUME DrainAppend PROVE QueuesTyped'
  <2>1. scan.at \in Threads /\ queue[scan.at][scan.n] \in Sends
    <3>1. scan.at \in Threads
      BY <1>19 DEF DrainAppend, PassesTyped, Passes
    <3>2. queue[scan.at] \in Seq(Sends) /\ Len(queue[scan.at]) \in Nat
      BY <3>1, LenProperties DEF QueuesTyped
    <3>3. scan.n \in 1..Len(queue[scan.at])
      BY <1>19, <3>2 DEF DrainAppend, PassesTyped, Passes
    <3>. QED BY <3>1, <3>2, <3>3, ElementOfSeq
  <2>. QED BY <1>1, <1>2, <1>19, <2>1 DEF DrainAppend, QueuesTyped
<1>. QED
  BY <1>4, <1>5, <1>6, <1>7, <1>9, <1>10, <1>11, <1>12, <1>13, <1>14, <1>15,
     <1>17, <1>18, <1>19 DEF Next

\* The clients' sends.
LEMMA ClientsStep == TypeOK /\ [Next]_vars => ClientsTyped'
<1> SUFFICES ASSUME ClientsTyped, [Next]_vars PROVE ClientsTyped'
  BY DEF TypeOK
<1>1. ASSUME NEW s \in Sends, steering' \in {steering, steering \ {s}, steering \cup {s}},
             accepted' \in {accepted, accepted \cup {s}},
             cancelled' \in {cancelled, cancelled \cup {s}}
      PROVE  ClientsTyped'
  BY <1>1 DEF ClientsTyped
<1>2. ASSUME UNCHANGED <<accepted, cancelled>>, steering' \in {steering, {}}
      PROVE  ClientsTyped'
  BY <1>2 DEF ClientsTyped
<1>3. ASSUME NEW s \in Sends, SendToIdle(s) \/ SendToBusy(s) \/ Replay(s) \/ Cancel(s)
      PROVE  ClientsTyped'
  BY <1>1, <1>3 DEF SendToIdle, SendToBusy, Replay, Cancel, Receipt
<1>4. ASSUME NEW s \in Sends, SteerRefused(s) \/ SteerRecorded(s)
                                \/ SteerFallsToTurn(s) \/ SteerFallsToQueue(s)
      PROVE  ClientsTyped'
  BY <1>1, <1>4 DEF SteerRefused, SteerRecorded, SteerFallsToTurn,
                    SteerFallsToQueue, SteerAnswered, Receipt
<1>5. ASSUME (\E t \in Threads : DeleteTask(t)) \/ (\E b \in Bots : DeleteBot(b))
      PROVE  ClientsTyped'
  BY <1>2, <1>5 DEF DeleteTask, DeleteBot, client
<1>6. ASSUME NEW b \in Bots, NEW x \in Threads \cup {Gate},
             Settle(b) \/ SettleUnheard(b) \/ GateCloses(b) \/ SwitchTask(b, x) \/ OtherTurn(b, x)
               \/ SettleRetaken(b, x)
      PROVE  ClientsTyped'
  BY <1>2, <1>6 DEF Settle, SettleUnheard, GateCloses, SwitchTask, OtherTurn, SettleRetaken, client
<1>7. ASSUME ReloadProviders \/ Restart \/ UNCHANGED vars PROVE ClientsTyped'
  BY <1>2, <1>7 DEF ReloadProviders, Restart, vars, client
<1>8. ASSUME Drain PROVE ClientsTyped'
  BY <1>2, <1>8 DEF Drain, DrainOrphan, DrainTake, DrainResume, DrainAppend,
                    DrainRun, DrainEnds, client
<1>. QED BY <1>3, <1>4, <1>5, <1>6, <1>7, <1>8 DEF Next, Drain

\* The drain pass and the entries that wait for run().
LEMMA PassesStep == TypeOK /\ [Next]_vars => PassesTyped'
<1> SUFFICES ASSUME PassesTyped, QueuesTyped, [Next]_vars PROVE PassesTyped'
  BY DEF TypeOK
<1>1. ASSUME held' = held, scan' \in {scan, NoScan, Pass({})} PROVE PassesTyped'
  BY <1>1, PassTypes DEF PassesTyped
<1>2. ASSUME NEW s \in Sends, SendToIdle(s) \/ SendToBusy(s) \/ Replay(s) \/ Cancel(s)
                                \/ SteerRefused(s) \/ SteerRecorded(s)
                                \/ SteerFallsToTurn(s) \/ SteerFallsToQueue(s)
      PROVE  PassesTyped'
  BY <1>1, <1>2 DEF SendToIdle, SendToBusy, Replay, Cancel, SteerRefused,
                    SteerRecorded, SteerFallsToTurn, SteerFallsToQueue
<1>3. ASSUME (\E t \in Threads : DeleteTask(t)) \/ (\E b \in Bots : DeleteBot(b))
      PROVE  PassesTyped'
  BY <1>1, <1>3 DEF DeleteTask, DeleteBot
<1>4. ASSUME NEW b \in Bots, NEW x \in Threads \cup {Gate},
             Settle(b) \/ SettleUnheard(b) \/ GateCloses(b) \/ SwitchTask(b, x) \/ OtherTurn(b, x)
               \/ SettleRetaken(b, x)
      PROVE  PassesTyped'
  BY <1>1, <1>4 DEF Settle, SettleUnheard, GateCloses, SwitchTask, OtherTurn, SettleRetaken
<1>5. ASSUME ReloadProviders \/ DrainEnds \/ UNCHANGED vars PROVE PassesTyped'
  BY <1>1, <1>5 DEF ReloadProviders, DrainEnds, vars
<1>6. ASSUME Restart PROVE PassesTyped'
  BY <1>6, PassTypes DEF Restart, PassesTyped
<1>7. ASSUME NEW t \in Threads, NEW seen \in SUBSET Threads, DropEntry(t, seen)
      PROVE  scan' \in Passes
  BY <1>7, PassTypes DEF DropEntry
<1>8. ASSUME NEW t \in Threads PROVE Passed(t) \in SUBSET Threads
  BY DEF PassesTyped, Passes, Passed
<1>9. ASSUME NEW t \in Threads, DrainOrphan(t) PROVE PassesTyped'
  BY <1>7, <1>8, <1>9 DEF DrainOrphan, PassesTyped
<1>10. ASSUME NEW t \in Threads, DrainTake(t) PROVE PassesTyped'
  BY <1>8, <1>10 DEF DrainTake, PassesTyped, Passes
<1>11. ASSUME NEW t \in Threads, DrainResume(t) PROVE PassesTyped'
  <2>1. held[t].seen \in SUBSET Threads
    BY DEF PassesTyped, Waiters
  <2>2. scan' \in Passes
    BY <1>7, <1>11, <2>1, PassTypes DEF DrainResume
  <2>. QED BY <1>11, <2>2, PassTypes DEF DrainResume, PassesTyped
<1>12. ASSUME DrainAppend PROVE PassesTyped'
  <2>1. held' = held /\ scan' = [scan EXCEPT !.n = scan.n + 1]
    BY <1>12 DEF DrainAppend
  <2>. QED BY <2>1 DEF PassesTyped, Passes
<1>13. ASSUME DrainRun PROVE PassesTyped'
  <2>1. scan.at \in Threads /\ scan.seen \in SUBSET Threads
    BY <1>13 DEF DrainRun, PassesTyped, Passes
  <2>2. [on |-> TRUE, seen |-> scan.seen, items |-> queue[scan.at]] \in Waiters
    BY <2>1 DEF QueuesTyped, Waiters
  <2>. QED BY <1>13, <2>1, <2>2, PassTypes DEF DrainRun, PassesTyped
<1>. QED
  BY <1>2, <1>3, <1>4, <1>5, <1>6, <1>9, <1>10, <1>11, <1>12, <1>13 DEF Next

\* The bounds of the model.
LEMMA BoundsStep == TypeOK /\ [Next]_vars => BoundsTyped'
<1> SUFFICES ASSUME BoundsTyped, [Next]_vars PROVE BoundsTyped'
  BY DEF TypeOK
<1>1. CASE UNCHANGED bounds
  BY <1>1 DEF BoundsTyped, bounds
<1>2. ASSUME Restart \/ \E b \in Bots, x \in Threads \cup {Gate} : SettleRetaken(b, x)
      PROVE  BoundsTyped'
  BY <1>2, SteerAssumption DEF Restart, SettleRetaken, BoundsTyped
<1>3. CASE \E s \in Sends : SendToIdle(s) \/ SendToBusy(s) \/ Replay(s) \/ Cancel(s)
                              \/ SteerRefused(s) \/ SteerRecorded(s)
                              \/ SteerFallsToTurn(s) \/ SteerFallsToQueue(s)
  BY <1>1, <1>3 DEF SendToIdle, SendToBusy, Replay, Cancel, SteerRefused,
                    SteerRecorded, SteerFallsToTurn, SteerFallsToQueue
<1>4. CASE (\E t \in Threads : DeleteTask(t))
             \/ \E b \in Bots : DeleteBot(b) \/ Settle(b) \/ SettleUnheard(b) \/ GateCloses(b)
  BY <1>1, <1>4 DEF DeleteTask, DeleteBot, Settle, SettleUnheard, GateCloses
<1>5. CASE \/ \E b \in Bots, t \in Threads : SwitchTask(b, t) \/ OtherTurn(b, t)
           \/ ReloadProviders \/ UNCHANGED vars
  BY <1>1, <1>5 DEF SwitchTask, OtherTurn, ReloadProviders, vars, bounds
<1>6. CASE Drain
  BY <1>1, <1>6 DEF Drain, DrainOrphan, DrainTake, DrainResume, DrainAppend,
                    DrainRun, DrainEnds
<1>. QED BY <1>2, <1>3, <1>4, <1>5, <1>6 DEF Next, Drain

\* TypeOK is an invariant of every instance.
THEOREM TypeCorrect == Spec => []TypeOK
<1>1. Init => TypeOK
  BY EmptySeq, PassTypes, SteerAssumption
     DEF Init, TypeOK, TurnsTyped, QueuesTyped, ClientsTyped,
         PassesTyped, BoundsTyped
<1>2. TypeOK /\ [Next]_vars => TypeOK'
  BY TurnsStep, QueuesStep, ClientsStep, PassesStep, BoundsStep DEF TypeOK
<1>. QED BY <1>1, <1>2, PTL DEF Spec
-----------------------------------------------------------------------------
(* The inductive invariant, action by action.                              *)

\* IInv without its typing.
Safe ==
  /\ Homed /\ MemoryOnDisk /\ ScanLanded /\ HeldLanded
  /\ SteeringFresh /\ RanLanded /\ CancelledHadReceipt
  /\ NothingLost /\ OnceInTranscript /\ CancelledStaysGone /\ FiredOnce

\* A step that leaves the messages alone.
LEMMA QuietStep ==
  ASSUME Safe, UNCHANGED <<queue, disk, transcript, accepted, cancelled, held, ran>>,
         steering' \subseteq steering, tasks' \subseteq tasks,
         scan' = scan \/ ~scan'.on \/ scan'.at = None
  PROVE  Safe'
<1> USE DEF Landed, Waiting, Gone
<1>1. Homed' /\ MemoryOnDisk' /\ CancelledHadReceipt'
  BY DEF Safe, Homed, MemoryOnDisk, CancelledHadReceipt
<1>2. ScanLanded'
  BY DEF Safe, ScanLanded
<1>3. HeldLanded' /\ RanLanded' /\ FiredOnce'
  BY DEF Safe, HeldLanded, RanLanded, FiredOnce
<1>4. SteeringFresh' /\ NothingLost'
  BY DEF Safe, SteeringFresh, NothingLost
<1>5. OnceInTranscript' /\ CancelledStaysGone'
  BY DEF Safe, OnceInTranscript, CancelledStaysGone
<1>. QED BY <1>1, <1>2, <1>3, <1>4, <1>5 DEF Safe

\* A new line: the send was in no transcript and in no entry.
LEMMA NewLineStep ==
  ASSUME IInv, NEW s \in Sends, ~Landed(s), ~Waiting(s), s \notin accepted,
         UNCHANGED <<tasks, queue, disk, cancelled, scan, held>>,
         transcript' = [transcript EXCEPT ![Target[s]] = Append(@, s)],
         steering' = steering \ {s}, accepted' \in {accepted, accepted \cup {s}},
         \/ ran' = ran
         \/ ran' = [r \in Sends |-> IF r \in {s} THEN ran[r] + 1 ELSE ran[r]]
  PROVE  Safe'
<1> USE DEF Landed, Waiting, Gone
<1>1. Target \in [Sends -> Threads]
  BY SteerAssumption
<1>2. /\ queue \in [Threads -> Seq(Sends)] /\ transcript \in [Threads -> Seq(Sends)]
      /\ ran \in [Sends -> Nat] /\ steering \subseteq Sends
  BY DEF IInv, TypeOK, QueuesTyped, TurnsTyped, ClientsTyped
<1>3. /\ Target[s] \in Threads
      /\ ToSet(transcript'[Target[s]]) = ToSet(transcript[Target[s]]) \cup {s}
      /\ \A t \in Threads : t # Target[s] => transcript'[t] = transcript[t]
  <2>1. Target[s] \in Threads /\ transcript'[Target[s]] = Append(transcript[Target[s]], s)
    BY <1>1, <1>2
  <2>. QED BY <1>2, <2>1, AppendElements
<1>4. Homed'
  <2>1. ASSUME NEW t \in Threads, NEW r \in ToSet(transcript'[t]) PROVE Target[r] = t
    BY <1>3 DEF IInv, Homed
  <2>. QED BY <2>1 DEF IInv, Homed
<1>5. MemoryOnDisk' /\ CancelledHadReceipt'
  BY DEF IInv, MemoryOnDisk, CancelledHadReceipt
<1>6. HeldLanded'
  BY <1>3 DEF IInv, HeldLanded
<1>7. \A r \in Sends : Landed(r)' <=> Landed(r) \/ r = s
  <2>1. TAKE r \in Sends
  <2>2. CASE Target[r] = Target[s]
    BY <1>3, <2>2
  <2>3. CASE Target[r] # Target[s]
    BY <1>1, <1>3, <2>3
  <2>. QED BY <2>2, <2>3
<1>8. ScanLanded'
  <2>1. ASSUME scan.on, scan.at # None
        PROVE  \A i \in 1..Len(queue[scan.at]) : queue[scan.at][i] \in Sends
    BY <1>2, <2>1, ElementOfSeq DEF IInv, TypeOK, PassesTyped, Passes
  <2>. QED BY <1>7, <2>1 DEF IInv, ScanLanded
<1> HIDE DEF Landed
<1>9. SteeringFresh'
  BY <1>2, <1>7 DEF IInv, SteeringFresh
<1>10. RanLanded' /\ FiredOnce'
  <2>1. ASSUME NEW r \in Sends
        PROVE  /\ ran'[r] >= 1 => Landed(r)' /\ (Waiting(r)' => held'[Target[r]].on)
               /\ ran'[r] <= 1
    <3>1. CASE r = s
      BY <1>2, <1>7, <3>1 DEF IInv, RanLanded, FiredOnce
    <3>2. CASE r # s
      BY <1>2, <1>7, <3>2 DEF IInv, RanLanded, FiredOnce
    <3>. QED BY <3>1, <3>2
  <2>. QED BY <2>1 DEF RanLanded, FiredOnce
<1>13. NothingLost'
  <2>1. accepted \subseteq Sends
    BY DEF IInv, TypeOK, ClientsTyped
  <2>. QED BY <1>7, <2>1 DEF IInv, NothingLost
<1>11. OnceInTranscript'
  <2>1. IsInjective(transcript'[Target[s]])
    <3>1. /\ transcript[Target[s]] \in Seq(Sends) /\ IsInjective(transcript[Target[s]])
          /\ transcript'[Target[s]] = Append(transcript[Target[s]], s)
      BY <1>2, <1>3 DEF IInv, OnceInTranscript
    <3>2. s \notin ToSet(transcript[Target[s]])
      BY DEF Landed
    <3>. QED BY <3>1, <3>2, AppendKeepsDistinct
  <2>. QED BY <1>3, <2>1 DEF IInv, OnceInTranscript
<1>12. CancelledStaysGone'
  BY DEF IInv, CancelledStaysGone
<1>. QED
  BY <1>4, <1>5, <1>6, <1>8, <1>9, <1>10, <1>11, <1>12, <1>13 DEF Safe

\* Entries lose sends that have landed, are cancelled, or whose run is gone.
LEMMA EntriesShrinkStep ==
  ASSUME IInv, UNCHANGED <<transcript, ran, steering, accepted>>,
         \A t \in Threads : ToSet(queue'[t]) \subseteq ToSet(queue[t])
                            /\ IsInjective(queue'[t]),
         disk' = disk \/ disk'.queue = queue',
         ~scan'.on \/ scan'.at = None, tasks' \subseteq tasks,
         \A t \in Threads : held'[t].on => held'[t] = held[t] /\ queue'[t] = queue[t],
         \A t \in Threads : held[t].on /\ ~held'[t].on => ToSet(queue'[t]) = {},
         \A s \in Sends : Waiting(s) => \/ Waiting(s)' \/ Landed(s)
                                        \/ s \in cancelled' \/ Target[s] \notin tasks',
         cancelled \subseteq cancelled', cancelled' \subseteq accepted,
         \A s \in cancelled' : s \in cancelled
                               \/ (~Waiting(s)' /\ disk'.queue = queue')
  PROVE  Safe'
<1>1. Target \in [Sends -> Threads]
  BY SteerAssumption
<1>2. steering \subseteq Sends /\ accepted \subseteq Sends
  BY DEF IInv, TypeOK, ClientsTyped
<1>3. Homed' /\ OnceInTranscript' /\ CancelledHadReceipt' /\ FiredOnce'
  BY DEF IInv, Homed, OnceInTranscript, CancelledHadReceipt, FiredOnce
<1>4. MemoryOnDisk'
  BY DEF IInv, MemoryOnDisk
<1>5. ScanLanded'
  BY DEF ScanLanded
<1>6. HeldLanded'
  BY DEF IInv, HeldLanded
<1>7. \A s \in Sends : Waiting(s)' => Waiting(s)
  BY <1>1 DEF Waiting
<1>8. \A s : Landed(s)' <=> Landed(s)
  BY DEF Landed
<1>9. SteeringFresh'
  BY <1>2, <1>7, <1>8 DEF IInv, SteeringFresh
<1>10. RanLanded'
  <2>1. ASSUME NEW s \in Sends, ran'[s] >= 1, Waiting(s)' PROVE held'[Target[s]].on
    <3>1. held[Target[s]].on /\ Target[s] \in Threads
      BY <1>1, <1>7, <2>1 DEF IInv, RanLanded
    <3>2. ToSet(queue'[Target[s]]) # {}
      BY <2>1 DEF Waiting
    <3>. QED BY <3>1, <3>2
  <2>. QED BY <1>8, <2>1 DEF IInv, RanLanded
<1>11. NothingLost'
  <2>1. ASSUME NEW s \in accepted \ cancelled', ~Landed(s), ~Gone(Target[s])'
        PROVE  Waiting(s)' /\ s \in ToSet(disk'.queue[Target[s]])
    <3>1. Waiting(s)
      BY <2>1 DEF IInv, NothingLost, Gone
    <3>2. Waiting(s)'
      BY <1>2, <2>1, <3>1 DEF Gone
    <3>. QED BY <1>1, <1>2, <1>4, <3>2 DEF MemoryOnDisk, Waiting
  <2>. QED BY <1>8, <2>1 DEF NothingLost
<1>12. CancelledStaysGone'
  <2>1. ASSUME NEW s \in cancelled'
        PROVE  ~Waiting(s)' /\ s \notin ToSet(disk'.queue[Target[s]])
    <3>1. s \in Sends
      BY <1>2
    <3>2. CASE s \in cancelled
      BY <1>1, <1>7, <3>1, <3>2 DEF IInv, CancelledStaysGone, Waiting
    <3>3. CASE ~Waiting(s)' /\ disk'.queue = queue'
      BY <3>3 DEF Waiting
    <3>. QED BY <3>2, <3>3
  <2>. QED BY <2>1 DEF CancelledStaysGone
<1>. QED
  BY <1>3, <1>4, <1>5, <1>6, <1>9, <1>10, <1>11, <1>12 DEF Safe

\* A send whose steer() failed joins its entry, in memory and on disk.
LEMMA NewEntryStep ==
  ASSUME IInv, NEW s \in steering,
         UNCHANGED <<tasks, transcript, cancelled, scan, held, ran>>,
         \A t \in Threads : ~held[t].on, ~scan.on,
         queue' = [queue EXCEPT ![Target[s]] = Append(@, s)], disk'.queue = queue',
         steering' = steering \ {s}, accepted' \in {accepted, accepted \cup {s}}
  PROVE  Safe'
<1>1. Target \in [Sends -> Threads]
  BY SteerAssumption
<1>2. /\ queue \in [Threads -> Seq(Sends)] /\ ran \in [Sends -> Nat]
      /\ steering \subseteq Sends /\ accepted \subseteq Sends /\ s \in Sends
  BY DEF IInv, TypeOK, QueuesTyped, TurnsTyped, ClientsTyped
<1>3. /\ Target[s] \in Threads /\ queue[Target[s]] \in Seq(Sends)
      /\ queue'[Target[s]] = Append(queue[Target[s]], s)
      /\ \A t \in Threads : t # Target[s] => queue'[t] = queue[t]
  BY <1>1, <1>2
<1>4. ToSet(queue'[Target[s]]) = ToSet(queue[Target[s]]) \cup {s}
  BY <1>2, <1>3, AppendElements
<1>5. ~Landed(s) /\ ~Waiting(s) /\ s \notin accepted /\ s \notin cancelled
  BY DEF IInv, SteeringFresh, CancelledHadReceipt
<1>6. \A r \in Sends : Waiting(r)' <=> Waiting(r) \/ r = s
  <2>1. TAKE r \in Sends
  <2>2. CASE Target[r] = Target[s]
    BY <1>4, <2>2 DEF Waiting
  <2>3. CASE Target[r] # Target[s]
    BY <1>1, <1>3, <2>3 DEF Waiting
  <2>. QED BY <2>2, <2>3
<1>7. \A r : Landed(r)' <=> Landed(r)
  BY DEF Landed
<1>8. Homed'
  <2>1. ASSUME NEW t \in Threads, NEW r \in ToSet(queue'[t]) PROVE Target[r] = t
    BY <1>3, <1>4 DEF IInv, Homed
  <2>. QED BY <2>1 DEF IInv, Homed
<1>9. \A t \in Threads : IsInjective(queue'[t])
  <2>1. IsInjective(queue'[Target[s]])
    BY <1>2, <1>3, <1>5, AppendKeepsDistinct DEF IInv, MemoryOnDisk, Waiting
  <2>. QED BY <1>3, <2>1 DEF IInv, MemoryOnDisk
<1>10. MemoryOnDisk' /\ HeldLanded' /\ ScanLanded'
  BY <1>9 DEF MemoryOnDisk, HeldLanded, ScanLanded
<1>11. SteeringFresh' /\ CancelledHadReceipt'
  BY <1>2, <1>6, <1>7 DEF IInv, SteeringFresh, CancelledHadReceipt
<1>12. RanLanded'
  <2>1. ASSUME NEW r \in Sends, ran[r] >= 1 PROVE Landed(r) /\ ~Waiting(r)'
    BY <1>1, <1>5, <1>6, <2>1 DEF IInv, RanLanded
  <2>. QED BY <1>7, <2>1 DEF RanLanded
<1>13. NothingLost'
  BY <1>1, <1>2, <1>5, <1>6, <1>7 DEF IInv, NothingLost, Waiting, Gone
<1>14. CancelledStaysGone'
  BY <1>2, <1>5, <1>6 DEF IInv, CancelledStaysGone, CancelledHadReceipt, Waiting
<1>15. OnceInTranscript' /\ FiredOnce'
  BY DEF IInv, OnceInTranscript, FiredOnce
<1>. QED
  BY <1>8, <1>10, <1>11, <1>12, <1>13, <1>14, <1>15 DEF Safe

\* The next process starts from the file.
LEMMA RestartStep == IInv /\ Restart => Safe'
<1> SUFFICES ASSUME IInv, Restart PROVE Safe'
  OBVIOUS
<1> USE DEF Restart
<1>1. accepted \subseteq Sends /\ Target \in [Sends -> Threads]
  BY SteerAssumption DEF IInv, TypeOK, ClientsTyped
<1>2. Homed' /\ MemoryOnDisk' /\ OnceInTranscript' /\ CancelledHadReceipt'
  BY DEF IInv, Homed, MemoryOnDisk, OnceInTranscript, CancelledHadReceipt
<1>3. ScanLanded' /\ HeldLanded' /\ SteeringFresh'
  BY DEF ScanLanded, HeldLanded, SteeringFresh, Pass, NoPass
<1>4. RanLanded' /\ FiredOnce'
  BY DEF RanLanded, FiredOnce
<1>5. NothingLost'
  BY <1>1 DEF IInv, NothingLost, Landed, Waiting, Gone
<1>6. CancelledStaysGone'
  BY DEF IInv, CancelledStaysGone, Waiting
<1>. QED BY <1>2, <1>3, <1>4, <1>5, <1>6 DEF Safe

\* A pass takes an entry that no other pass awaits.
LEMMA TakeStep ==
  ASSUME IInv, NEW t \in Threads, DrainTake(t)
  PROVE  Safe'
<1>1. ScanLanded'
  <2>1. Visitable(t)
    BY DEF DrainTake, Upcoming
  <2>2. ~held[t].on
    BY <2>1 DEF Visitable, Draining
  <2>3. scan'.at = t /\ scan'.n = 1 /\ held' = held /\ queue' = queue
    BY DEF DrainTake
  <2>4. Len(queue[t]) \in Nat
    BY LenProperties DEF IInv, TypeOK, QueuesTyped
  <2>. QED BY <2>2, <2>3, <2>4 DEF ScanLanded
<1> USE DEF DrainTake, client, Landed, Waiting, Gone
<1>2. Homed' /\ MemoryOnDisk' /\ CancelledHadReceipt' /\ OnceInTranscript'
  BY DEF IInv, Homed, MemoryOnDisk, CancelledHadReceipt, OnceInTranscript
<1>3. HeldLanded' /\ RanLanded' /\ FiredOnce' /\ CancelledStaysGone'
  BY DEF IInv, HeldLanded, RanLanded, FiredOnce, CancelledStaysGone
<1>4. SteeringFresh' /\ NothingLost'
  BY DEF IInv, SteeringFresh, NothingLost
<1>. QED BY <1>1, <1>2, <1>3, <1>4 DEF Safe

\* The next send of the entry lands, unless its line is already there.
LEMMA AppendStep == IInv /\ DrainAppend => Safe'
<1> SUFFICES ASSUME IInv, DrainAppend PROVE Safe'
  OBVIOUS
<1>1. PICK t, s : t = scan.at /\ s = queue[scan.at][scan.n]
  OBVIOUS
<1>2. /\ UNCHANGED <<tasks, queue, disk, steering, accepted, cancelled, held, ran>>
      /\ scan.on /\ t # None /\ scan.n <= Len(queue[t])
      /\ transcript' = [transcript EXCEPT ![t] = IF Landed(s) THEN @ ELSE Append(@, s)]
      /\ scan' = [scan EXCEPT !.n = scan.n + 1]
  BY <1>1 DEF DrainAppend, client
<1>3. /\ t \in Threads /\ scan.n \in Nat \ {0} /\ scan'.at = t /\ scan'.n = scan.n + 1
      /\ transcript \in [Threads -> Seq(Sends)]
      /\ queue[t] \in Seq(Sends) /\ Len(queue[t]) \in Nat
  BY <1>1, <1>2, LenProperties
     DEF IInv, TypeOK, PassesTyped, Passes, QueuesTyped
<1>4. s \in Sends /\ s \in ToSet(queue[t]) /\ Target[s] = t
  <2>1. scan.n \in 1..Len(queue[t])
    BY <1>2, <1>3
  <2>2. s \in Sends /\ s \in ToSet(queue[t])
    BY <1>1, <1>3, <2>1, ElementOfSeq, ElementsOfSeq
  <2>. QED BY <1>3, <2>2 DEF IInv, Homed
<1>5. Waiting(s) /\ s \notin steering
  BY <1>4 DEF IInv, SteeringFresh, Waiting
<1>6. /\ transcript[t] \in Seq(Sends)
      /\ transcript'[t] = IF Landed(s) THEN transcript[t] ELSE Append(transcript[t], s)
      /\ \A u \in Threads : u # t => transcript'[u] = transcript[u]
  BY <1>2, <1>3
<1>7. /\ ToSet(transcript'[t]) = ToSet(transcript[t]) \cup {s}
      /\ IsInjective(transcript'[t])
  <2>1. IsInjective(transcript[t])
    BY <1>3 DEF IInv, OnceInTranscript
  <2>2. CASE Landed(s)
    BY <1>4, <1>6, <2>1, <2>2 DEF Landed
  <2>3. CASE ~Landed(s)
    BY <1>4, <1>6, <2>1, <2>3, AppendElements, AppendKeepsDistinct DEF Landed
  <2>. QED BY <2>2, <2>3
<1>8. \A r \in Sends : Landed(r)' <=> Landed(r) \/ r = s
  <2>1. TAKE r \in Sends
  <2>2. Target[r] \in Threads
    BY SteerAssumption
  <2>3. CASE Target[r] = t
    BY <1>2, <1>7, <2>3 DEF Landed
  <2>4. CASE Target[r] # t
    BY <1>4, <1>6, <2>2, <2>4 DEF Landed
  <2>. QED BY <2>3, <2>4
<1>9. Homed'
  <2>1. ASSUME NEW u \in Threads, NEW r \in ToSet(transcript'[u]) PROVE Target[r] = u
    BY <1>4, <1>6, <1>7 DEF IInv, Homed
  <2>. QED BY <1>2, <2>1 DEF IInv, Homed
<1>10. HeldLanded'
  BY <1>2, <1>6, <1>7 DEF IInv, HeldLanded
<1>11. ScanLanded'
  <2>1. ~held[t].on /\ \A i \in 1..Len(queue[t]) : i < scan.n => Landed(queue[t][i])
    BY <1>1, <1>2 DEF IInv, ScanLanded
  <2>2. ASSUME NEW i \in 1..Len(queue[t]), i < scan.n + 1 PROVE Landed(queue[t][i])'
    <3>1. queue[t][i] \in Sends
      BY <1>3, ElementOfSeq
    <3>2. i < scan.n \/ i = scan.n
      BY <1>3, <2>2
    <3>3. Landed(queue[t][i]) \/ queue[t][i] = s
      BY <1>1, <2>1, <3>2
    <3>. QED BY <1>2, <1>8, <3>1, <3>3 DEF Landed
  <2>. QED BY <1>2, <1>3, <2>1, <2>2 DEF ScanLanded
<1>12. MemoryOnDisk' /\ CancelledHadReceipt' /\ CancelledStaysGone' /\ FiredOnce'
  BY <1>2 DEF IInv, MemoryOnDisk, CancelledHadReceipt, CancelledStaysGone, FiredOnce,
              Waiting
<1>13. OnceInTranscript'
  BY <1>6, <1>7 DEF IInv, OnceInTranscript
<1>14. SteeringFresh' /\ NothingLost' /\ RanLanded'
  <2>1. steering \subseteq Sends /\ accepted \subseteq Sends
    BY DEF IInv, TypeOK, ClientsTyped
  <2>. QED BY <1>2, <1>5, <1>8, <2>1
           DEF IInv, SteeringFresh, NothingLost, RanLanded, Waiting, Gone
<1>. QED
  BY <1>9, <1>10, <1>11, <1>12, <1>13, <1>14 DEF Safe

\* The whole entry has landed: its turn starts, or the dispatch fails.
LEMMA RunStep == IInv /\ DrainRun => Safe'
<1> SUFFICES ASSUME IInv, DrainRun PROVE Safe'
  OBVIOUS
<1>1. PICK t : t = scan.at
  OBVIOUS
<1>2. /\ UNCHANGED <<tasks, queue, disk, transcript, steering, accepted, cancelled>>
      /\ scan.on /\ t # None /\ scan.n > Len(queue[t]) /\ scan' = NoScan
      /\ held' = [held EXCEPT ![t] = [on |-> TRUE, seen |-> scan.seen,
                                      items |-> queue[t]]]
      /\ \/ ran' = [s \in Sends |-> IF s \in ToSet(queue[t]) THEN ran[s] + 1 ELSE ran[s]]
         \/ ran' = ran
  BY <1>1 DEF DrainRun, TurnStarts, client
<1>3. /\ t \in Threads /\ queue[t] \in Seq(Sends) /\ Len(queue[t]) \in Nat
      /\ scan.n \in Nat /\ held \in [Threads -> Waiters] /\ ran \in [Sends -> Nat]
  BY <1>1, <1>2, LenProperties
     DEF IInv, TypeOK, PassesTyped, Passes, QueuesTyped, TurnsTyped
<1>4. /\ ~held[t].on /\ held'[t].on /\ held'[t].items = queue[t]
      /\ \A u \in Threads : u # t => held'[u] = held[u]
  BY <1>1, <1>2, <1>3 DEF IInv, ScanLanded
<1>5. \A s \in ToSet(queue[t]) : s \in Sends /\ Landed(s) /\ Waiting(s) /\ Target[s] = t
  <2>1. TAKE s \in ToSet(queue[t])
  <2>2. PICK i \in 1..Len(queue[t]) : queue[t][i] = s
    BY <1>3, ElementsOfSeq
  <2>3. i < scan.n
    BY <1>2, <1>3
  <2>4. Landed(s)
    BY <1>1, <1>2, <2>2, <2>3 DEF IInv, ScanLanded
  <2>5. s \in Sends /\ Target[s] = t
    BY <1>3, ElementsOfSeq DEF IInv, Homed
  <2>. QED BY <2>4, <2>5 DEF Waiting
<1>6. Homed' /\ MemoryOnDisk' /\ OnceInTranscript' /\ CancelledHadReceipt'
  BY <1>2 DEF IInv, Homed, MemoryOnDisk, OnceInTranscript, CancelledHadReceipt
<1>7. ScanLanded'
  BY <1>2 DEF ScanLanded, NoScan
<1>8. HeldLanded'
  <2>1. ToSet(queue[t]) \subseteq ToSet(transcript[t])
    BY <1>5 DEF Landed
  <2>. QED BY <1>2, <1>4, <2>1 DEF IInv, HeldLanded
<1>9. RanLanded' /\ FiredOnce'
  <2>1. ASSUME NEW s \in Sends
        PROVE  /\ ran'[s] >= 1 => Landed(s) /\ (Waiting(s) => held'[Target[s]].on)
               /\ ran'[s] <= 1
    <3>1. ran[s] \in Nat /\ ran[s] <= 1 /\ Target[s] \in Threads
      BY <1>3, SteerAssumption DEF IInv, FiredOnce
    <3>2. CASE s \in ToSet(queue[t])
      <4>1. ran[s] = 0
        BY <1>4, <1>5, <3>1, <3>2 DEF IInv, RanLanded
      <4>2. ran'[s] <= 1 /\ held'[Target[s]].on /\ Landed(s)
        BY <1>2, <1>4, <1>5, <3>1, <3>2, <4>1
      <4>. QED BY <4>2
    <3>3. CASE s \notin ToSet(queue[t])
      <4>1. ran'[s] = ran[s]
        BY <1>2, <3>3
      <4>2. held[Target[s]].on => held'[Target[s]].on
        BY <1>4, <3>1
      <4>. QED BY <3>1, <4>1, <4>2 DEF IInv, RanLanded
    <3>. QED BY <3>2, <3>3
  <2>. QED BY <1>2, <2>1 DEF RanLanded, FiredOnce, Landed, Waiting
<1>10. SteeringFresh' /\ NothingLost' /\ CancelledStaysGone'
  BY <1>2 DEF IInv, SteeringFresh, NothingLost, CancelledStaysGone, Landed, Waiting,
              Gone
<1>. QED BY <1>6, <1>7, <1>8, <1>9, <1>10 DEF Safe

\* The user takes one send back.
LEMMA CancelStep ==
  ASSUME IInv, NEW s \in Sends, Cancel(s)
  PROVE  Safe'
<1>1. /\ UNCHANGED <<tasks, transcript, steering, accepted, scan, held, ran>>
      /\ ~scan.on /\ Draining = {} /\ s \in accepted
  BY DEF Cancel, Cancellable, HttpMayRun, Free
<1>2. \A t \in Threads : ~held[t].on
  BY <1>1 DEF Draining
<1>3. CASE UNCHANGED <<queue, disk, cancelled>>
  BY <1>1, <1>3, QuietStep DEF IInv, Safe
<1>4. CASE EntryLoses(s) /\ cancelled' = cancelled \cup {s} /\ disk'.queue = queue'
  <2>1. Target \in [Sends -> Threads] /\ queue \in [Threads -> Seq(Sends)]
    BY SteerAssumption DEF IInv, TypeOK, QueuesTyped
  <2>2. PICK i \in 1..Len(queue[Target[s]]) :
          /\ queue[Target[s]][i] = s
          /\ queue' = [queue EXCEPT ![Target[s]] = RemoveAt(@, i)]
    <3>1. DOMAIN queue[Target[s]] = 1..Len(queue[Target[s]])
      BY <2>1, LenProperties
    <3>. QED BY <1>4, <3>1 DEF EntryLoses
  <2>3. /\ Target[s] \in Threads /\ queue[Target[s]] \in Seq(Sends)
        /\ queue'[Target[s]] = RemoveAt(queue[Target[s]], i)
        /\ \A t \in Threads : t # Target[s] => queue'[t] = queue[t]
    BY <2>1, <2>2
  <2>4. /\ ToSet(queue'[Target[s]]) \subseteq ToSet(queue[Target[s]])
        /\ \A r \in ToSet(queue[Target[s]]) : r # s => r \in ToSet(queue'[Target[s]])
        /\ IsInjective(queue'[Target[s]]) /\ s \notin ToSet(queue'[Target[s]])
    BY <2>2, <2>3, RemoveAtElements DEF IInv, MemoryOnDisk
  <2>5. \A t \in Threads : /\ ToSet(queue'[t]) \subseteq ToSet(queue[t])
                           /\ IsInjective(queue'[t])
    BY <2>3, <2>4 DEF IInv, MemoryOnDisk
  <2>6. ASSUME NEW r \in Sends, Waiting(r) PROVE Waiting(r)' \/ r \in cancelled'
    <3>1. Target[r] \in Threads
      BY <2>1
    <3>2. CASE Target[r] = Target[s]
      BY <1>4, <2>4, <2>6, <3>2 DEF Waiting
    <3>3. CASE Target[r] # Target[s]
      BY <2>3, <2>6, <3>1, <3>3 DEF Waiting
    <3>. QED BY <3>2, <3>3
  <2>7. ~Waiting(s)'
    BY <2>4 DEF Waiting
  <2>8. cancelled' \subseteq accepted
    BY <1>1, <1>4 DEF IInv, CancelledHadReceipt
  <2>. QED BY <1>1, <1>2, <1>4, <2>5, <2>6, <2>7, <2>8, EntriesShrinkStep
<1>. QED BY <1>3, <1>4 DEF Cancel, Saves, SaveFails

\* Whole entries go, by a discard or a drain.
LEMMA EntriesEmptied ==
  ASSUME IInv, NEW gone,
         queue' = [t \in Threads |-> IF t \in gone THEN <<>> ELSE queue[t]]
  PROVE  /\ \A t \in Threads : /\ ToSet(queue'[t]) \subseteq ToSet(queue[t])
                               /\ IsInjective(queue'[t])
                               /\ t \in gone => ToSet(queue'[t]) = {}
         /\ \A s \in Sends : Waiting(s) => Waiting(s)' \/ Target[s] \in gone
<1>1. IsInjective(<<>>)
  BY DEF IsInjective
<1>2. \A t \in Threads : queue'[t] = IF t \in gone THEN <<>> ELSE queue[t]
  OBVIOUS
<1>3. \A t \in Threads : IsInjective(queue[t])
  BY DEF IInv, MemoryOnDisk
<1>4. ASSUME NEW t \in Threads
      PROVE  /\ ToSet(queue'[t]) \subseteq ToSet(queue[t])
             /\ IsInjective(queue'[t])
             /\ t \in gone => ToSet(queue'[t]) = {}
  <2>1. CASE t \in gone
    BY <1>1, <1>2, <2>1, ElementsOfEmpty
  <2>2. CASE t \notin gone
    BY <1>2, <1>3, <2>2
  <2>. QED BY <2>1, <2>2
<1>5. \A s \in Sends : Waiting(s) => Waiting(s)' \/ Target[s] \in gone
  BY <1>2, SteerAssumption DEF Waiting
<1>. QED BY <1>4, <1>5

\* Deleting runs: their entries go with them, or stay because of a failed write.
LEMMA DiscardStep ==
  ASSUME IInv, NEW gone,
         UNCHANGED <<transcript, steering, accepted, cancelled, scan, held, ran>>,
         HttpMayRun, tasks' \subseteq tasks,
         \/ Discards(gone) /\ \A t \in gone : t \notin tasks'
         \/ DiscardFails(gone)
  PROVE  Safe'
<1>1. ~scan.on /\ \A t \in Threads : ~held[t].on
  BY DEF HttpMayRun, Free, Draining
<1>2. CASE UNCHANGED <<queue, disk>>
  BY <1>2, QuietStep DEF IInv, Safe
<1>3. CASE /\ queue' = [t \in Threads |-> IF t \in gone THEN <<>> ELSE queue[t]]
           /\ disk'.queue = queue' /\ \A t \in gone : t \notin tasks'
  <2>1. cancelled' \subseteq accepted
    BY DEF IInv, CancelledHadReceipt
  <2>. QED BY <1>1, <1>3, <2>1, EntriesEmptied, EntriesShrinkStep
<1>. QED BY <1>2, <1>3 DEF Discards, DiscardFails, Saves, SaveFails

\* A drain drops an entry whose run is gone or whose sends have landed.
LEMMA DropStep ==
  ASSUME IInv, NEW t \in Threads, NEW seen, DropEntry(t, seen),
         UNCHANGED <<tasks, transcript, steering, accepted, cancelled, ran>>,
         \/ held' = held /\ ~held[t].on /\ t \notin tasks
         \/ held[t].on /\ held' = [held EXCEPT ![t] = NoPass]
  PROVE  Safe'
<1>1. /\ queue' = [queue EXCEPT ![t] = <<>>] /\ (disk' = disk \/ disk'.queue = queue')
      /\ ~scan'.on \/ scan'.at = None
  <2>1. \/ Saves(queue', order') /\ scan' = Pass(seen)
        \/ SaveFails /\ scan' = NoScan
    BY DEF DropEntry
  <2>2. queue' = [queue EXCEPT ![t] = <<>>]
    BY DEF DropEntry
  <2>3. disk' = disk \/ disk'.queue = queue'
    BY <2>1 DEF Saves, SaveFails
  <2>4. ~scan'.on \/ scan'.at = None
    BY <2>1 DEF Pass, NoScan
  <2>. QED BY <2>2, <2>3, <2>4
<1>2. /\ queue' = [u \in Threads |-> IF u \in {t} THEN <<>> ELSE queue[u]]
      /\ held \in [Threads -> Waiters]
  BY <1>1 DEF IInv, TypeOK, QueuesTyped, PassesTyped
<1>3. cancelled' \subseteq accepted
  BY DEF IInv, CancelledHadReceipt
<1>4. /\ \A u \in Threads : held'[u].on => held'[u] = held[u] /\ u # t
      /\ \A u \in Threads : held[u].on /\ ~held'[u].on => u = t
  BY <1>2 DEF NoPass
<1>5. \A u \in Threads : u # t => queue'[u] = queue[u]
  BY <1>2
<1>6. \A s \in Sends : Waiting(s) => \/ Waiting(s)' \/ Landed(s)
                                     \/ s \in cancelled' \/ Target[s] \notin tasks'
  <2>1. ASSUME NEW s \in Sends, Waiting(s), Target[s] = t
        PROVE  Landed(s) \/ Target[s] \notin tasks'
    BY <2>1 DEF IInv, HeldLanded, Landed, Waiting
  <2>. QED BY <1>2, <2>1, EntriesEmptied
<1>7. /\ \A u \in Threads : /\ ToSet(queue'[u]) \subseteq ToSet(queue[u])
                            /\ IsInjective(queue'[u])
      /\ \A u \in Threads : held'[u].on => held'[u] = held[u] /\ queue'[u] = queue[u]
      /\ \A u \in Threads : held[u].on /\ ~held'[u].on => ToSet(queue'[u]) = {}
  BY <1>2, <1>4, <1>5, EntriesEmptied
<1>8. /\ \A s \in cancelled' : s \in cancelled
                               \/ (~Waiting(s)' /\ disk'.queue = queue')
      /\ cancelled \subseteq cancelled' /\ tasks' \subseteq tasks
  OBVIOUS
<1>. QED BY <1>1, <1>3, <1>6, <1>7, <1>8, EntriesShrinkStep

\* run() resolved.
LEMMA ResumeStep ==
  ASSUME IInv, NEW t \in Threads, DrainResume(t)
  PROVE  Safe'
<1>1. /\ UNCHANGED <<tasks, transcript, steering, accepted, cancelled, ran>>
      /\ held[t].on /\ held' = [held EXCEPT ![t] = NoPass]
  BY DEF DrainResume, client
<1>2. queue[t] \in Seq(Sends) /\ held[t].items = queue[t] /\ held \in [Threads -> Waiters]
  BY <1>1 DEF IInv, HeldLanded, TypeOK, QueuesTyped, PassesTyped
<1>3. CASE queue[t] # <<>>
  <2>1. IsPrefix(held[t].items, queue[t])
    BY <1>2, PrefixReflexive
  <2>2. DropEntry(t, held[t].seen)
    BY <1>3, <2>1 DEF DrainResume
  <2>. QED BY <1>1, <2>2, DropStep
<1>4. CASE queue[t] = <<>>
  <2>1. UNCHANGED <<queue, disk>> /\ scan'.at = None
    BY <1>4 DEF DrainResume, Pass
  <2>2. \A u \in Threads : /\ ToSet(queue'[u]) \subseteq ToSet(queue[u])
                           /\ IsInjective(queue'[u])
    BY <2>1 DEF IInv, MemoryOnDisk
  <2>3. /\ \A u \in Threads : held'[u].on => held'[u] = held[u] /\ queue'[u] = queue[u]
        /\ \A u \in Threads : held[u].on /\ ~held'[u].on => u = t
    BY <1>1, <1>2, <2>1 DEF NoPass
  <2>4. ToSet(queue'[t]) = {}
    BY <1>4, <2>1, ElementsOfEmpty
  <2>5. \A s \in Sends : Waiting(s) => \/ Waiting(s)' \/ Landed(s)
                                       \/ s \in cancelled' \/ Target[s] \notin tasks'
    BY <2>1 DEF Waiting
  <2>6. /\ cancelled \subseteq cancelled' /\ cancelled' \subseteq accepted
        /\ tasks' \subseteq tasks
        /\ \A s \in cancelled' : s \in cancelled
                                 \/ (~Waiting(s)' /\ disk'.queue = queue')
    BY <1>1 DEF IInv, CancelledHadReceipt
  <2>7. \A u \in Threads : held[u].on /\ ~held'[u].on => ToSet(queue'[u]) = {}
    BY <2>3, <2>4
  <2>. QED BY <1>1, <2>1, <2>2, <2>3, <2>5, <2>6, <2>7, EntriesShrinkStep
<1>. QED BY <1>3, <1>4
-----------------------------------------------------------------------------
\* Every step of the specification keeps the inductive invariant.
LEMMA SafeStep == IInv /\ [Next]_vars => Safe'
<1> SUFFICES ASSUME IInv, [Next]_vars PROVE Safe'
  OBVIOUS
<1>1. CASE UNCHANGED vars
  BY <1>1, QuietStep DEF IInv, Safe, vars
<1>2. ASSUME NEW s \in Sends, SendToIdle(s) PROVE Safe'
  <2>1. steering \ {s} = steering
    BY <1>2 DEF SendToIdle, NewSend
  <2>. QED BY <1>2, <2>1, NewLineStep DEF SendToIdle, NewSend, Receipt, TurnStarts
<1>3. ASSUME NEW s \in Sends, SteerRecorded(s) \/ SteerFallsToTurn(s) PROVE Safe'
  <2>1. s \in steering /\ ~Landed(s) /\ ~Waiting(s) /\ s \notin accepted
    BY <1>3 DEF IInv, SteeringFresh, SteerRecorded, SteerFallsToTurn, SteerAnswered
  <2>. QED BY <1>3, <2>1, NewLineStep
           DEF SteerRecorded, SteerFallsToTurn, SteerAnswered, Receipt, TurnStarts
<1>4. ASSUME NEW s \in Sends, SendToBusy(s) PROVE Safe'
  <2>1. ~Landed(s) /\ ~Waiting(s) /\ s \notin accepted
    BY <1>4 DEF SendToBusy, NewSend
  <2>2. SteeringFresh'
    BY <1>4, <2>1 DEF SendToBusy, IInv, SteeringFresh, Landed, Waiting
  <2>3. UNCHANGED <<tasks, queue, disk, transcript, accepted, cancelled, held, ran, scan>>
    BY <1>4 DEF SendToBusy
  <2>4. Homed' /\ MemoryOnDisk' /\ ScanLanded' /\ HeldLanded' /\ CancelledHadReceipt'
    BY <2>3 DEF IInv, Homed, MemoryOnDisk, ScanLanded, HeldLanded,
                CancelledHadReceipt, Landed
  <2>5. /\ RanLanded' /\ NothingLost' /\ OnceInTranscript' /\ CancelledStaysGone'
        /\ FiredOnce'
    BY <2>3 DEF IInv, RanLanded, NothingLost, OnceInTranscript, CancelledStaysGone,
                FiredOnce, Landed, Waiting, Gone
  <2>. QED BY <2>2, <2>4, <2>5 DEF Safe
<1>5. ASSUME NEW s \in Sends, Replay(s) PROVE Safe'
  <2>1. /\ UNCHANGED <<tasks, queue, disk, transcript, cancelled, held, ran, scan, steering>>
        /\ accepted' = accepted \cup {s} /\ s \notin steering
        /\ Landed(s) \/ Waiting(s)
    BY <1>5 DEF Replay
  <2>2. Target[s] \in Threads
    BY SteerAssumption
  <2>3. NothingLost'
    BY <2>1, <2>2 DEF IInv, NothingLost, MemoryOnDisk, Landed, Waiting, Gone
  <2>4. SteeringFresh'
    BY <2>1 DEF IInv, SteeringFresh, Landed, Waiting
  <2>5. Homed' /\ MemoryOnDisk' /\ ScanLanded' /\ HeldLanded' /\ CancelledHadReceipt'
    BY <2>1 DEF IInv, Homed, MemoryOnDisk, ScanLanded, HeldLanded,
                CancelledHadReceipt, Landed
  <2>6. RanLanded' /\ OnceInTranscript' /\ CancelledStaysGone' /\ FiredOnce'
    BY <2>1 DEF IInv, RanLanded, OnceInTranscript, CancelledStaysGone, FiredOnce,
                Landed, Waiting
  <2>. QED BY <2>3, <2>4, <2>5, <2>6 DEF Safe
<1>6. ASSUME NEW s \in Sends, SteerRefused(s) PROVE Safe'
  BY <1>6, QuietStep DEF IInv, Safe, SteerRefused, SteerAnswered
<1>7. ASSUME NEW s \in Sends, SteerFallsToQueue(s) PROVE Safe'
  <2>1. /\ UNCHANGED <<tasks, transcript, cancelled, scan, held, ran>>
        /\ s \in steering /\ steering' = steering \ {s} /\ HttpMayRun
    BY <1>7 DEF SteerFallsToQueue, SteerAnswered
  <2>2. ~scan.on /\ \A t \in Threads : ~held[t].on
    BY <2>1 DEF HttpMayRun, Free, Draining
  <2>3. CASE UNCHANGED <<queue, disk, accepted>>
    BY <2>1, <2>3, QuietStep DEF IInv, Safe
  <2>4. CASE /\ queue' = [queue EXCEPT ![Target[s]] = Append(@, s)]
             /\ disk'.queue = queue' /\ accepted' \in {accepted, accepted \cup {s}}
    BY <2>1, <2>2, <2>4, NewEntryStep
  <2>. QED BY <1>7, <2>3, <2>4 DEF SteerFallsToQueue, Saves, SaveFails, Receipt
<1>8. ASSUME NEW t \in Threads, DeleteTask(t) PROVE Safe'
  <2>1. tasks' = tasks \ {t} /\ (Discards({t}) \/ DiscardFails({t})) /\ HttpMayRun
    BY <1>8 DEF DeleteTask
  <2>2. UNCHANGED <<transcript, steering, accepted, cancelled, scan, held, ran>>
    BY <1>8 DEF DeleteTask, client
  <2>. QED BY <2>1, <2>2, DiscardStep
<1>9. ASSUME NEW b \in Bots, DeleteBot(b) PROVE Safe'
  <2>1. PICK own : own = {t \in Threads : Owner[t] = b}
    OBVIOUS
  <2>2. /\ HttpMayRun
        /\ \/ Discards(own) /\ tasks' = tasks \ own
           \/ DiscardFails(own) /\ tasks' = tasks
    BY <1>9, <2>1 DEF DeleteBot
  <2>3. UNCHANGED <<transcript, steering, accepted, cancelled, scan, held, ran>>
    BY <1>9 DEF DeleteBot, client
  <2>. QED BY <2>2, <2>3, DiscardStep
<1>10. ASSUME NEW b \in Bots,
             Settle(b) \/ SettleUnheard(b) \/ GateCloses(b)
      PROVE  Safe'
  BY <1>10, QuietStep DEF IInv, Safe, Settle, SettleUnheard, GateCloses, Pass, client
<1>11. ASSUME NEW b \in Bots, NEW t \in Threads, SwitchTask(b, t) \/ OtherTurn(b, t)
       PROVE  Safe'
  BY <1>11, QuietStep DEF IInv, Safe, SwitchTask, OtherTurn, client
<1>12. ASSUME NEW b \in Bots, NEW x \in Threads \cup {Gate}, SettleRetaken(b, x)
       PROVE  Safe'
  BY <1>12, QuietStep DEF IInv, Safe, SettleRetaken, Pass, client
<1>13. ASSUME ReloadProviders \/ DrainEnds PROVE Safe'
  BY <1>13, QuietStep DEF IInv, Safe, ReloadProviders, DrainEnds, Pass, NoScan, client
<1>14. ASSUME NEW t \in Threads, DrainOrphan(t) PROVE Safe'
  <2>1. /\ UNCHANGED <<tasks, transcript, steering, accepted, cancelled, ran, held>>
        /\ t \notin tasks /\ DropEntry(t, Passed(t)) /\ Visitable(t)
    BY <1>14 DEF DrainOrphan, Orphan, Upcoming, client
  <2>2. ~held[t].on
    BY <2>1 DEF Visitable, Draining
  <2>. QED BY <2>1, <2>2, DropStep
<1>. QED
  BY <1>1, <1>2, <1>3, <1>4, <1>5, <1>6, <1>7, <1>8, <1>9, <1>10, <1>11, <1>12,
     <1>13, <1>14, CancelStep, TakeStep, ResumeStep, AppendStep, RunStep, RestartStep
     DEF Next

\* The parts of IInv hold together in every reachable state.
THEOREM Inductive == Spec => []IInv
<1>1. Init => IInv
  <2>1. ASSUME Init PROVE TypeOK
    BY <2>1, EmptySeq, PassTypes, SteerAssumption
       DEF Init, TypeOK, TurnsTyped, QueuesTyped, ClientsTyped, PassesTyped, BoundsTyped
  <2>2. ASSUME Init PROVE Safe
    <3>1. IsInjective(<<>>) /\ ToSet(<<>>) = {}
      BY ElementsOfEmpty DEF IsInjective
    <3>2. Homed /\ MemoryOnDisk /\ OnceInTranscript
      BY <2>2, <3>1 DEF Init, Homed, MemoryOnDisk, OnceInTranscript
    <3>3. ScanLanded /\ HeldLanded /\ SteeringFresh
      BY <2>2 DEF Init, ScanLanded, HeldLanded, SteeringFresh, NoScan, NoPass
    <3>4. RanLanded /\ FiredOnce /\ NothingLost /\ CancelledStaysGone
          /\ CancelledHadReceipt
      BY <2>2 DEF Init, RanLanded, FiredOnce, NothingLost, CancelledStaysGone,
                  CancelledHadReceipt
    <3>. QED BY <3>2, <3>3, <3>4 DEF Safe
  <2>. QED BY <2>1, <2>2 DEF IInv, Safe
<1>2. IInv /\ [Next]_vars => IInv'
  <2>1. IInv /\ [Next]_vars => TypeOK'
    BY TurnsStep, QueuesStep, ClientsStep, PassesStep, BoundsStep DEF IInv, TypeOK
  <2>. QED BY <2>1, SafeStep DEF IInv, Safe
<1>. QED BY <1>1, <1>2, PTL DEF Spec

\* An accepted message is in the transcript, or waits in memory and on disk,
\* until it is cancelled or its run is deleted: queueSteeredMessage persists
\* before the 202, and drainSteeredMessages lands before it drops.
THEOREM NeverLost == Spec => []NothingLost
<1>1. IInv => NothingLost
  BY DEF IInv
<1>. QED BY <1>1, Inductive, PTL

\* No send has two lines: drainSteeredMessages looks its queueId up, and the
\* send route refuses a client id it has seen.
THEOREM LandsOnce == Spec => []OnceInTranscript
<1>1. IInv => OnceInTranscript
  BY DEF IInv
<1>. QED BY <1>1, Inductive, PTL

\* drainSteeredMessages starts at most one turn with a send in one process life.
THEOREM FiresOnce == Spec => []FiredOnce
<1>1. IInv => FiredOnce
  BY DEF IInv
<1>. QED BY <1>1, Inductive, PTL

\* cancelSteeredMessage persists before it answers: no drain finds the send.
THEOREM StaysCancelled == Spec => []CancelledStaysGone
<1>1. IInv => CancelledStaysGone
  BY DEF IInv
<1>. QED BY <1>1, Inductive, PTL
-----------------------------------------------------------------------------
(* Order: the lines of an entry that have landed are in its order, whatever  *)
(* part of it a crashed drain had appended.                                  *)

\* The elements of q that are in x are in x in the order of q, after all before them.
Ordered(q, x) == \A i, j \in 1..Len(q) : i < j /\ q[j] \in ToSet(x) =>
  \E k, l \in 1..Len(x) : k < l /\ x[k] = q[i] /\ x[l] = q[j]

\* An entry of memory is as the file has it, or was dropped and the write failed.
Mirrored  == \A t \in Threads : queue[t] = <<>> \/ queue[t] = disk.queue[t]
FileLands == \A t \in Threads : Ordered(disk.queue[t], transcript[t])
\* What only the file still has has landed, or its run is gone.
Accounted == \A t \in tasks : ToSet(disk.queue[t]) \subseteq ToSet(queue[t]) \cup ToSet(transcript[t])
InOrder == Mirrored /\ FileLands /\ Accounted

\* Nothing of the element at the end has landed.
LEMMA OrderedAppend ==
  ASSUME NEW S, NEW q \in Seq(S), NEW x \in Seq(S), NEW e \in S, Ordered(q, x), e \notin ToSet(x)
  PROVE  Ordered(Append(q, e), x)
<1>1. PICK r : r = Append(q, e)
  OBVIOUS
<1>2. /\ Len(r) = Len(q) + 1 /\ \A i \in 1..Len(q) : r[i] = q[i]
      /\ r[Len(q) + 1] = e /\ Len(q) \in Nat
  BY <1>1, AppendProperties, LenProperties
<1>3. ASSUME NEW i \in 1..Len(r), NEW j \in 1..Len(r), i < j, r[j] \in ToSet(x)
      PROVE  \E k, l \in 1..Len(x) : k < l /\ x[k] = r[i] /\ x[l] = r[j]
  <2>1. i \in 1..Len(q) /\ j \in 1..Len(q)
    <3>1. j # Len(q) + 1
      BY <1>2, <1>3
    <3>. QED BY <1>2, <1>3, <3>1
  <2>2. r[i] = q[i] /\ r[j] = q[j]
    BY <1>2, <2>1
  <2>. QED BY <1>3, <2>1, <2>2 DEF Ordered
<1>4. Ordered(r, x)
  BY <1>3 DEF Ordered
<1>. QED BY <1>1, <1>4

\* What is left of an entry keeps its order.
LEMMA OrderedRemove ==
  ASSUME NEW S, NEW q \in Seq(S), NEW x, NEW i \in 1..Len(q), Ordered(q, x)
  PROVE  Ordered(RemoveAt(q, i), x)
<1>1. PICK r : r = RemoveAt(q, i)
  OBVIOUS
<1>2. PICK n \in Nat : n = Len(q)
  BY LenProperties
<1>3. /\ Len(r) = n - 1
      /\ \A j \in 1..(n - 1) : j < i => r[j] = q[j]
      /\ \A j \in 1..(n - 1) : j >= i => r[j] = q[j + 1]
  BY <1>1, <1>2, RemoveAtPositions
<1>4. ASSUME NEW a \in 1..Len(r), NEW b \in 1..Len(r), a < b, r[b] \in ToSet(x)
      PROVE  \E k, l \in 1..Len(x) : k < l /\ x[k] = r[a] /\ x[l] = r[b]
  <2>1. PICK c \in 1..n : r[a] = q[c] /\ c = IF a < i THEN a ELSE a + 1
    BY <1>2, <1>3
  <2>2. PICK d \in 1..n : r[b] = q[d] /\ d = IF b < i THEN b ELSE b + 1
    BY <1>2, <1>3
  <2>3. c < d
    BY <1>2, <1>3, <1>4, <2>1, <2>2
  <2>4. c \in 1..Len(q) /\ d \in 1..Len(q) /\ q[d] \in ToSet(x)
    BY <1>2, <1>4, <2>1, <2>2
  <2>5. PICK k \in 1..Len(x), l \in 1..Len(x) : k < l /\ x[k] = q[c] /\ x[l] = q[d]
    BY <2>3, <2>4 DEF Ordered
  <2>. QED BY <2>1, <2>2, <2>5
<1>5. Ordered(r, x)
  BY <1>4 DEF Ordered
<1>. QED BY <1>1, <1>5

\* A line that is not the entry's changes nothing of its order.
LEMMA OrderedBeside ==
  ASSUME NEW S, NEW q \in Seq(S), NEW x \in Seq(S), NEW e \in S, Ordered(q, x), e \notin ToSet(q)
  PROVE  Ordered(q, Append(x, e))
<1>1. PICK y : y = Append(x, e)
  OBVIOUS
<1>2. /\ Len(y) = Len(x) + 1 /\ \A k \in 1..Len(x) : y[k] = x[k]
      /\ ToSet(y) = ToSet(x) \cup {e} /\ Len(x) \in Nat
  BY <1>1, AppendProperties, AppendElements, LenProperties
<1>3. ASSUME NEW i \in 1..Len(q), NEW j \in 1..Len(q), i < j, q[j] \in ToSet(y)
      PROVE  \E k, l \in 1..Len(y) : k < l /\ y[k] = q[i] /\ y[l] = q[j]
  <2>1. q[j] \in ToSet(q)
    BY ElementsOfSeq
  <2>2. PICK k \in 1..Len(x), l \in 1..Len(x) : k < l /\ x[k] = q[i] /\ x[l] = q[j]
    BY <1>2, <1>3, <2>1 DEF Ordered
  <2>3. k \in 1..Len(y) /\ l \in 1..Len(y) /\ y[k] = x[k] /\ y[l] = x[l]
    BY <1>2
  <2>. QED BY <2>2, <2>3
<1>. QED BY <1>1, <1>3 DEF Ordered

\* The next line of an entry whose lines before it have landed.
LEMMA OrderedNext ==
  ASSUME NEW S, NEW q \in Seq(S), NEW x \in Seq(S), NEW n \in 1..Len(q), Ordered(q, x),
         IsInjective(q), \A i \in 1..Len(q) : i < n => q[i] \in ToSet(x)
  PROVE  Ordered(q, Append(x, q[n]))
<1>1. PICK y : y = Append(x, q[n])
  OBVIOUS
<1>2. /\ Len(y) = Len(x) + 1 /\ \A k \in 1..Len(x) : y[k] = x[k]
      /\ y[Len(x) + 1] = q[n]
      /\ ToSet(y) = ToSet(x) \cup {q[n]} /\ Len(x) \in Nat
  <2>1. q[n] \in S
    BY ElementOfSeq
  <2>. QED BY <1>1, <2>1, AppendProperties, AppendElements, LenProperties
<1>3. ASSUME NEW i \in 1..Len(q), NEW j \in 1..Len(q), i < j, q[j] \in ToSet(y)
      PROVE  \E k, l \in 1..Len(y) : k < l /\ y[k] = q[i] /\ y[l] = q[j]
  <2>1. CASE q[j] \in ToSet(x)
    <3>1. PICK k \in 1..Len(x), l \in 1..Len(x) : k < l /\ x[k] = q[i] /\ x[l] = q[j]
      BY <1>3, <2>1 DEF Ordered
    <3>2. k \in 1..Len(y) /\ l \in 1..Len(y) /\ y[k] = x[k] /\ y[l] = x[l]
      BY <1>2
    <3>. QED BY <3>1, <3>2
  <2>2. CASE q[j] = q[n]
    <3>1. j = n
      <4>1. DOMAIN q = 1..Len(q)
        BY ElementsOfSeq
      <4>. QED BY <2>2, <4>1 DEF IsInjective
    <3>2. q[i] \in ToSet(x)
      BY <1>3, <3>1
    <3>3. PICK k \in 1..Len(x) : x[k] = q[i]
      BY <3>2, ElementsOfSeq
    <3>4. k \in 1..Len(y) /\ Len(x) + 1 \in 1..Len(y) /\ k < Len(x) + 1
      BY <1>2
    <3>. QED BY <1>2, <2>2, <3>3, <3>4
  <2>. QED BY <1>2, <1>3, <2>1, <2>2
<1>. QED BY <1>1, <1>3 DEF Ordered

\* What IInv says of the sequences.
LEMMA EntryTypes ==
  ASSUME IInv
  PROVE  /\ \A t \in Threads : /\ queue[t] \in Seq(Sends) /\ disk.queue[t] \in Seq(Sends)
                               /\ transcript[t] \in Seq(Sends)
                               /\ IsInjective(queue[t]) /\ IsInjective(disk.queue[t])
         /\ queue \in [Threads -> Seq(Sends)] /\ transcript \in [Threads -> Seq(Sends)]
         /\ Target \in [Sends -> Threads] /\ tasks \subseteq Threads
  BY SteerAssumption DEF IInv, TypeOK, QueuesTyped, TurnsTyped, MemoryOnDisk

\* An entry of memory is in order, since the file's is.
LEMMA MemoryLands ==
  ASSUME IInv, InOrder, NEW t \in Threads
  PROVE  Ordered(queue[t], transcript[t])
<1>1. Ordered(<<>>, transcript[t])
  BY LenProperties, EmptySeq DEF Ordered
<1>. QED BY <1>1 DEF InOrder, Mirrored, FileLands

\* A step that leaves entries and lines alone.
LEMMA OrderQuiet ==
  ASSUME InOrder, UNCHANGED <<queue, disk, transcript>>, tasks' \subseteq tasks
  PROVE  InOrder'
<1>1. Mirrored' /\ FileLands'
  <2>1. Mirrored'
    BY DEF InOrder, Mirrored
  <2>2. ASSUME NEW t \in Threads PROVE Ordered(disk.queue[t], transcript[t])'
    <3>1. Ordered(disk'.queue[t], transcript'[t])
      BY DEF InOrder, FileLands
    <3>. QED BY <3>1, Zenon DEF Ordered
  <2>3. FileLands'
    BY <2>2 DEF FileLands
  <2>. QED BY <2>1, <2>3
<1>2. Accounted'
  BY DEF InOrder, Accounted
<1>. QED BY <1>1, <1>2 DEF InOrder

\* A step that writes the file.
LEMMA OrderSaved ==
  ASSUME transcript' = transcript, disk'.queue = queue', TypeOK',
         \A t \in Threads : Ordered(queue'[t], transcript[t])
  PROVE  InOrder'
<1>1. Mirrored' /\ FileLands'
  <2>1. ASSUME NEW u \in Threads PROVE Ordered(disk.queue[u], transcript[u])'
    <3>1. Ordered(disk'.queue[u], transcript'[u])
      OBVIOUS
    <3>. QED BY <3>1, Zenon DEF Ordered
  <2>2. FileLands'
    BY <2>1 DEF FileLands
  <2>. QED BY <2>2 DEF Mirrored
<1>2. Accounted'
  BY DEF Accounted
<1>. QED BY <1>1, <1>2 DEF InOrder

\* A line of a send that no entry has.
LEMMA OrderNewLine ==
  ASSUME IInv, InOrder, NEW s \in Sends, Addressable(s), ~Landed(s), ~Waiting(s),
         transcript' = [transcript EXCEPT ![Target[s]] = Append(@, s)],
         UNCHANGED <<tasks, queue, disk>>
  PROVE  InOrder'
<1>1. PICK t \in Threads : t = Target[s]
  BY EntryTypes
<1>2. t \in tasks /\ s \notin ToSet(disk.queue[t])
  BY <1>1 DEF Addressable, InOrder, Accounted, Landed, Waiting
<1>3. /\ transcript'[t] = Append(transcript[t], s)
      /\ \A u \in Threads : u # t => transcript'[u] = transcript[u]
      /\ ToSet(transcript'[t]) = ToSet(transcript[t]) \cup {s}
  <2>1. /\ transcript'[t] = Append(transcript[t], s)
        /\ \A u \in Threads : u # t => transcript'[u] = transcript[u]
    BY <1>1, EntryTypes
  <2>. QED BY <2>1, EntryTypes, AppendElements
<1>4. Ordered(disk.queue[t], Append(transcript[t], s))
  BY <1>2, EntryTypes, OrderedBeside DEF InOrder, FileLands
<1>5. \A u \in Threads : Ordered(disk.queue[u], transcript'[u])
  BY <1>3, <1>4 DEF InOrder, FileLands
<1>6. FileLands' /\ Mirrored'
  <2>1. ASSUME NEW u \in Threads PROVE Ordered(disk.queue[u], transcript[u])'
    <3>1. Ordered(disk'.queue[u], transcript'[u])
      BY <1>5
    <3>. QED BY <3>1, Zenon DEF Ordered
  <2>2. FileLands'
    BY <2>1 DEF FileLands
  <2>. QED BY <2>2 DEF InOrder, Mirrored
<1>7. Accounted'
  BY <1>3, EntryTypes DEF InOrder, Accounted
<1>. QED BY <1>6, <1>7 DEF InOrder

\* The drain appends the next line of the entry it has taken, if it is not there.
LEMMA OrderAppend == IInv /\ InOrder /\ DrainAppend => InOrder'
<1> SUFFICES ASSUME IInv, InOrder, DrainAppend PROVE InOrder'
  OBVIOUS
<1>1. PICK t, s : t = scan.at /\ s = queue[scan.at][scan.n]
  OBVIOUS
<1>2. /\ UNCHANGED <<tasks, queue, disk>> /\ scan.on /\ t # None /\ scan.n <= Len(queue[t])
      /\ transcript' = [transcript EXCEPT ![t] = IF Landed(s) THEN @ ELSE Append(@, s)]
  BY <1>1 DEF DrainAppend, client
<1>3. t \in Threads /\ scan.n \in 1..Len(queue[t]) /\ Len(queue[t]) \in Nat
  <2>1. t \in Threads /\ scan.n \in Nat \ {0}
    BY <1>1, <1>2 DEF IInv, TypeOK, PassesTyped, Passes
  <2>2. Len(queue[t]) \in Nat
    BY <2>1, EntryTypes, LenProperties
  <2>. QED BY <1>2, <2>1, <2>2
<1>4. s \in Sends /\ s \in ToSet(queue[t]) /\ Target[s] = t
  <2>1. s \in Sends /\ s \in ToSet(queue[t])
    BY <1>1, <1>3, EntryTypes, ElementOfSeq, ElementsOfSeq
  <2>. QED BY <1>3, <2>1 DEF IInv, Homed
<1>5. CASE Landed(s)
  <2>1. transcript' = transcript
    BY <1>2, <1>3, <1>5, EntryTypes
  <2>. QED BY <1>2, <2>1, OrderQuiet
<1>6. CASE ~Landed(s)
  <2>1. /\ transcript'[t] = Append(transcript[t], s)
        /\ \A u \in Threads : u # t => transcript'[u] = transcript[u]
    BY <1>2, <1>3, <1>6, EntryTypes
  <2>2. ToSet(transcript'[t]) = ToSet(transcript[t]) \cup {s}
    BY <1>3, <1>4, <2>1, EntryTypes, AppendElements
  <2>3. \A i \in 1..Len(queue[t]) : i < scan.n => queue[t][i] \in ToSet(transcript[t])
    <3>1. TAKE i \in 1..Len(queue[t])
    <3>2. HAVE i < scan.n
    <3>3. Landed(queue[t][i])
      BY <1>1, <1>2, <3>2 DEF IInv, ScanLanded
    <3>4. queue[t][i] \in ToSet(queue[t])
      BY <1>3, EntryTypes, ElementsOfSeq
    <3>. QED BY <1>3, <3>3, <3>4 DEF Landed, IInv, Homed
  <2>4. queue[t] # <<>>
    BY <1>3, EmptySeq
  <2>5. disk.queue[t] = queue[t]
    BY <1>3, <2>4 DEF InOrder, Mirrored
  <2>6. Ordered(queue[t], Append(transcript[t], queue[t][scan.n]))
    BY <1>3, <2>3, EntryTypes, MemoryLands, OrderedNext
  <2>7. \A u \in Threads : Ordered(disk.queue[u], transcript'[u])
    BY <1>1, <2>1, <2>5, <2>6 DEF InOrder, FileLands
  <2>8. FileLands' /\ Mirrored'
    <3>1. FileLands'
      <4>1. ASSUME NEW u \in Threads PROVE Ordered(disk.queue[u], transcript[u])'
        <5>1. Ordered(disk'.queue[u], transcript'[u])
          BY <1>2, <2>7
        <5>. QED BY <5>1, Zenon DEF Ordered
      <4>. QED BY <4>1 DEF FileLands
    <3>2. Mirrored'
      BY <1>2 DEF InOrder, Mirrored
    <3>. QED BY <3>1, <3>2
  <2>9. Accounted'
    BY <1>2, <2>1, <2>2, EntryTypes DEF InOrder, Accounted
  <2>. QED BY <2>8, <2>9 DEF InOrder
<1>. QED BY <1>5, <1>6

\* An entry leaves the map, of a run that is gone or landed whole: the write may fail.
LEMMA OrderDrop ==
  ASSUME IInv, InOrder, TypeOK', NEW t \in Threads, NEW seen, DropEntry(t, seen),
         UNCHANGED <<tasks, transcript>>,
         t \notin tasks \/ ToSet(queue[t]) \subseteq ToSet(transcript[t])
  PROVE  InOrder'
<1>1. /\ queue'[t] = <<>> /\ \A u \in Threads : u # t => queue'[u] = queue[u]
  BY EntryTypes DEF DropEntry
<1>2. Ordered(<<>>, transcript[t])
  BY EmptySeq DEF Ordered
<1>3. CASE disk'.queue = queue'
  BY <1>1, <1>2, <1>3, MemoryLands, OrderSaved
<1>4. CASE disk' = disk
  <2>1. Mirrored' /\ FileLands'
    BY <1>1, <1>4 DEF InOrder, Mirrored, FileLands, Ordered
  <2>2. Accounted'
    BY <1>1, <1>4, EntryTypes DEF InOrder, Accounted
  <2>. QED BY <2>1, <2>2 DEF InOrder
<1>5. Saves(queue', order') \/ SaveFails
  BY DEF DropEntry
<1>. QED BY <1>3, <1>4, <1>5 DEF Saves, SaveFails

\* A deletion empties entries.
LEMMA OrderDiscard ==
  ASSUME IInv, InOrder, TypeOK', NEW gone, Discards(gone) \/ DiscardFails(gone),
         transcript' = transcript, tasks' \subseteq tasks
  PROVE  InOrder'
<1>1. CASE queue' = queue /\ disk' = disk
  BY <1>1, OrderQuiet
<1>2. CASE /\ queue' = [t \in Threads |-> IF t \in gone THEN <<>> ELSE queue[t]]
           /\ disk'.queue = queue'
  <2>1. ASSUME NEW t \in Threads PROVE Ordered(queue'[t], transcript[t])
    <3>1. Ordered(<<>>, transcript[t])
      BY EmptySeq DEF Ordered
    <3>. QED BY <1>2, <3>1, MemoryLands
  <2>. QED BY <1>2, <2>1, OrderSaved
<1>. QED BY <1>1, <1>2 DEF Discards, DiscardFails, Saves, SaveFails

\* One send joins an entry, or leaves it.
LEMMA OrderEntry ==
  ASSUME IInv, InOrder, TypeOK', NEW s \in Sends, SteerFallsToQueue(s) \/ Cancel(s)
  PROVE  InOrder'
<1>1. PICK t \in Threads : t = Target[s]
  BY EntryTypes
<1>2. UNCHANGED <<tasks, transcript>>
  BY DEF SteerFallsToQueue, Cancel
<1>3. CASE queue' = queue /\ disk' = disk
  BY <1>2, <1>3, OrderQuiet
<1>4. ASSUME NEW q, queue' = [queue EXCEPT ![t] = q], Ordered(q, transcript[t]), disk'.queue = queue'
      PROVE  InOrder'
  <2>1. \A u \in Threads : Ordered(queue'[u], transcript[u])
    BY <1>4, EntryTypes, MemoryLands
  <2>. QED BY <1>2, <1>4, <2>1, OrderSaved
<1>5. CASE /\ SteerFallsToQueue(s) /\ queue' = [queue EXCEPT ![t] = Append(@, s)]
           /\ disk'.queue = queue'
  <2>1. s \notin ToSet(transcript[t])
    BY <1>1, <1>5 DEF SteerFallsToQueue, SteerAnswered, IInv, SteeringFresh, Landed
  <2>2. Ordered(Append(queue[t], s), transcript[t])
    BY <2>1, EntryTypes, MemoryLands, OrderedAppend
  <2>. QED BY <1>4, <1>5, <2>2
<1>6. CASE EntryLoses(s) /\ disk'.queue = queue'
  <2>1. PICK i \in 1..Len(queue[t]) : queue' = [queue EXCEPT ![t] = RemoveAt(@, i)]
    <3>1. DOMAIN queue[t] = 1..Len(queue[t])
      BY EntryTypes, ElementsOfSeq
    <3>. QED BY <1>1, <1>6, <3>1 DEF EntryLoses
  <2>2. Ordered(RemoveAt(queue[t], i), transcript[t])
    BY EntryTypes, MemoryLands, OrderedRemove
  <2>. QED BY <1>4, <1>6, <2>1, <2>2
<1>. QED BY <1>1, <1>3, <1>5, <1>6 DEF SteerFallsToQueue, Cancel, Saves, SaveFails

LEMMA OrderStep == IInv /\ TypeOK' /\ InOrder /\ [Next]_vars => InOrder'
<1> SUFFICES ASSUME IInv, TypeOK', InOrder, [Next]_vars PROVE InOrder'
  OBVIOUS
<1>1. ASSUME NEW s \in Sends, SendToIdle(s) \/ SteerRecorded(s) \/ SteerFallsToTurn(s) PROVE InOrder'
  <2>1. ~Landed(s) /\ ~Waiting(s) /\ Addressable(s)
    BY <1>1 DEF SendToIdle, NewSend, SteerRecorded, SteerFallsToTurn, SteerAnswered, IInv, SteeringFresh
  <2>. QED BY <1>1, <2>1, OrderNewLine DEF SendToIdle, SteerRecorded, SteerFallsToTurn
<1>2. ASSUME NEW s \in Sends, SendToBusy(s) \/ Replay(s) \/ SteerRefused(s) PROVE InOrder'
  BY <1>2, OrderQuiet DEF SendToBusy, Replay, SteerRefused
<1>3. ASSUME NEW s \in Sends, SteerFallsToQueue(s) \/ Cancel(s) PROVE InOrder'
  BY <1>3, OrderEntry
<1>4. ASSUME NEW t \in Threads, DeleteTask(t) PROVE InOrder'
  BY <1>4, OrderDiscard DEF DeleteTask
<1>5. ASSUME NEW b \in Bots, DeleteBot(b) PROVE InOrder'
  <2>1. PICK own : own = {t \in Threads : Owner[t] = b}
    OBVIOUS
  <2>2. (Discards(own) \/ DiscardFails(own)) /\ tasks' \subseteq tasks /\ transcript' = transcript
    BY <1>5, <2>1 DEF DeleteBot
  <2>. QED BY <2>2, OrderDiscard
<1>6. ASSUME NEW b \in Bots, NEW x,
             \/ Settle(b) \/ SettleUnheard(b) \/ GateCloses(b) \/ SwitchTask(b, x)
             \/ OtherTurn(b, x) \/ SettleRetaken(b, x)
      PROVE  InOrder'
  BY <1>6, OrderQuiet DEF Settle, SettleUnheard, GateCloses, SwitchTask, OtherTurn, SettleRetaken
<1>7. CASE ReloadProviders \/ DrainEnds \/ DrainRun \/ UNCHANGED vars
  BY <1>7, OrderQuiet DEF ReloadProviders, DrainEnds, DrainRun, vars
<1>8. CASE Restart
  <2>1. queue' = disk'.queue /\ UNCHANGED <<disk, transcript, tasks>>
    BY <1>8 DEF Restart
  <2>. QED BY <2>1, OrderSaved DEF InOrder, FileLands
<1>9. ASSUME NEW t \in Threads, DrainOrphan(t) PROVE InOrder'
  BY <1>9, OrderDrop DEF DrainOrphan, Orphan
<1>10. ASSUME NEW t \in Threads, DrainTake(t) PROVE InOrder'
  BY <1>10, OrderQuiet DEF DrainTake
<1>11. ASSUME NEW t \in Threads, DrainResume(t) PROVE InOrder'
  <2>1. UNCHANGED <<tasks, transcript>> /\ ToSet(queue[t]) \subseteq ToSet(transcript[t])
    BY <1>11 DEF DrainResume, IInv, HeldLanded
  <2>2. CASE DropEntry(t, held[t].seen)
    BY <2>1, <2>2, OrderDrop
  <2>3. CASE UNCHANGED <<queue, disk>>
    BY <2>1, <2>3, OrderQuiet
  <2>. QED BY <1>11, <2>2, <2>3 DEF DrainResume
<1>. QED BY <1>1, <1>2, <1>3, <1>4, <1>5, <1>6, <1>7, <1>8, <1>9, <1>10, <1>11, OrderAppend DEF Next

\* Queued messages land in the order they were accepted, whatever part of the entry a
\* crashed drain had appended (drainSteeredMessages goes through the entry from its
\* start and skips what has landed).
THEOREM LandInOrder == Spec => []LandsInOrder
<1>1. Init => InOrder
  <2> SUFFICES ASSUME Init PROVE InOrder
    OBVIOUS
  <2>1. \A t \in Threads : queue[t] = <<>> /\ disk.queue[t] = <<>> /\ transcript[t] = <<>>
    BY DEF Init
  <2>2. Ordered(<<>>, <<>>)
    BY EmptySeq DEF Ordered
  <2>. QED BY <2>1, <2>2, ElementsOfEmpty DEF InOrder, Mirrored, FileLands, Accounted, Init
<1>2. IInv /\ IInv' /\ InOrder /\ [Next]_vars => InOrder'
  BY OrderStep DEF IInv
<1>3. IInv /\ InOrder => LandsInOrder
  <2> SUFFICES ASSUME IInv, InOrder, NEW t \in tasks, NEW i \in DOMAIN queue[t],
                      NEW j \in DOMAIN queue[t], i < j, Landed(queue[t][j])
               PROVE  \E k, l \in DOMAIN transcript[t] :
                        k < l /\ transcript[t][k] = queue[t][i] /\ transcript[t][l] = queue[t][j]
    BY DEF LandsInOrder
  <2>1. t \in Threads
    BY EntryTypes
  <2>2. DOMAIN queue[t] = 1..Len(queue[t]) /\ DOMAIN transcript[t] = 1..Len(transcript[t])
    BY <2>1, EntryTypes, ElementsOfSeq
  <2>3. queue[t][j] \in ToSet(queue[t])
    BY <2>1, <2>2, EntryTypes, ElementsOfSeq
  <2>4. queue[t][j] \in ToSet(transcript[t])
    BY <2>1, <2>3 DEF Landed, IInv, Homed
  <2>. QED BY <2>1, <2>2, <2>4, MemoryLands DEF Ordered
<1>. QED BY <1>1, <1>2, <1>3, Inductive, PTL DEF Spec
-----------------------------------------------------------------------------
\* A set of naturals has a least element: by it, what recursion computes is proved.
LEMMA LeastNatural ==
  ASSUME NEW T, T \subseteq Nat, T # {}
  PROVE  \E m \in T : \A k \in T : m <= k
<1>1. PICK R : R = OpToRel(<, Nat)
  OBVIOUS
<1>2. R = {ss \in Nat \X Nat : ss[1] < ss[2]}
  BY <1>1 DEF OpToRel
<1>3. IsWellFoundedOn(R, Nat)
  BY <1>1, NatLessThanWellFounded
<1>4. PICK x \in T : \A y \in T : ~(<<y, x>> \in R)
  BY <1>3, WFMin
<1>5. ASSUME NEW k \in T PROVE x <= k
  <2>1. x \in Nat /\ k \in Nat
    OBVIOUS
  <2>2. k < x => <<k, x>> \in R
    BY <1>2, <2>1
  <2>. QED BY <1>4, <2>1, <2>2
<1>. QED BY <1>5

\* The recursion of Among, up to position n.
SolvesAmong(g, o, S, n) == g = [i \in 0..n |-> g[i]] /\ \A i \in 0..n :
  g[i] = IF i = 0 THEN <<>> ELSE IF o[i] \in S THEN Append(g[i - 1], o[i]) ELSE g[i - 1]

\* It has a solution.
LEMMA AmongSolved ==
  ASSUME NEW o, NEW S
  PROVE  \A n \in Nat : \E g : SolvesAmong(g, o, S, n)
<1> DEFINE Grow(i, e) == IF o[i] \in S THEN Append(e, o[i]) ELSE e
           Solves(g, n) == g = [i \in 0..n |-> IF i = 0 THEN <<>> ELSE Grow(i, g[i - 1])]
           Bad == {n \in Nat : ~\E g : Solves(g, n)}
<1>1. ASSUME Bad # {} PROVE FALSE
  <2>1. PICK m \in Bad : \A k \in Bad : m <= k
    <3>. HIDE DEF Solves
    <3>1. Bad \subseteq Nat
      OBVIOUS
    <3>. QED BY <1>1, <3>1, LeastNatural
  <2>2. m \in Nat /\ ~\E g : Solves(g, m)
    OBVIOUS
  <2>3. CASE m = 0
    <3>1. PICK g : g = [i \in 0..0 |-> <<>>]
      OBVIOUS
    <3>2. g = [i \in 0..0 |-> IF i = 0 THEN <<>> ELSE Grow(i, g[i - 1])]
      <4>. HIDE DEF Grow
      <4>. QED BY <3>1
    <3>. QED BY <2>2, <2>3, <3>2
  <2>4. CASE m # 0
    <3>1. m - 1 \in Nat /\ m - 1 \notin Bad
      <4>. HIDE DEF Bad
      <4>. QED BY <2>1, <2>2, <2>4
    <3>2. PICK g : Solves(g, m - 1)
      BY <3>1, Zenon
    <3>. HIDE DEF Grow
    <3>3. PICK h : h = [i \in 0..m |-> IF i = m THEN Grow(m, g[m - 1]) ELSE g[i]]
      OBVIOUS
    <3>4. ASSUME NEW i \in 0..m
          PROVE  h[i] = IF i = 0 THEN <<>> ELSE Grow(i, h[i - 1])
      <4>1. CASE i = m
        <5>1. h[m - 1] = g[m - 1]
          BY <2>2, <2>4, <3>3
        <5>. QED BY <2>2, <2>4, <3>3, <4>1, <5>1
      <4>2. CASE i # m
        <5>1. i \in 0..(m - 1) /\ h[i] = g[i]
          BY <2>2, <3>3, <4>2
        <5>2. g[i] = IF i = 0 THEN <<>> ELSE Grow(i, g[i - 1])
          BY <3>2, <5>1
        <5>3. CASE i # 0
          <6>1. i - 1 \in 0..m /\ i - 1 # m
            BY <2>2, <4>2, <5>1, <5>3
          <6>2. h[i - 1] = g[i - 1]
            BY <3>3, <6>1
          <6>. QED BY <5>1, <5>2, <5>3, <6>2
        <5>. QED BY <5>1, <5>2, <5>3
      <4>. QED BY <4>1, <4>2
    <3>5. Solves(h, m)
      BY <3>3, <3>4
    <3>. QED BY <2>2, <3>5, Zenon
  <2>. QED BY <2>3, <2>4
<1>2. ASSUME NEW n \in Nat PROVE \E g : Solves(g, n)
  BY <1>1
<1>3. ASSUME NEW n \in Nat, NEW g, Solves(g, n)
      PROVE  g = [i \in 0..n |-> g[i]] /\ \A i \in 0..n : g[i] = IF i = 0 THEN <<>> ELSE Grow(i, g[i - 1])
  <2>. HIDE DEF Grow
  <2>. QED BY <1>3
<1>. QED BY <1>2, <1>3 DEF SolvesAmong

\* Among selects exactly what is in the set, each once.
LEMMA AmongElements ==
  ASSUME NEW T, NEW o \in Seq(T), NEW S
  PROVE  /\ Among(o, S) \in Seq(T) /\ ToSet(Among(o, S)) = ToSet(o) \cap S
         /\ IsInjective(o) => IsInjective(Among(o, S))
<1> DEFINE Grow(i, e) == IF o[i] \in S THEN Append(e, o[i]) ELSE e
           Solves(g) == g = [i \in 0..Len(o) |-> IF i = 0 THEN <<>> ELSE Grow(i, g[i - 1])]
<1>1. Len(o) \in Nat /\ DOMAIN o = 1..Len(o) /\ ToSet(o) = {o[i] : i \in 1..Len(o)}
  BY ElementsOfSeq
<1>2. PICK f : Solves(f) /\ Among(o, S) = f[Len(o)]
  <2>1. PICK n \in Nat : n = Len(o)
    BY <1>1
  <2>2. PICK h : SolvesAmong(h, o, S, n)
    BY AmongSolved
  <2>3. h = [i \in 0..n |-> h[i]] /\ \A i \in 0..n : h[i] = IF i = 0 THEN <<>> ELSE Grow(i, h[i - 1])
    BY <2>2 DEF SolvesAmong
  <2>4. Solves(h)
    <3>. HIDE DEF Grow
    <3>. QED BY <2>1, <2>3
  <2>5. Among(o, S) = (CHOOSE g : Solves(g))[Len(o)]
    BY Zenon DEF Among
  <2>. HIDE DEF Solves
  <2>. QED BY <2>4, <2>5, Zenon
<1> DEFINE P(i) == /\ f[i] \in Seq(T) /\ ToSet(f[i]) = {o[j] : j \in 1..i} \cap S
                   /\ IsInjective(o) => IsInjective(f[i])
           Bad == {i \in 0..Len(o) : ~P(i)}
<1>3. P(0)
  <2>1. f[0] = <<>> /\ 1..0 = {}
    BY <1>1, <1>2
  <2>. QED BY <2>1, EmptySeq, ElementsOfEmpty DEF IsInjective
<1>4. ASSUME NEW i \in 0..Len(o), i # 0, P(i - 1) PROVE P(i)
  <2>1. /\ i \in 1..Len(o) /\ i \in Nat /\ o[i] \in T
        /\ 1..i = (1..(i - 1)) \cup {i}
    BY <1>1, <1>4, ElementOfSeq
  <2>2. f[i] = IF o[i] \in S THEN Append(f[i - 1], o[i]) ELSE f[i - 1]
    BY <1>2, <1>4
  <2>3. {o[j] : j \in 1..i} = {o[j] : j \in 1..(i - 1)} \cup {o[i]}
    BY <2>1
  <2>4. IsInjective(o) => o[i] \notin {o[j] : j \in 1..(i - 1)}
    BY <1>1, <2>1 DEF IsInjective
  <2>5. PICK e : e = f[i - 1]
    OBVIOUS
  <2>6. e \in Seq(T) /\ ToSet(e) = {o[j] : j \in 1..(i - 1)} \cap S /\ (IsInjective(o) => IsInjective(e))
    BY <1>4, <2>5
  <2>7. CASE o[i] \in S
    <3>1. f[i] = Append(e, o[i])
      BY <2>2, <2>5, <2>7
    <3>2. Append(e, o[i]) \in Seq(T) /\ ToSet(Append(e, o[i])) = ToSet(e) \cup {o[i]}
      BY <2>1, <2>6, AppendElements
    <3>3. IsInjective(o) => IsInjective(Append(e, o[i]))
      BY <2>1, <2>4, <2>6, AppendKeepsDistinct
    <3>4. ToSet(e) \cup {o[i]} = {o[j] : j \in 1..i} \cap S
      BY <2>3, <2>6, <2>7
    <3>. QED BY <3>1, <3>2, <3>3, <3>4
  <2>8. CASE o[i] \notin S
    BY <2>2, <2>3, <2>5, <2>6, <2>8
  <2>. QED BY <2>7, <2>8
<1>5. ASSUME Bad # {} PROVE FALSE
  <2>. HIDE DEF P
  <2>1. PICK m \in Bad : \A k \in Bad : m <= k
    <3>1. Bad \subseteq Nat
      BY <1>1
    <3>. HIDE DEF Bad
    <3>. QED BY <1>5, <3>1, LeastNatural
  <2>2. m \in 0..Len(o) /\ ~P(m) /\ m # 0
    BY <1>3
  <2>3. m - 1 \in 0..Len(o) /\ m - 1 \notin Bad
    <3>1. m - 1 \in 0..Len(o) /\ ~(m <= m - 1)
      BY <1>1, <2>2
    <3>. HIDE DEF Bad
    <3>. QED BY <2>1, <3>1
  <2>4. P(m - 1)
    BY <2>3
  <2>. QED BY <1>4, <2>2, <2>4
<1>6. P(Len(o))
  <2>. HIDE DEF P
  <2>. QED BY <1>1, <1>5
<1>. QED BY <1>1, <1>2, <1>6
-----------------------------------------------------------------------------
(* Attention: whatever frees an operator, some pass will come by its queue.  *)

\* Where every write succeeds, the file is what memory is.
Filed == disk.queue = queue /\ disk.order = order
\* The Map has the threads that wait, each once.
Listed == /\ order \in Seq(Threads) /\ IsInjective(order)
          /\ \A t \in Threads : (queue[t] # <<>>) <=> (t \in ToSet(order))
NoCards == \A b \in Bots : turn[b] # Gate

\* The entry is being run, or taken, or a pass that is on, or will go on, has not passed it.
Attended(t) == \/ held[t].on
               \/ scan.on /\ (scan.at = t \/ t \notin scan.seen)
               \/ \E u \in Threads : held[u].on /\ t \notin held[u].seen
Idle(t) == queue[t] # <<>> /\ turn[Owner[t]] = None
NoneWaits == \A t \in tasks : Idle(t) => Attended(t)

LEMMA OrderSelected ==
  ASSUME Listed, NEW gone
  PROVE  /\ Without(order, gone) \in Seq(Threads) /\ IsInjective(Without(order, gone))
         /\ \A t \in Threads : t \in ToSet(Without(order, gone)) <=> (t \in ToSet(order) /\ t \notin gone)
  BY AmongElements DEF Listed, Without

\* The Map keeps track of what waits, and the file of the Map.
LEMMA ListedStep ==
  ASSUME ~DiskMayFail, IInv, Filed, Listed, [Next]_vars
  PROVE  Filed' /\ Listed'
<1>0. /\ queue \in [Threads -> Seq(Sends)] /\ Target \in [Sends -> Threads]
      /\ order \in Seq(Threads) /\ IsInjective(order)
  BY SteerAssumption DEF IInv, TypeOK, QueuesTyped, Listed
<1>1. CASE UNCHANGED <<queue, order, disk>>
  BY <1>1 DEF Filed, Listed
<1>2. ASSUME NEW gone, order' = Without(order, gone), Saves(queue', order'),
             \A t \in Threads : (queue'[t] # <<>>) <=> (queue[t] # <<>> /\ t \notin gone)
      PROVE  Filed' /\ Listed'
  <2>1. Filed'
    BY <1>2 DEF Saves, Filed
  <2>2. Listed'
    BY <1>2, OrderSelected DEF Listed
  <2>. QED BY <2>1, <2>2
<1>3. ASSUME NEW s \in Sends, SteerFallsToQueue(s) PROVE Filed' /\ Listed'
  <2>1. PICK t \in Threads : t = Target[s]
    BY <1>0
  <2>2. /\ queue' = [queue EXCEPT ![t] = Append(@, s)]
        /\ order' = IF queue[t] = <<>> THEN Append(order, t) ELSE order
        /\ Saves(queue', order')
    BY <1>3, <2>1 DEF SteerFallsToQueue, SaveFails
  <2>3. /\ queue'[t] # <<>> /\ \A u \in Threads : u # t => queue'[u] = queue[u]
    <3>1. queue'[t] = Append(queue[t], s) /\ \A u \in Threads : u # t => queue'[u] = queue[u]
      BY <1>0, <2>2
    <3>2. s \in ToSet(queue'[t])
      BY <1>0, <3>1, AppendElements
    <3>. QED BY <3>1, <3>2, ElementsOfEmpty
  <2>4. CASE queue[t] = <<>>
    <3>1. order' = Append(order, t) /\ t \notin ToSet(order)
      BY <2>2, <2>4 DEF Listed
    <3>2. order' \in Seq(Threads) /\ IsInjective(order') /\ ToSet(order') = ToSet(order) \cup {t}
      BY <1>0, <3>1, AppendElements, AppendKeepsDistinct
    <3>3. Listed'
      BY <2>3, <3>2 DEF Listed
    <3>. QED BY <2>2, <3>3 DEF Filed, Saves
  <2>5. CASE queue[t] # <<>>
    <3>1. Listed'
      BY <2>2, <2>3, <2>5 DEF Listed
    <3>. QED BY <2>2, <3>1 DEF Filed, Saves
  <2>. QED BY <2>4, <2>5
<1>4. ASSUME NEW s \in Sends, Cancel(s) PROVE Filed' /\ Listed'
  <2>1. PICK t \in Threads : t = Target[s]
    BY <1>0
  <2>2. /\ EntryLoses(s) /\ Saves(queue', order')
        /\ order' = IF queue'[t] = <<>> THEN Without(order, {t}) ELSE order
    BY <1>4, <2>1 DEF Cancel, SaveFails, OrderAfter
  <2>3. PICK i \in DOMAIN queue[t] : queue' = [queue EXCEPT ![t] = RemoveAt(@, i)]
    BY <2>1, <2>2 DEF EntryLoses
  <2>4. queue[t] # <<>> /\ \A u \in Threads : u # t => queue'[u] = queue[u]
    BY <1>0, <2>3, EmptySeq
  <2>5. CASE queue'[t] = <<>>
    BY <1>2, <2>2, <2>4, <2>5
  <2>6. CASE queue'[t] # <<>>
    <3>1. Listed'
      BY <2>2, <2>4, <2>6 DEF Listed
    <3>. QED BY <2>2, <3>1 DEF Filed, Saves
  <2>. QED BY <2>5, <2>6
<1>5. ASSUME NEW gone, Discards(gone) \/ DiscardFails(gone) PROVE Filed' /\ Listed'
  <2>1. CASE UNCHANGED <<queue, order, disk>>
    BY <1>1, <2>1
  <2>2. CASE /\ queue' = [t \in Threads |-> IF t \in gone THEN <<>> ELSE queue[t]]
             /\ order' = Without(order, gone) /\ Saves(queue', order')
    <3>1. \A t \in Threads : (queue'[t] # <<>>) <=> (queue[t] # <<>> /\ t \notin gone)
      BY <2>2
    <3>. QED BY <1>2, <2>2, <3>1
  <2>. QED BY <1>5, <2>1, <2>2 DEF Discards, DiscardFails, SaveFails
<1>6. ASSUME NEW t \in Threads, NEW seen, DropEntry(t, seen) PROVE Filed' /\ Listed'
  <2>1. queue' = [queue EXCEPT ![t] = <<>>] /\ order' = Without(order, {t}) /\ Saves(queue', order')
    BY <1>6 DEF DropEntry, SaveFails
  <2>2. \A u \in Threads : (queue'[u] # <<>>) <=> (queue[u] # <<>> /\ u \notin {t})
    BY <1>0, <2>1
  <2>. QED BY <1>2, <2>1, <2>2
<1>7. CASE Restart
  <2>1. queue' = disk.queue /\ order' = disk.order /\ disk' = disk
    BY <1>7 DEF Restart
  <2>. QED BY <1>1, <2>1 DEF Filed
<1>8. ASSUME NEW s \in Sends,
             SendToIdle(s) \/ SteerRecorded(s) \/ SteerFallsToTurn(s) \/ SendToBusy(s) \/ Replay(s)
               \/ SteerRefused(s)
      PROVE  Filed' /\ Listed'
  BY <1>1, <1>8 DEF SendToIdle, SteerRecorded, SteerFallsToTurn, SendToBusy, Replay, SteerRefused
<1>9. ASSUME (\E t \in Threads : DeleteTask(t)) \/ (\E b \in Bots : DeleteBot(b)) PROVE Filed' /\ Listed'
  BY <1>5, <1>9 DEF DeleteTask, DeleteBot
<1>10. ASSUME NEW b \in Bots, NEW x,
             \/ Settle(b) \/ SettleUnheard(b) \/ GateCloses(b) \/ SwitchTask(b, x)
             \/ OtherTurn(b, x) \/ SettleRetaken(b, x)
      PROVE  Filed' /\ Listed'
  BY <1>1, <1>10 DEF Settle, SettleUnheard, GateCloses, SwitchTask, OtherTurn, SettleRetaken
<1>11. CASE ReloadProviders \/ DrainEnds \/ DrainRun \/ DrainAppend \/ UNCHANGED vars
              \/ \E t \in Threads : DrainTake(t)
  BY <1>1, <1>11 DEF ReloadProviders, DrainEnds, DrainRun, DrainAppend, DrainTake, vars
<1>12. ASSUME NEW t \in Threads, DrainOrphan(t) \/ DrainResume(t) PROVE Filed' /\ Listed'
  BY <1>1, <1>6, <1>12 DEF DrainOrphan, DrainResume
<1>. QED BY <1>3, <1>4, <1>7, <1>8, <1>9, <1>10, <1>11, <1>12 DEF Next

\* Without cards nothing but a turn keeps an operator busy.
LEMMA NoCardsStep ==
  ASSUME ~PeerGates, IInv, NoCards, [Next]_vars
  PROVE  NoCards'
<1>0. /\ turn \in [Bots -> Threads \cup {None, Gate}] /\ Gate \notin Threads /\ Gate # None
      /\ Target \in [Sends -> Threads] /\ Owner \in [Threads -> Bots]
  BY SteerAssumption DEF IInv, TypeOK, TurnsTyped
<1>1. CASE turn' = turn
  BY <1>1 DEF NoCards
<1>2. ASSUME NEW b, NEW t \in Threads \cup {None}, turn' = [turn EXCEPT ![b] = t] PROVE NoCards'
  BY <1>0, <1>2 DEF NoCards
<1>3. ASSUME NEW s \in Sends,
             SendToIdle(s) \/ SteerRecorded(s) \/ SteerFallsToTurn(s) \/ SendToBusy(s) \/ Replay(s)
               \/ SteerRefused(s) \/ SteerFallsToQueue(s) \/ Cancel(s)
      PROVE  NoCards'
  <2>1. Target[s] \in Threads
    BY <1>0
  <2>. QED BY <1>1, <1>2, <1>3, <2>1 DEF SendToIdle, SteerRecorded, SteerFallsToTurn, SendToBusy, Replay,
           SteerRefused, SteerFallsToQueue, Cancel, TurnStarts
<1>4. ASSUME (\E t \in Threads : DeleteTask(t)) \/ (\E b \in Bots : DeleteBot(b)) PROVE NoCards'
  BY <1>1, <1>2, <1>4 DEF DeleteTask, DeleteBot, Idles
<1>5. ASSUME NEW b \in Bots, NEW x \in Threads \cup {Gate},
             \/ Settle(b) \/ SettleUnheard(b) \/ GateCloses(b) \/ SwitchTask(b, x)
             \/ SettleRetaken(b, x)
      PROVE  NoCards'
  <2>1. CASE Settle(b) \/ GateCloses(b)
    BY <1>2, <2>1 DEF Settle, GateCloses, Idles
  <2>2. CASE SettleUnheard(b) \/ SwitchTask(b, x)
    BY <1>1, <2>2 DEF SettleUnheard, SwitchTask
  <2>3. CASE SettleRetaken(b, x)
    <3>1. x \in Threads
      BY <2>3 DEF SettleRetaken, IInv, TypeOK, TurnsTyped
    <3>. QED BY <1>2, <2>3, <3>1 DEF SettleRetaken, Takes
  <2>. QED BY <1>5, <2>1, <2>2, <2>3
<1>6. ASSUME NEW b \in Bots, NEW t \in Threads, OtherTurn(b, t) PROVE NoCards'
  BY <1>2, <1>6 DEF OtherTurn, Takes
<1>7. CASE ReloadProviders \/ Restart
  BY <1>0, <1>7 DEF ReloadProviders, Restart, NoCards
<1>8. CASE DrainEnds \/ DrainAppend \/ UNCHANGED vars
              \/ \E t \in Threads : DrainTake(t) \/ DrainOrphan(t) \/ DrainResume(t)
  BY <1>1, <1>8 DEF DrainEnds, DrainAppend, DrainTake, DrainOrphan, DrainResume, vars
<1>9. CASE DrainRun
  <2>1. scan.at \in Threads
    BY <1>9 DEF DrainRun, IInv, TypeOK, PassesTyped, Passes
  <2>. QED BY <1>1, <1>2, <1>9, <2>1 DEF DrainRun, TurnStarts
<1>. QED BY <1>3, <1>4, <1>5, <1>6, <1>7, <1>8, <1>9 DEF Next

\* A pass goes by what it sees: no idle operator's entry among what it has gone past.
LEMMA PassedOver ==
  ASSUME Listed, Scanning, NEW t \in Threads, Upcoming(t),
         NEW u \in Passed(t), u # t, Idle(u), u \in tasks
  PROVE  u \in scan.seen \/ held[u].on
<1>1. PICK i \in DOMAIN order :
        order[i] = t /\ \A j \in 1..(i - 1) : ~Visitable(order[j])
  BY DEF Upcoming
<1>2. SUFFICES ASSUME u \notin scan.seen PROVE held[u].on
  OBVIOUS
<1>3. u \in Threads /\ order \in Seq(Threads) /\ DOMAIN order = 1..Len(order) /\ Len(order) \in Nat
  BY <1>2 DEF Passed, Listed
<1>4. PICK k, j \in DOMAIN order : j <= k /\ order[k] = t /\ order[j] = u
  BY <1>2 DEF Passed
<1>5. k = i
  BY <1>1, <1>4 DEF Listed, IsInjective
<1>6. j \in 1..(i - 1)
  BY <1>1, <1>3, <1>4, <1>5
<1>7. ~Visitable(u)
  BY <1>1, <1>4, <1>6
<1>. QED BY <1>2, <1>3, <1>7 DEF Visitable, Orphan, Idle, Draining

\* A pass ends only when nothing it could visit is left.
LEMMA PassEnds ==
  ASSUME Listed, Scanning, ~\E t \in Threads : Upcoming(t),
         NEW u \in Threads, Idle(u)
  PROVE  u \in scan.seen \/ held[u].on
<1>1. SUFFICES ASSUME u \notin scan.seen, ~held[u].on PROVE FALSE
  OBVIOUS
<1>2. Visitable(u)
  BY <1>1 DEF Visitable, Idle, Draining
<1>3. order \in Seq(Threads) /\ DOMAIN order = 1..Len(order) /\ Len(order) \in Nat
  BY DEF Listed
<1>4. PICK n \in 1..Len(order) : order[n] = u
  BY <1>3, ElementsOfSeq DEF Listed, Idle
<1> DEFINE Seen == {n2 \in 1..Len(order) : Visitable(order[n2])}
<1>5. PICK m \in Seen : \A k \in Seen : m <= k
  <2>1. Seen \subseteq Nat /\ Seen # {}
    BY <1>2, <1>3, <1>4
  <2>. HIDE DEF Seen
  <2>. QED BY <2>1, LeastNatural
<1>6. \A j \in 1..(m - 1) : ~Visitable(order[j])
  BY <1>3, <1>5
<1>7. order[m] \in Threads /\ Visitable(order[m])
  BY <1>3, <1>5, ElementOfSeq
<1>8. Upcoming(order[m])
  BY <1>3, <1>5, <1>6, <1>7 DEF Upcoming
<1>. QED BY <1>7, <1>8

\* Every step that frees an operator starts a pass, and no pass ends too early.
LEMMA NoneWaitsStep ==
  ASSUME ~PeerGates, ~DiskMayFail, IInv, Listed, NoCards, NoneWaits, [Next]_vars
  PROVE  NoneWaits'
<1>0. /\ queue \in [Threads -> Seq(Sends)] /\ held \in [Threads -> Waiters]
      /\ scan \in Passes /\ None \notin Threads /\ tasks \subseteq Threads
      /\ turn \in [Bots -> Threads \cup {None, Gate}]
      /\ Owner \in [Threads -> Bots] /\ Target \in [Sends -> Threads]
  BY SteerAssumption DEF IInv, TypeOK, QueuesTyped, PassesTyped, TurnsTyped
<1>1. ASSUME UNCHANGED <<scan, held>>, tasks' \subseteq tasks,
             \A t \in tasks' : Idle(t)' => Idle(t)
      PROVE  NoneWaits'
  BY <1>1 DEF NoneWaits, Attended
<1>2. ASSUME scan' = Pass({}) PROVE NoneWaits'
  BY <1>2 DEF NoneWaits, Attended, Pass
<1>3. ASSUME NEW b, NEW x \in Threads, turn' = [turn EXCEPT ![b] = x], queue' = queue
      PROVE  \A t \in Threads : Idle(t)' => Idle(t)
  BY <1>0, <1>3 DEF Idle
<1>4. ASSUME NEW s \in Sends,
             SendToIdle(s) \/ SteerRecorded(s) \/ SteerFallsToTurn(s) \/ SendToBusy(s) \/ Replay(s)
               \/ SteerRefused(s)
      PROVE  NoneWaits'
  <2>1. UNCHANGED <<scan, held, tasks, queue>> /\ Target[s] \in Threads
    BY <1>0, <1>4 DEF SendToIdle, SteerRecorded, SteerFallsToTurn, SendToBusy, Replay, SteerRefused
  <2>2. CASE turn' = turn
    BY <1>1, <2>1, <2>2 DEF Idle
  <2>3. CASE TurnStarts(Owner[Target[s]], Target[s], {s})
    BY <1>0, <1>1, <1>3, <2>1, <2>3 DEF TurnStarts
  <2>. QED BY <1>4, <2>2, <2>3 DEF SendToIdle, SteerRecorded, SteerFallsToTurn, SendToBusy, Replay,
           SteerRefused
<1>5. ASSUME NEW s \in Sends, SteerFallsToQueue(s) PROVE NoneWaits'
  <2>1. PICK t \in Threads : t = Target[s]
    BY <1>0
  <2>2. /\ queue' = [queue EXCEPT ![t] = Append(@, s)] /\ turn[Owner[t]] # None
        /\ UNCHANGED <<scan, held, tasks, turn>>
    BY <1>5, <2>1 DEF SteerFallsToQueue, SaveFails
  <2>3. \A u \in Threads : Idle(u)' => Idle(u)
    BY <1>0, <2>2 DEF Idle
  <2>. QED BY <1>0, <1>1, <2>2, <2>3
<1>6. ASSUME NEW s \in Sends, Cancel(s) PROVE NoneWaits'
  <2>1. PICK t \in Threads : t = Target[s]
    BY <1>0
  <2>2. EntryLoses(s) /\ UNCHANGED <<scan, held, tasks, turn>>
    BY <1>6 DEF Cancel, SaveFails
  <2>3. PICK i \in DOMAIN queue[t] : queue' = [queue EXCEPT ![t] = RemoveAt(@, i)]
    BY <2>1, <2>2 DEF EntryLoses
  <2>4. queue[t] # <<>> /\ \A u \in Threads : u # t => queue'[u] = queue[u]
    BY <1>0, <2>3, EmptySeq
  <2>5. \A u \in Threads : Idle(u)' => Idle(u)
    BY <2>2, <2>4 DEF Idle
  <2>. QED BY <1>0, <1>1, <2>2, <2>5
<1>7. ASSUME NEW gone, Discards(gone) \/ DiscardFails(gone)
      PROVE  \A u \in Threads : queue'[u] # <<>> => queue'[u] = queue[u] /\ (queue' # queue => u \notin gone)
  BY <1>0, <1>7 DEF Discards, DiscardFails
<1>8. ASSUME NEW t \in Threads, DeleteTask(t) PROVE NoneWaits'
  <2>1. tasks' \subseteq tasks /\ UNCHANGED <<scan, held, turn>> /\ (Discards({t}) \/ DiscardFails({t}))
    BY <1>8 DEF DeleteTask
  <2>. QED BY <1>0, <1>1, <1>7, <2>1 DEF Idle
<1>9. ASSUME NEW b \in Bots, DeleteBot(b) PROVE NoneWaits'
  <2> DEFINE own == {t \in Threads : Owner[t] = b}
  <2>1. UNCHANGED <<scan, held>> /\ Discards(own) /\ tasks' = tasks \ own /\ Idles(b)
    BY <1>9 DEF DeleteBot, DiscardFails, SaveFails
  <2>2. ASSUME NEW u \in tasks', Idle(u)' PROVE Idle(u)
    <3>1. u \in Threads /\ u \notin own /\ Owner[u] # b
      BY <1>0, <2>1, <2>2
    <3>2. turn'[Owner[u]] = turn[Owner[u]]
      BY <1>0, <2>1, <3>1 DEF Idles
    <3>. QED BY <1>7, <2>1, <2>2, <3>1, <3>2 DEF Idle
  <2>. QED BY <1>1, <2>1, <2>2
<1>10. ASSUME NEW b \in Bots, NEW x \in Threads \cup {Gate},
              \/ Settle(b) \/ SettleUnheard(b) \/ GateCloses(b)
              \/ SettleRetaken(b, x)
       PROVE  NoneWaits'
  BY <1>2, <1>10 DEF Settle, SettleUnheard, SettleRetaken, GateCloses, NoCards
<1>11. ASSUME NEW b \in Bots, NEW t \in Threads, SwitchTask(b, t) \/ OtherTurn(b, t) PROVE NoneWaits'
  <2>1. CASE SwitchTask(b, t)
    BY <1>1, <2>1 DEF SwitchTask, Idle
  <2>2. CASE OtherTurn(b, t)
    BY <1>0, <1>1, <1>3, <2>2 DEF OtherTurn, Takes
  <2>. QED BY <1>11, <2>1, <2>2
<1>12. CASE ReloadProviders \/ Restart
  BY <1>2, <1>12 DEF ReloadProviders, Restart
<1>13. CASE UNCHANGED vars
  BY <1>1, <1>13 DEF vars, Idle
<1>14. CASE DrainAppend
  <2>1. UNCHANGED <<held, tasks, turn, queue>> /\ scan' = [scan EXCEPT !.n = @ + 1]
    BY <1>14 DEF DrainAppend
  <2>2. scan'.on = scan.on /\ scan'.seen = scan.seen /\ scan'.at = scan.at
    BY <1>0, <2>1 DEF Passes
  <2>. QED BY <2>1, <2>2 DEF NoneWaits, Attended, Idle
<1>15. ASSUME NEW t \in Threads, DrainTake(t) PROVE NoneWaits'
  <2>1. /\ Scanning /\ Upcoming(t) /\ UNCHANGED <<held, tasks, turn, queue>>
        /\ scan'.on /\ scan'.seen = Passed(t) /\ scan'.at = t
    BY <1>15 DEF DrainTake
  <2>2. ASSUME NEW u \in tasks, Idle(u) PROVE Attended(u)'
    <3>1. Attended(u)
      BY <2>2 DEF NoneWaits
    <3>2. u \in Passed(t) /\ u # t => u \in scan.seen \/ held[u].on
      BY <2>1, <2>2, PassedOver
    <3>. QED BY <1>0, <2>1, <3>1, <3>2 DEF Attended, Scanning
  <2>. QED BY <2>1, <2>2 DEF NoneWaits, Idle
<1>16. ASSUME NEW t \in Threads, DrainOrphan(t) PROVE NoneWaits'
  <2>1. /\ Scanning /\ Upcoming(t) /\ UNCHANGED <<held, tasks, turn>> /\ t \notin tasks
        /\ queue' = [queue EXCEPT ![t] = <<>>] /\ scan'.on /\ scan'.seen = Passed(t)
    BY <1>16 DEF DrainOrphan, DropEntry, SaveFails, Orphan, Pass
  <2>2. ASSUME NEW u \in tasks, Idle(u) PROVE Attended(u)'
    <3>1. Attended(u) /\ u # t
      BY <2>1, <2>2 DEF NoneWaits
    <3>2. u \in Passed(t) => u \in scan.seen \/ held[u].on
      BY <2>1, <2>2, <3>1, PassedOver
    <3>. QED BY <1>0, <2>1, <3>1, <3>2 DEF Attended, Scanning
  <2>3. \A u \in tasks : Idle(u)' => Idle(u)
    BY <1>0, <2>1 DEF Idle
  <2>. QED BY <2>1, <2>2, <2>3 DEF NoneWaits
<1>17. CASE DrainEnds
  <2>1. /\ Scanning /\ ~(\E t \in Threads : Upcoming(t)) /\ UNCHANGED <<held, tasks, turn, queue>>
    BY <1>17 DEF DrainEnds
  <2>2. ASSUME NEW u \in tasks, Idle(u) PROVE Attended(u)'
    <3>1. Attended(u) /\ u \in Threads
      BY <1>0, <2>2 DEF NoneWaits
    <3>2. u \in scan.seen \/ held[u].on
      BY <2>1, <2>2, <3>1, PassEnds
    <3>. QED BY <1>0, <2>1, <3>1, <3>2 DEF Attended, Scanning
  <2>. QED BY <2>1, <2>2 DEF NoneWaits, Idle
<1>18. CASE DrainRun
  <2>1. PICK t \in Threads : t = scan.at
    BY <1>0, <1>18 DEF DrainRun, Passes
  <2>2. /\ held' = [held EXCEPT ![t] = [on |-> TRUE, seen |-> scan.seen, items |-> queue[t]]]
        /\ scan' = NoScan /\ UNCHANGED <<tasks, queue>> /\ ~held[t].on
        /\ turn' = turn \/ turn' = [turn EXCEPT ![Owner[t]] = t]
    BY <1>18, <2>1 DEF DrainRun, TurnStarts, IInv, ScanLanded
  <2>3. /\ held'[t].on /\ held'[t].seen = scan.seen
        /\ \A u \in Threads : u # t => held'[u] = held[u]
    BY <1>0, <2>2
  <2>4. ASSUME NEW u \in tasks, Attended(u) PROVE Attended(u)'
    <3>. HIDE <2>2
    <3>1. held[t].on = FALSE
      BY <1>0, <2>2 DEF Waiters
    <3>. QED BY <1>0, <2>1, <2>3, <2>4, <3>1 DEF Attended
  <2>5. \A u \in Threads : Idle(u)' => Idle(u)
    <3>1. CASE turn' = turn
      BY <2>2, <3>1 DEF Idle
    <3>2. CASE turn' = [turn EXCEPT ![Owner[t]] = t]
      BY <1>3, <2>2, <3>2
    <3>. QED BY <2>2, <3>1, <3>2
  <2>. QED BY <1>0, <2>2, <2>4, <2>5 DEF NoneWaits
<1>19. ASSUME NEW t \in Threads, DrainResume(t) PROVE NoneWaits'
  <2>1. /\ Free /\ held' = [held EXCEPT ![t] = NoPass] /\ UNCHANGED <<tasks, turn>>
        /\ scan' = Pass(held[t].seen) /\ held[t].on
    BY <1>19 DEF DrainResume, DropEntry, SaveFails
  <2>2. held[t].items = queue[t] /\ queue[t] \in Seq(Sends)
    BY <1>0, <2>1 DEF IInv, HeldLanded
  <2>3. /\ queue'[t] = <<>> /\ \A u \in Threads : u # t => queue'[u] = queue[u]
    <3>1. IsPrefix(queue[t], queue[t])
      BY <2>2, PrefixReflexive
    <3>. QED BY <1>0, <1>19, <2>2, <3>1 DEF DrainResume, DropEntry
  <2>4. /\ scan'.on /\ scan'.seen = held[t].seen
        /\ \A u \in Threads : u # t => held'[u] = held[u]
    BY <1>0, <2>1 DEF Pass
  <2>5. ASSUME NEW u \in tasks, Idle(u)' PROVE Attended(u)'
    <3>1. u # t /\ Idle(u) /\ u \in Threads
      BY <1>0, <2>1, <2>3, <2>5 DEF Idle
    <3>2. Attended(u) /\ ~scan.on
      BY <2>1, <2>5, <3>1 DEF NoneWaits, Free
    <3>. QED BY <1>0, <2>4, <3>1, <3>2 DEF Attended
  <2>. QED BY <2>1, <2>5 DEF NoneWaits
<1>. QED BY <1>4, <1>5, <1>6, <1>8, <1>9, <1>10, <1>11, <1>12, <1>13, <1>14, <1>15, <1>16,
            <1>17, <1>18, <1>19 DEF Next

\* Whatever frees an operator drains it: while peer-approval cards are off and every
\* write of steer-queue.json succeeds, no idle operator keeps a waiting message once the
\* passes have ended (drainSteeredMessages, on every settled turn and after every run()).
\* With either TRUE it is false: a card that closes drains nothing, and a pass whose
\* write fails ends there.
THEOREM IdleDrained ==
  ASSUME ~PeerGates, ~DiskMayFail
  PROVE  Spec => []IdleIsDrained
<1> DEFINE J == Filed /\ Listed /\ NoCards /\ NoneWaits
<1>1. Init => J
  <2> SUFFICES ASSUME Init PROVE J
    OBVIOUS
  <2>1. Filed /\ NoCards
    BY SteerAssumption DEF Init, Filed, NoCards
  <2>2. Listed /\ NoneWaits
    BY EmptySeq, ElementsOfEmpty, SteerAssumption DEF Init, Listed, NoneWaits, Idle, IsInjective
  <2>. QED BY <2>1, <2>2
<1>2. IInv /\ J /\ [Next]_vars => J'
  BY ListedStep, NoCardsStep, NoneWaitsStep
<1>3. IInv /\ J => IdleIsDrained
  <2>1. IInv /\ NoneWaits => IdleIsDrained
    <3>1. IInv => tasks \subseteq Threads
      BY DEF IInv, TypeOK, TurnsTyped
    <3>. QED BY <3>1 DEF NoneWaits, IdleIsDrained, Idle, Attended, Free, Draining
  <2>. QED BY <2>1
<1>. QED
  <2>. HIDE DEF J
  <2>. QED BY <1>1, <1>2, <1>3, Inductive, PTL DEF Spec
=============================================================================

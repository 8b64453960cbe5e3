-------------------------- MODULE DelegationsProofs --------------------------
(* For any operators, threads and handoffs, any number of crashes, with cards, *)
(* rooms and turns that end in silence or not: types, no handoff is forgotten   *)
(* but by a crash in the midst of a discard,                                   *)
(* each runs once for each life of the process at most; where turns end loudly, *)
(* one that waited for a busy peer is retried; and, where operators have one run *)
(* each, a life of the process follows HandoffLifecycle.                        *)
EXTENDS Delegations, SequencesExt, SequenceTheorems, TLAPS

(* Sequences.                                                              *)

\* The elements of a sequence are the values at its positions.
LEMMA ElementsOfSeq ==
  ASSUME NEW S, NEW q \in Seq(S)
  PROVE  /\ DOMAIN q = 1..Len(q) /\ Len(q) \in Nat
         /\ ToSet(q) = {q[i] : i \in 1..Len(q)} /\ ToSet(q) \subseteq S
<1>1. DOMAIN q = 1..Len(q) /\ Len(q) \in Nat
  BY LenProperties
<1>. QED BY <1>1, ElementOfSeq DEF ToSet

\* The empty sequence has no elements.
LEMMA ElementsOfEmpty == ToSet(<<>>) = {}
  BY DEF ToSet

\* Appending adds exactly the appended element, at the end.
LEMMA AppendElements ==
  ASSUME NEW S, NEW q \in Seq(S), NEW e \in S
  PROVE  Append(q, e) \in Seq(S) /\ ToSet(Append(q, e)) = ToSet(q) \cup {e}
<1>1. PICK r : r = Append(q, e)
  OBVIOUS
<1>2. /\ r \in Seq(S) /\ Len(r) = Len(q) + 1
      /\ \A i \in 1..Len(q) : r[i] = q[i]
      /\ r[Len(q) + 1] = e
  BY <1>1, AppendProperties
<1>3. Len(q) \in Nat
  BY LenProperties
<1>4. ToSet(r) = {r[i] : i \in 1..Len(r)} /\ ToSet(q) = {q[i] : i \in 1..Len(q)}
  BY <1>2, ElementsOfSeq
<1>5. 1..Len(r) = (1..Len(q)) \cup {Len(q) + 1}
  BY <1>2, <1>3
<1>6. ToSet(r) = ToSet(q) \cup {e}
  BY <1>2, <1>4, <1>5
<1>. QED BY <1>1, <1>2, <1>6

\* Appending an element that is not there keeps the elements distinct.
LEMMA AppendKeepsDistinct ==
  ASSUME NEW S, NEW q \in Seq(S), NEW e \in S, IsInjective(q), e \notin ToSet(q)
  PROVE  IsInjective(Append(q, e))
<1>1. PICK r : r = Append(q, e)
  OBVIOUS
<1>2. /\ r \in Seq(S) /\ Len(r) = Len(q) + 1
      /\ \A i \in 1..Len(q) : r[i] = q[i]
      /\ r[Len(q) + 1] = e
  BY <1>1, AppendProperties
<1>3. Len(q) \in Nat /\ DOMAIN q = 1..Len(q) /\ DOMAIN r = 1..(Len(q) + 1)
  BY <1>2, LenProperties
<1>4. \A i \in 1..Len(q) : q[i] # e
  BY ElementsOfSeq
<1>5. \A i, j \in 1..Len(q) : q[i] = q[j] => i = j
  BY <1>3 DEF IsInjective
<1>6. ASSUME NEW i \in DOMAIN r, NEW j \in DOMAIN r, r[i] = r[j] PROVE i = j
  <2>1. i \in 1..Len(q) \/ i = Len(q) + 1
    BY <1>3
  <2>2. j \in 1..Len(q) \/ j = Len(q) + 1
    BY <1>3
  <2>. QED BY <1>2, <1>4, <1>5, <1>6, <2>1, <2>2
<1>. QED BY <1>1, <1>6 DEF IsInjective

\* Deleting an element by value, where elements are distinct, deletes exactly it.
LEMMA RemoveFirstElements ==
  ASSUME NEW S, NEW q \in Seq(S), IsInjective(q), NEW e
  PROVE  /\ RemoveFirst(q, e) \in Seq(S) /\ IsInjective(RemoveFirst(q, e))
         /\ ToSet(RemoveFirst(q, e)) = ToSet(q) \ {e}
<1>1. PICK n \in Nat : n = Len(q)
  BY LenProperties
<1>2. DOMAIN q = 1..n /\ ToSet(q) = {q[j] : j \in 1..n} /\ (\A j \in 1..n : q[j] \in S)
      /\ \A i, j \in 1..n : q[i] = q[j] => i = j
  BY <1>1, ElementsOfSeq, ElementOfSeq DEF IsInjective
<1>3. CASE ~\E i \in 1..n : q[i] = e
  <2>1. RemoveFirst(q, e) = q
    BY <1>1, <1>3, Zenon DEF RemoveFirst
  <2>. QED BY <1>2, <1>3, <2>1
<1>4. CASE \E i \in 1..n : q[i] = e
  <2>1. PICK i \in 1..n : q[i] = e
    BY <1>4
  <2>2. PICK x : x = SubSeq(q, 1, i - 1)
    OBVIOUS
  <2>3. PICK y : y = SubSeq(q, i + 1, n)
    OBVIOUS
  <2>4. PICK r : r = x \o y
    OBVIOUS
  <2>5. RemoveFirst(q, e) = r
    <3>1. {j \in 1..Len(q) : q[j] = e} = {i}
      BY <1>1, <1>2, <2>1
    <3>2. SelectInSeq(q, LAMBDA v : v = e) = Min({i})
      BY <3>1, Zenon DEF SelectInSeq
    <3>3. Min({i}) = i
      BY <1>1 DEF Min
    <3>4. RemoveFirst(q, e) = RemoveAt(q, i)
      BY <1>1, <1>4, <3>2, <3>3, Zenon DEF RemoveFirst
    <3>. QED BY <1>1, <2>2, <2>3, <2>4, <3>4 DEF RemoveAt
  <2>6. x \in Seq(S) /\ Len(x) = i - 1 /\ \A j \in 1..(i - 1) : x[j] = q[j]
    <3>1. 1 \in Int /\ i - 1 \in Int /\ \A j \in 1..(i - 1) : q[j] \in S
      BY <1>2
    <3>2. /\ x \in Seq(S)
          /\ Len(x) = IF 1 <= i - 1 THEN (i - 1) - 1 + 1 ELSE 0
          /\ \A j \in 1..((i - 1) - 1 + 1) : x[j] = q[1 + j - 1]
      BY <2>2, <3>1, SubSeqProperties
    <3>. QED BY <3>2
  <2>7. y \in Seq(S) /\ Len(y) = n - i /\ \A j \in 1..(n - i) : y[j] = q[i + j]
    <3>1. i + 1 \in Int /\ n \in Int /\ \A j \in (i + 1)..n : q[j] \in S
      BY <1>2
    <3>2. /\ y \in Seq(S)
          /\ Len(y) = IF i + 1 <= n THEN n - (i + 1) + 1 ELSE 0
          /\ \A j \in 1..(n - (i + 1) + 1) : y[j] = q[(i + 1) + j - 1]
      BY <2>3, <3>1, SubSeqProperties
    <3>. QED BY <3>2
  <2>8. /\ r \in Seq(S) /\ Len(r) = n - 1
        /\ \A j \in 1..(n - 1) : r[j] = IF j < i THEN x[j] ELSE y[j - (i - 1)]
    <3>1. /\ r \in Seq(S) /\ Len(r) = Len(x) + Len(y)
          /\ \A j \in 1..(Len(x) + Len(y)) : r[j] = IF j <= Len(x) THEN x[j] ELSE y[j - Len(x)]
      BY <2>4, <2>6, <2>7, ConcatProperties
    <3>. QED BY <2>6, <2>7, <3>1
  <2>9. \A j \in 1..(n - 1) : r[j] = q[IF j < i THEN j ELSE j + 1]
    <3>1. ASSUME NEW j \in 1..(n - 1), j < i PROVE r[j] = q[j]
      BY <2>6, <2>8, <3>1
    <3>2. ASSUME NEW j \in 1..(n - 1), j >= i PROVE r[j] = q[j + 1]
      <4>1. j - (i - 1) \in 1..(n - i) /\ i + (j - (i - 1)) = j + 1
        BY <3>2
      <4>. QED BY <2>7, <2>8, <3>2, <4>1
    <3>. QED BY <3>1, <3>2
  <2>10. ToSet(r) = {r[j] : j \in 1..(n - 1)} /\ DOMAIN r = 1..(n - 1)
    BY <2>8, ElementsOfSeq
  <2>11. ToSet(r) = ToSet(q) \ {e}
    <3>1. ASSUME NEW j \in 1..(n - 1) PROVE r[j] \in ToSet(q) \ {e}
      BY <1>2, <2>1, <2>9
    <3>2. ASSUME NEW k \in 1..n, k # i PROVE q[k] \in ToSet(r)
      <4>1. CASE k < i
        BY <2>9, <2>10, <4>1
      <4>2. CASE k > i
        <5>1. k - 1 \in 1..(n - 1) /\ r[k - 1] = q[k]
          BY <2>9, <4>2
        <5>. QED BY <2>10, <5>1
      <4>. QED BY <3>2, <4>1, <4>2
    <3>. QED BY <1>2, <2>1, <2>10, <3>1, <3>2
  <2>12. \A a, b \in 1..(n - 1) : r[a] = r[b] => a = b
    BY <1>2, <2>9
  <2>. QED BY <2>5, <2>8, <2>10, <2>11, <2>12 DEF IsInjective
<1>. QED BY <1>3, <1>4

-----------------------------------------------------------------------------
\* The queues and what drains have yet to do hold their own thread's handoffs, each once.
Queues == \A t \in Threads :
  /\ IsInjective(pending[t]) /\ IsInjective(drain[t].todo)
  /\ \A h \in ToSet(pending[t]) \cup ToSet(drain[t].todo) : Source[h] = t /\ h \in queued
  /\ drain[t].phase \notin {"off", "next"} => drain[t].todo # <<>>

\* A handoff that was run and is about to be acknowledged; one that may yet be run.
Acking(h) == drain[Source[h]].phase = "ack" /\ h = Current(Source[h])
Awaits(h) == Pending(h) \/ h \in ToSet(drain[Source[h]].todo)

\* What may yet be run has not run in this life of the process.
Counts == \A h \in Handoffs :
  /\ runs[h] <= 1 + crashes /\ (h \notin queued => runs[h] = 0)
  /\ Awaits(h) /\ ~Acking(h) => runs[h] <= crashes

\* What is about to be acknowledged was run, or has its receipt.
Settled(h) == runs[h] > 0 \/ receipt[h] # None
Settles == \A t \in Threads : drain[t].phase = "ack" => Settled(Current(t))

IInv == TypeOK /\ Queues /\ Counts /\ Settles /\ NeverForgotten
-----------------------------------------------------------------------------
(* What the steps of a drain do to it.                                     *)

\* The head of what a drain has to do, and what remains behind it.
LEMMA HeadAndTail ==
  ASSUME NEW q \in Seq(Handoffs), q # <<>>, IsInjective(q)
  PROVE  /\ Head(q) \in ToSet(q) /\ Head(q) \in Handoffs
         /\ Tail(q) \in Seq(Handoffs) /\ IsInjective(Tail(q))
         /\ ToSet(Tail(q)) = ToSet(q) \ {Head(q)}
<1>1. Len(q) \in Nat /\ Len(q) # 0 /\ DOMAIN q = 1..Len(q) /\ ToSet(q) = {q[i] : i \in 1..Len(q)}
      /\ \A i \in 1..Len(q) : q[i] \in Handoffs
  BY ElementsOfSeq, EmptySeq, ElementOfSeq
<1>2. Head(q) = q[1]
  BY HeadTailProperties
<1>3. PICK r : r = Tail(q)
  OBVIOUS
<1>4. r \in Seq(Handoffs) /\ Len(r) = Len(q) - 1 /\ \A i \in 1..Len(r) : r[i] = q[i + 1]
  BY <1>3, HeadTailProperties
<1>5. DOMAIN r = 1..(Len(q) - 1) /\ ToSet(r) = {r[i] : i \in 1..(Len(q) - 1)}
  BY <1>4, ElementsOfSeq
<1>6. \A i, j \in 1..Len(q) : q[i] = q[j] => i = j
  BY <1>1 DEF IsInjective
<1>7. IsInjective(r)
  BY <1>1, <1>4, <1>5, <1>6 DEF IsInjective
<1>8. ToSet(r) \subseteq ToSet(q) \ {q[1]}
  BY <1>1, <1>4, <1>5, <1>6
<1>9. ASSUME NEW e \in ToSet(q), e # q[1] PROVE e \in ToSet(r)
  <2>1. PICK i \in 1..Len(q) : q[i] = e
    BY <1>1
  <2>2. i - 1 \in 1..(Len(q) - 1) /\ r[i - 1] = e
    BY <1>1, <1>4, <1>9, <2>1
  <2>. QED BY <1>5, <2>2
<1>. QED BY <1>1, <1>2, <1>3, <1>4, <1>7, <1>8, <1>9

LEMMA Entered ==
  ASSUME drain \in [Threads -> Drains], NEW t \in Threads, NEW p \in Phases, drain' = Enter(t, p)
  PROVE  /\ drain' \in [Threads -> Drains]
         /\ drain'[t].phase = p /\ drain'[t].todo = drain[t].todo
         /\ \A u \in Threads \ {t} : drain'[u] = drain[u]
<1>0. PICK e \in Drains : e = drain[t]
  BY Zenon
<1>1. PICK d : d = [e EXCEPT !.phase = p]
  OBVIOUS
<1>2. d \in Drains /\ d.phase = p /\ d.todo = e.todo
<2>1. d = [phase |-> p, todo |-> e.todo, snapshot |-> e.snapshot]
  BY <1>1, SMT DEF Drains
<2>2. e.todo \in Seq(Handoffs) /\ e.snapshot \in SUBSET Handoffs
  BY SMT DEF Drains
<2> QED BY <2>1, <2>2, Zenon DEF Drains
<1>3. drain' = [drain EXCEPT ![t] = d]
  BY <1>0, <1>1, Zenon DEF Enter
<1> QED BY <1>0, <1>2, <1>3

LEMMA Advanced ==
  ASSUME drain \in [Threads -> Drains], NEW t \in Threads, drain' = Advance(t),
         Tail(drain[t].todo) \in Seq(Handoffs)
  PROVE  /\ drain' \in [Threads -> Drains]
         /\ drain'[t].phase = "next" /\ drain'[t].todo = Tail(drain[t].todo)
         /\ \A u \in Threads \ {t} : drain'[u] = drain[u]
  BY SMT DEF Advance, Drains, Phases

LEMMA Fresh ==
  ASSUME NEW q \in Seq(Handoffs)
  PROVE  /\ NewDrain(q) \in Drains /\ NewDrain(q).phase = "start" /\ NewDrain(q).todo = q
         /\ NoDrain \in Drains /\ NoDrain.phase = "off" /\ NoDrain.todo = <<>>
<1>1. ToSet(q) \subseteq Handoffs
  BY ElementsOfSeq
<1>2. <<>> \in Seq(Handoffs)
  BY EmptySeq
<1> QED BY <1>1, <1>2, SMT DEF NewDrain, NoDrain, Drains, Phases

LEMMA Requested ==
  ASSUME drain \in [Threads -> Drains], pending \in [Threads -> Seq(Handoffs)],
         redrain \subseteq Threads, NEW ts, ts \subseteq Threads, Request(ts, pending)
  PROVE  /\ drain' \in [Threads -> Drains] /\ redrain' \subseteq Threads
         /\ \A u \in Threads :
              drain'[u] = drain[u] \/ (u \in ts /\ drain[u].phase = "off" /\ pending[u] # <<>>
                                       /\ drain'[u] = NewDrain(pending[u]))
<1>1. drain' = [u \in Threads |-> IF u \in ts /\ ~Draining(u) /\ pending[u] # <<>>
                                    THEN NewDrain(pending[u]) ELSE drain[u]]
  BY Zenon DEF Request
<1>2. \A u \in Threads : NewDrain(pending[u]) \in Drains /\ drain[u] \in Drains
  BY Fresh
<1>3. drain' \in [Threads -> Drains]
  BY <1>1, <1>2
<1>4. redrain' \subseteq Threads
  BY Zenon DEF Request
<1> QED BY <1>1, <1>3, <1>4, Zenon DEF Draining
-----------------------------------------------------------------------------
(* What the steps do to the invariant, type correctness apart.             *)

\* Where a drain is, when the types and the queues are right.
LEMMA Drained ==
  ASSUME TypeOK, Queues, NEW t \in Threads
  PROVE  /\ pending[t] \in Seq(Handoffs) /\ IsInjective(pending[t])
         /\ drain[t] \in Drains /\ drain[t].phase \in Phases
         /\ drain[t].todo \in Seq(Handoffs) /\ IsInjective(drain[t].todo)
         /\ drain[t].phase \notin {"off", "next"} => drain[t].todo # <<>>
         /\ drain[t].todo # <<>>
              => Current(t) \in ToSet(drain[t].todo) /\ Current(t) \in Handoffs
<1>1. pending[t] \in Seq(Handoffs) /\ drain[t] \in Drains
  BY Zenon DEF TypeOK
<1>2. drain[t].phase \in Phases /\ drain[t].todo \in Seq(Handoffs)
  BY <1>1, SMT DEF Drains
<1>3. /\ IsInjective(pending[t]) /\ IsInjective(drain[t].todo)
      /\ drain[t].phase \notin {"off", "next"} => drain[t].todo # <<>>
  BY Zenon DEF Queues
<1> QED BY <1>1, <1>2, <1>3, HeadAndTail DEF Current

Rest == Queues /\ Counts /\ Settles /\ NeverForgotten

\* A step that touches neither queues nor drains, and takes no receipt back.
LEMMA Aside ==
  ASSUME IInv, UNCHANGED <<pending, drain, queued, runs, lost, crashes>>,
         \A h \in Handoffs : receipt[h] # None => receipt'[h] # None
  PROVE  Rest'
<1> USE DelegationsAssumption DEF IInv
<1>1. Queues' /\ Counts'
  BY Zenon DEF Queues, Counts, Awaits, Acking, Pending, Current
<1>2. Settles' /\ NeverForgotten'
<2>1. \A t \in Threads : drain[t].phase = "ack" => Current(t) \in Handoffs
  BY Drained
<2>2. queued \subseteq Handoffs
  BY DEF TypeOK
<2> QED BY <2>1, <2>2, Zenon DEF Settles, Settled, NeverForgotten, Pending, Current
<1> QED BY <1>1, <1>2 DEF Rest

\* A step of one drain that gets to a later phase of its head, and perhaps settles it.
LEMMA Onward ==
  ASSUME IInv, NEW t \in Threads, NEW p \in Phases \ {"off", "start", "next"}, drain' = Enter(t, p),
         drain[t].phase \notin {"off", "ack"}, drain[t].todo # <<>>,
         UNCHANGED <<pending, queued, lost, crashes>>,
         \A h \in Handoffs : receipt[h] # None => receipt'[h] # None,
         \/ UNCHANGED runs
         \/ p = "ack" /\ runs' = [runs EXCEPT ![Current(t)] = @ + 1],
         p = "ack" => Settled(Current(t))'
  PROVE  Rest'
<1> USE DelegationsAssumption DEF IInv
<1>1. /\ drain'[t].phase = p /\ drain'[t].todo = drain[t].todo
      /\ \A u \in Threads : drain'[u].todo = drain[u].todo
      /\ \A u \in Threads \ {t} : drain'[u] = drain[u]
  BY Entered DEF TypeOK
<1>2. \A u \in Threads : drain[u].todo # <<>>
        => Current(u) \in ToSet(drain[u].todo) /\ Current(u) \in Handoffs
  BY Drained
<1>3. Queues'
<2>1. \A u \in Threads : drain'[u].phase \notin {"off", "next"} => drain'[u].todo # <<>>
  BY <1>1, SMT DEF Queues
<2>2. ASSUME NEW u \in Threads
      PROVE  /\ IsInjective(pending'[u]) /\ IsInjective(drain'[u].todo)
             /\ \A h \in ToSet(pending'[u]) \cup ToSet(drain'[u].todo) :
                  Source[h] = u /\ h \in queued'
<3>1. pending'[u] = pending[u] /\ drain'[u].todo = drain[u].todo /\ queued' = queued
  BY <1>1
<3> QED BY <3>1, SMT DEF Queues
<2> QED BY <2>1, <2>2, Zenon DEF Queues
<1>4. \A u \in Threads : Current(u)' = Current(u)
  BY <1>1, Zenon DEF Current
<1>5. /\ Source[Current(t)] = t /\ Current(t) \in Handoffs /\ Current(t) \in queued
      /\ Awaits(Current(t)) /\ ~Acking(Current(t))
  BY <1>2, Zenon DEF Queues, Awaits, Acking
<1>6. Counts'
<2> SUFFICES ASSUME NEW h \in Handoffs
             PROVE  /\ runs'[h] <= 1 + crashes /\ (h \notin queued => runs'[h] = 0)
                    /\ Awaits(h)' /\ ~Acking(h)' => runs'[h] <= crashes
  BY Zenon DEF Counts
<2>1. Source[h] \in Threads /\ runs[h] \in Nat /\ crashes \in Nat
  BY SMT DEF TypeOK
<2>2. Awaits(h)' <=> Awaits(h)
  BY <1>1, <2>1, Zenon DEF Awaits, Pending
<2>3. CASE h = Current(t)
<3>1. Acking(h)' <=> p = "ack"
  BY <1>1, <1>4, <1>5, <2>3, Zenon DEF Acking
<3>2. runs'[h] = runs[h] \/ (p = "ack" /\ runs'[h] = runs[h] + 1)
  BY <2>3, SMT DEF TypeOK
<3>3. runs[h] <= crashes
  BY <1>5, <2>3, Zenon DEF Counts
<3> QED BY <1>5, <2>1, <2>3, <3>1, <3>2, <3>3, SMT
<2>4. CASE h # Current(t)
<3>1. Acking(h)' <=> Acking(h)
<4>1. CASE Source[h] = t
  BY <1>1, <1>4, <2>4, <4>1, Zenon DEF Acking
<4>2. CASE Source[h] # t
  BY <1>1, <1>4, <2>1, <4>2, Zenon DEF Acking
<4> QED BY <4>1, <4>2
<3>2. runs'[h] = runs[h]
  BY <2>4, SMT DEF TypeOK
<3> QED BY <2>2, <3>1, <3>2, Zenon DEF Counts
<2> QED BY <2>3, <2>4
<1>7. \A h \in Handoffs : Settled(h) => Settled(h)'
<2>1. \A h \in Handoffs : runs[h] > 0 => runs'[h] > 0
<3>1. runs \in [Handoffs -> Nat]
  BY DEF TypeOK
<3> QED BY <1>5, <3>1, SMT
<2> QED BY <2>1, Zenon DEF Settled
<1>8. Settles'
<2> SUFFICES ASSUME NEW u \in Threads, drain'[u].phase = "ack" PROVE Settled(Current(u))'
  BY Zenon DEF Settles
<2>1. CASE u = t
  BY <1>1, <2>1, Zenon
<2>2. CASE u # t
<3>1. drain[u].phase = "ack"
  BY <1>1, <2>2, Zenon
<3>2. Settled(Current(u)) /\ Current(u) \in Handoffs
  BY <1>2, <3>1, Zenon DEF Settles, Queues
<3> QED BY <1>4, <1>7, <3>2, Zenon DEF Settled
<2> QED BY <2>1, <2>2
<1>9. NeverForgotten'
  BY <1>7, Zenon DEF NeverForgotten, Pending, Settled, TypeOK
<1> QED BY <1>3, <1>6, <1>8, <1>9 DEF Rest

\* A drain goes on to the next handoff: the head stays queued, or leaves the queue when
\* it is settled.
LEMMA Passed ==
  ASSUME IInv, NEW t \in Threads, drain' = Advance(t),
         drain[t].todo # <<>>, UNCHANGED <<queued, lost, crashes, runs, receipt>>,
         \/ drain[t].phase # "ack" /\ UNCHANGED pending
         \/ Settled(Current(t))
            /\ pending' = [pending EXCEPT ![t] = RemoveFirst(@, Current(t))]
  PROVE  Rest' /\ pending' \in [Threads -> Seq(Handoffs)] /\ drain' \in [Threads -> Drains]
<1> USE DEF IInv
<1>1. /\ Tail(drain[t].todo) \in Seq(Handoffs) /\ IsInjective(Tail(drain[t].todo))
      /\ ToSet(Tail(drain[t].todo)) = ToSet(drain[t].todo) \ {Current(t)}
      /\ Current(t) \in ToSet(drain[t].todo) /\ Current(t) \in Handoffs
  BY Drained, HeadAndTail DEF Current
<1>2. /\ drain' \in [Threads -> Drains]
      /\ drain'[t].phase = "next" /\ drain'[t].todo = Tail(drain[t].todo)
      /\ \A u \in Threads \ {t} : drain'[u] = drain[u]
  BY <1>1, Advanced DEF TypeOK
<1>3. /\ pending' \in [Threads -> Seq(Handoffs)] /\ IsInjective(pending'[t])
      /\ \A u \in Threads \ {t} : pending'[u] = pending[u]
      /\ \/ drain[t].phase # "ack" /\ ToSet(pending'[t]) = ToSet(pending[t])
         \/ Settled(Current(t)) /\ ToSet(pending'[t]) = ToSet(pending[t]) \ {Current(t)}
<2>1. CASE drain[t].phase # "ack" /\ UNCHANGED pending
  BY <2>1, Drained DEF TypeOK
<2>2. CASE /\ Settled(Current(t))
           /\ pending' = [pending EXCEPT ![t] = RemoveFirst(@, Current(t))]
<3>1. /\ RemoveFirst(pending[t], Current(t)) \in Seq(Handoffs)
      /\ IsInjective(RemoveFirst(pending[t], Current(t)))
      /\ ToSet(RemoveFirst(pending[t], Current(t))) = ToSet(pending[t]) \ {Current(t)}
  BY Drained, RemoveFirstElements
<3>2. pending \in [Threads -> Seq(Handoffs)]
  BY DEF TypeOK
<3> QED BY <2>2, <3>1, <3>2
<2> QED BY <2>1, <2>2
<1>4. Queues'
<2> SUFFICES ASSUME NEW u \in Threads
             PROVE  /\ IsInjective(pending'[u]) /\ IsInjective(drain'[u].todo)
                    /\ \A h \in ToSet(pending'[u]) \cup ToSet(drain'[u].todo) :
                         Source[h] = u /\ h \in queued
                    /\ drain'[u].phase \notin {"off", "next"} => drain'[u].todo # <<>>
  BY Zenon DEF Queues
<2>1. CASE u = t
  BY <1>1, <1>2, <1>3, <2>1, SMT DEF Queues
<2>2. CASE u # t
  BY <1>2, <1>3, <2>2, SMT DEF Queues
<2> QED BY <2>1, <2>2
<1>5. Source[Current(t)] = t
  BY <1>1, Zenon DEF Queues
<1>6. Counts'
<2> SUFFICES ASSUME NEW h \in Handoffs, Awaits(h)', ~Acking(h)' PROVE runs[h] <= crashes
  BY Zenon DEF Counts
<2>1. Source[h] \in Threads
  BY DelegationsAssumption
<2>2. CASE Source[h] = t
<3>1. drain[t].phase # "ack" \/ h # Current(t)
  BY <1>1, <1>2, <1>3, <2>2, SMT DEF Awaits, Pending
<3>2. ~Acking(h)
  BY <2>2, <3>1, Zenon DEF Acking
<3>3. Awaits(h)
  BY <1>1, <1>2, <1>3, <2>2, SMT DEF Awaits, Pending
<3> QED BY <3>2, <3>3, Zenon DEF Counts
<2>3. CASE Source[h] # t
<3>1. /\ drain'[Source[h]] = drain[Source[h]] /\ pending'[Source[h]] = pending[Source[h]]
  BY <1>2, <1>3, <2>1, <2>3
<3>2. Awaits(h) /\ ~Acking(h)
  BY <3>1, SMT DEF Awaits, Pending, Acking, Current
<3> QED BY <3>2, Zenon DEF Counts
<2> QED BY <2>2, <2>3
<1>7. Settles'
<2> SUFFICES ASSUME NEW u \in Threads, drain'[u].phase = "ack" PROVE Settled(Current(u))'
  BY Zenon DEF Settles
<2>1. u # t
  BY <1>2
<2>2. drain'[u] = drain[u]
  BY <1>2, <2>1
<2> QED BY <2>2, SMT DEF Settles, Settled, Current
<1>8. NeverForgotten'
<2> SUFFICES ASSUME NEW h \in queued, ~(runs[h] > 0), receipt[h] = None, h \notin lost PROVE Pending(h)'
  BY Zenon DEF NeverForgotten
<2>1. Pending(h) /\ h \in Handoffs /\ Source[h] \in Threads
  BY DelegationsAssumption DEF NeverForgotten, TypeOK
<2>2. ~Settled(h)
  BY DEF Settled, TypeOK
<2>3. CASE Source[h] = t
  BY <1>3, <2>1, <2>2, <2>3, SMT DEF Pending
<2>4. CASE Source[h] # t
  BY <1>3, <2>1, <2>4, SMT DEF Pending
<2> QED BY <2>3, <2>4
<1> QED BY <1>2, <1>3, <1>4, <1>6, <1>7, <1>8 DEF Rest

\* The handoffs of a queue have their receipts, or a crash kept them from it.
Told(u) == \A h \in ToSet(pending[u]) : receipt'[h] # None \/ h \in lost'

\* Drains begin and end, in this life of the process or the next; a queue may be
\* dropped, with a receipt for each of its handoffs.
LEMMA Renewed ==
  ASSUME IInv, UNCHANGED <<queued, runs>>, lost \subseteq lost', crashes' = crashes \/ crashes' = crashes + 1,
         \A h \in Handoffs : receipt[h] # None => receipt'[h] # None,
         \A u \in Threads :
           \/ /\ drain'[u] = drain[u] /\ crashes' = crashes
              /\ \/ pending'[u] = pending[u]
                 \/ pending'[u] = <<>> /\ Told(u)
           \/ /\ pending'[u] = pending[u]
              /\ drain'[u] = NoDrain \/ (pending[u] # <<>> /\ drain'[u] = NewDrain(pending[u]))
              /\ drain[u].phase # "ack" \/ crashes' = crashes + 1
           \/ pending'[u] = <<>> /\ Told(u) /\ drain'[u] = NoDrain /\ crashes' = crashes + 1
  PROVE  Rest'
<1> USE DEF IInv
<1>1. crashes \in Nat /\ \A h \in Handoffs : runs[h] \in Nat /\ Source[h] \in Threads
  BY DelegationsAssumption, SMT DEF TypeOK
<1>2. ASSUME NEW u \in Threads
      PROVE  /\ IsInjective(pending'[u]) /\ IsInjective(drain'[u].todo)
             /\ ToSet(pending'[u]) \subseteq ToSet(pending[u])
             /\ \/ drain'[u] = drain[u] /\ crashes' = crashes
                \/ /\ ToSet(drain'[u].todo) \subseteq ToSet(pending[u])
                   /\ drain'[u].phase # "ack" /\ (drain[u].phase # "ack" \/ crashes' = crashes + 1)
             /\ drain'[u].phase \notin {"off", "next"} => drain'[u].todo # <<>>
             /\ \A h \in ToSet(pending[u]) : h \in ToSet(pending'[u]) \/ receipt'[h] # None \/ h \in lost'
<2>1. /\ IsInjective(pending[u]) /\ IsInjective(drain[u].todo) /\ pending[u] \in Seq(Handoffs)
      /\ drain[u].phase \notin {"off", "next"} => drain[u].todo # <<>>
  BY Drained
<2>2. /\ NewDrain(pending[u]).phase = "start" /\ NewDrain(pending[u]).todo = pending[u]
      /\ NoDrain.phase = "off" /\ NoDrain.todo = <<>>
  BY <2>1, Fresh
<2>3. ToSet(<<>>) = {} /\ IsInjective(<<>>)
  BY ElementsOfEmpty DEF IsInjective
<2>4. CASE /\ drain'[u] = drain[u] /\ crashes' = crashes
           /\ \/ pending'[u] = pending[u]
              \/ pending'[u] = <<>> /\ Told(u)
  BY <2>1, <2>3, <2>4, SMT DEF Told
<2>5. CASE /\ pending'[u] = pending[u] /\ drain'[u] = NoDrain
           /\ drain[u].phase # "ack" \/ crashes' = crashes + 1
  BY <2>1, <2>2, <2>3, <2>5, SMT
<2>6. CASE /\ pending'[u] = pending[u] /\ pending[u] # <<>> /\ drain'[u] = NewDrain(pending[u])
           /\ drain[u].phase # "ack" \/ crashes' = crashes + 1
  BY <2>1, <2>2, <2>6, SMT
<2>7. CASE pending'[u] = <<>> /\ Told(u) /\ drain'[u] = NoDrain /\ crashes' = crashes + 1
  BY <2>1, <2>2, <2>3, <2>7, SMT DEF Told
<2> QED BY <2>4, <2>5, <2>6, <2>7
<1>3. Queues'
<2> SUFFICES ASSUME NEW u \in Threads
             PROVE  \A h \in ToSet(pending'[u]) \cup ToSet(drain'[u].todo) : Source[h] = u /\ h \in queued
  BY <1>2, Zenon DEF Queues
<2>1. \A h \in ToSet(pending[u]) \cup ToSet(drain[u].todo) : Source[h] = u /\ h \in queued
  BY Zenon DEF Queues
<2>2. ToSet(drain'[u].todo) \subseteq ToSet(drain[u].todo) \cup ToSet(pending[u])
  BY <1>2, SMT
<2> QED BY <1>2, <2>1, <2>2, Zenon
<1>4. Counts'
<2> SUFFICES ASSUME NEW h \in Handoffs
             PROVE  /\ runs[h] <= 1 + crashes' /\ (h \notin queued => runs[h] = 0)
                    /\ Awaits(h)' /\ ~Acking(h)' => runs[h] <= crashes'
  BY Zenon DEF Counts
<2>1. runs[h] <= 1 + crashes /\ (h \notin queued => runs[h] = 0)
  BY Zenon DEF Counts
<2>2. CASE crashes' = crashes + 1
  BY <1>1, <2>1, <2>2, SMT
<2>3. CASE crashes' = crashes
<3> SUFFICES ASSUME Awaits(h)', ~Acking(h)' PROVE runs[h] <= crashes
  BY <2>1, <2>3
<3>0. PICK u \in Threads : u = Source[h]
  BY <1>1
<3>1. Awaits(h)
<4>1. h \in ToSet(pending'[u]) \/ h \in ToSet(drain'[u].todo)
  BY <3>0, Zenon DEF Awaits, Pending
<4>2. ToSet(pending'[u]) \subseteq ToSet(pending[u])
  BY <1>2
<4>3. ToSet(drain'[u].todo) \subseteq ToSet(pending[u]) \/ drain'[u] = drain[u]
  BY <1>2
<4>4. h \in ToSet(pending[u]) \/ h \in ToSet(drain[u].todo)
  BY <4>1, <4>2, <4>3, SMT
<4> QED BY <3>0, <4>4, Zenon DEF Awaits, Pending
<3>2. ~Acking(h)
  BY <1>1, <1>2, <2>3, SMT DEF Acking, Current
<3> QED BY <3>1, <3>2, Zenon DEF Counts
<2> QED BY <2>2, <2>3
<1>5. Settles'
<2> SUFFICES ASSUME NEW u \in Threads, drain'[u].phase = "ack" PROVE Settled(Current(u))'
  BY Zenon DEF Settles
<2>1. drain'[u] = drain[u]
  BY <1>2
<2>2. Settled(Current(u)) /\ Current(u) \in Handoffs
  BY <2>1, Drained DEF Settles
<2> QED BY <2>1, <2>2, SMT DEF Settled, Current
<1>6. NeverForgotten'
<2>1. \A h \in queued : h \in Handoffs
  BY DEF TypeOK
<2> QED BY <1>1, <1>2, <2>1, SMT DEF NeverForgotten, Pending
<1> QED BY <1>3, <1>4, <1>5, <1>6 DEF Rest

\* delegate_bot.
LEMMA Queueing ==
  ASSUME IInv, NEW h \in Handoffs, Queue(h)
  PROVE  Rest' /\ pending' \in [Threads -> Seq(Handoffs)]
<1> USE DEF IInv
<1>1. PICK t \in Threads : t = Source[h]
  BY DelegationsAssumption
<1>2. /\ h \notin queued /\ pending' = [pending EXCEPT ![t] = Append(@, h)]
      /\ queued' = queued \cup {h} /\ UNCHANGED <<drain, receipt, runs, lost, crashes>>
  BY <1>1, Zenon DEF Queue
<1>3. pending[t] \in Seq(Handoffs) /\ IsInjective(pending[t]) /\ h \notin ToSet(pending[t])
  BY <1>2, Drained, SMT DEF Queues
<1>4. /\ Append(pending[t], h) \in Seq(Handoffs) /\ IsInjective(Append(pending[t], h))
      /\ ToSet(Append(pending[t], h)) = ToSet(pending[t]) \cup {h}
  BY <1>3, AppendElements, AppendKeepsDistinct
<1>5. pending \in [Threads -> Seq(Handoffs)]
  BY DEF TypeOK
<1>6. /\ pending' \in [Threads -> Seq(Handoffs)] /\ IsInjective(pending'[t])
      /\ ToSet(pending'[t]) = ToSet(pending[t]) \cup {h}
      /\ \A u \in Threads \ {t} : pending'[u] = pending[u]
  BY <1>2, <1>4, <1>5
<1>7. Queues'
<2> SUFFICES ASSUME NEW u \in Threads
             PROVE  /\ IsInjective(pending'[u])
                    /\ \A k \in ToSet(pending'[u]) \cup ToSet(drain[u].todo) :
                         Source[k] = u /\ k \in queued'
  BY <1>2, Zenon DEF Queues
<2>1. CASE u = t
  BY <1>1, <1>2, <1>6, <2>1, SMT DEF Queues
<2>2. CASE u # t
  BY <1>2, <1>6, <2>2, SMT DEF Queues
<2> QED BY <2>1, <2>2
<1>8. Counts'
<2> SUFFICES ASSUME NEW k \in Handoffs
             PROVE  /\ runs[k] <= 1 + crashes /\ (k \notin queued' => runs[k] = 0)
                    /\ Awaits(k)' /\ ~Acking(k)' => runs[k] <= crashes
  BY <1>2, Zenon DEF Counts
<2>1. CASE k = h
  BY <1>2, <2>1, SMT DEF Counts, TypeOK
<2>2. CASE k # h
<3>1. Source[k] \in Threads
  BY DelegationsAssumption
<3>2. Awaits(k)' => Awaits(k)
  BY <1>2, <1>6, <2>2, <3>1, SMT DEF Awaits, Pending
<3>3. Acking(k)' <=> Acking(k)
  BY <1>2, Zenon DEF Acking, Current
<3> QED BY <1>2, <3>2, <3>3, Zenon DEF Counts
<2> QED BY <2>1, <2>2
<1>9. Settles'
<2> SUFFICES ASSUME NEW u \in Threads, drain[u].phase = "ack" PROVE Settled(Current(u))
  BY <1>2, Zenon DEF Settles, Settled, Current
<2> QED BY Zenon DEF Settles
<1>10. NeverForgotten'
<2> SUFFICES ASSUME NEW k \in queued' PROVE Pending(k)' \/ runs[k] > 0 \/ receipt[k] # None \/ k \in lost
  BY <1>2, Zenon DEF NeverForgotten
<2>1. CASE k = h
  BY <1>1, <1>6, <2>1, SMT DEF Pending
<2>2. CASE k # h
<3>1. k \in queued /\ k \in Handoffs /\ Source[k] \in Threads
  BY <1>2, <2>2, DelegationsAssumption DEF TypeOK
<3>2. Pending(k) => Pending(k)'
  BY <1>6, <3>1, SMT DEF Pending
<3> QED BY <3>1, <3>2, Zenon DEF NeverForgotten
<2> QED BY <2>1, <2>2
<1> QED BY <1>6, <1>7, <1>8, <1>9, <1>10 DEF Rest
-----------------------------------------------------------------------------
(* Type correctness: the books, and the queues and drains.                 *)

Books ==
  /\ turn \in [Bots -> Threads \cup {Room, None}]
  /\ activity \in [Bots -> {"idle", "working", "waiting-on-you"}]
  /\ attempts \in [Handoffs -> 0..(MaxBusy - 1)]
  /\ resume \in [Threads -> {"idle", "working"}]
  /\ watch \in [Threads -> Handoffs \cup {None}]
  /\ receipt \in [Handoffs -> Outcomes \cup {None}]
  /\ queued \subseteq Handoffs /\ fresh \subseteq queued /\ lost \subseteq Handoffs
  /\ runs \in [Handoffs -> Nat]
  /\ crashes \in 0..MaxCrashes

Machines ==
  /\ pending \in [Threads -> Seq(Handoffs)] /\ drain \in [Threads -> Drains]
  /\ redrain \subseteq Threads

LEMMA TypeParts == TypeOK <=> Books /\ Machines
  BY Zenon DEF TypeOK, Books, Machines

LEMMA BooksInit == Init => Books
  BY DelegationsAssumption, SMT DEF Init, Books

LEMMA BooksOfRun ==
  ASSUME Books, NEW t \in Threads, Current(t) \in Handoffs, Run(t)
  PROVE  Books'
<1> USE DEF Books
<1>1. PICK h \in Handoffs : h = Current(t)
  OBVIOUS
<1>2. To[h] \in Bots /\ Home[To[h]] \in Threads
  BY DelegationsAssumption
<1>3. UNCHANGED <<attempts, resume, queued, fresh, lost, crashes>>
  BY Zenon DEF Run, history
<1>4. CASE /\ watch' = [watch EXCEPT ![Home[To[h]]] = h]
           /\ turn' = [turn EXCEPT ![To[h]] = Home[To[h]]]
           /\ activity' = [activity EXCEPT ![To[h]] = "working"]
           /\ runs' = [runs EXCEPT ![h] = @ + 1] /\ UNCHANGED receipt
  BY <1>2, <1>3, <1>4, SMT
<1>5. CASE /\ Unwatch(Home[To[h]]) /\ receipt' = [receipt EXCEPT ![h] = "failed"]
           /\ UNCHANGED <<turn, activity, runs>>
  BY <1>2, <1>3, <1>5, SMT DEF Unwatch, Outcomes
<1> QED BY <1>1, <1>4, <1>5, Zenon DEF Run

LEMMA BooksOfBusy ==
  ASSUME Books, NEW t \in Threads, Current(t) \in Handoffs, FoundBusy(t)
  PROVE  Books'
<1>1. PICK h \in Handoffs : h = Current(t)
  OBVIOUS
<1>2. UNCHANGED <<turn, activity, resume, watch, runs, queued, fresh, lost, crashes>>
  BY Zenon DEF FoundBusy, history
<1>3. \/ attempts[h] + 1 < MaxBusy /\ attempts' = [attempts EXCEPT ![h] = @ + 1] /\ UNCHANGED receipt
      \/ UNCHANGED attempts /\ receipt' = [receipt EXCEPT ![h] = "busy_gave_up"]
  BY <1>1, Zenon DEF FoundBusy
<1> QED BY <1>2, <1>3, DelegationsAssumption, SMT DEF Books, Outcomes

\* A crash that leaves the queues q empties at most the one whose discard it cut, takes no
\* receipt back and calls failed only what an ended turn was watched for.
Crashed(q) ==
  /\ q \in [Threads -> Seq(Handoffs)] /\ Reborn(q)
  /\ \A u \in Threads : q[u] = pending[u] \/ (q[u] = <<>> /\ Told(u))
  /\ receipt' \in [Handoffs -> Outcomes \cup {None}]
  /\ \A h \in Handoffs : \/ receipt'[h] = receipt[h]
                         \/ receipt'[h] = "dropped"
                         \/ receipt'[h] = "failed" /\ \E t \in Threads : watch[t] = h
  /\ lost \subseteq lost' /\ lost' \subseteq Handoffs

LEMMA CrashFacts ==
  ASSUME Books, Machines, Crash
  PROVE  \E q : Crashed(q)
<1>1. "failed" \in Outcomes /\ "dropped" \in Outcomes
  BY DEF Outcomes
<1>2. ASSUME NEW t \in Threads
      PROVE  \A h \in Handoffs : Finalized(t, "failed")[h] = IF watch[t] = h THEN "failed" ELSE receipt[h]
  BY DEF Finalized
<1>3. pending \in [Threads -> Seq(Handoffs)] /\ receipt \in [Handoffs -> Outcomes \cup {None}]
      /\ lost \subseteq Handoffs
  BY DEF Books, Machines
<1>4. CASE Restart
  BY <1>3, <1>4, Zenon DEF Restart, Crashed
<1>5. CASE CutReload
  <2>1. PICK settled \in SUBSET {b \in Bots : Busy(b)} :
          /\ Reborn(pending) /\ UNCHANGED lost
          /\ receipt' = [h \in Handoffs |->
               IF \E b \in settled : watch[Home[b]] = h THEN "failed" ELSE receipt[h]]
    BY <1>5, Zenon DEF CutReload
  <2>2. \A h \in Handoffs : receipt'[h] = receipt[h]
                          \/ (receipt'[h] = "failed" /\ \E t \in Threads : watch[t] = h)
    BY <2>1, DelegationsAssumption
  <2>3. receipt' \in [Handoffs -> Outcomes \cup {None}]
    BY <1>1, <1>3, <2>1
  <2> QED BY <1>3, <2>1, <2>2, <2>3, Zenon DEF Crashed
<1>6. ASSUME NEW b \in Bots, CutBefore(b) PROVE Crashed(pending)
  <2>1. PICK t \in Threads : t = turn[b]
    BY <1>6, Zenon DEF CutBefore
  <2>2. Reborn(pending) /\ UNCHANGED lost /\ receipt' = Finalized(t, "failed")
    BY <1>6, <2>1, Zenon DEF CutBefore
  <2>3. receipt' \in [Handoffs -> Outcomes \cup {None}]
    BY <1>1, <1>3, <2>2 DEF Finalized
  <2>4. \A h \in Handoffs : receipt'[h] = receipt[h]
                          \/ (receipt'[h] = "failed" /\ \E u \in Threads : watch[u] = h)
    BY <1>2, <2>2
  <2> QED BY <1>3, <2>2, <2>3, <2>4, Zenon DEF Crashed
<1>7. ASSUME NEW b \in Bots, NEW n, CutShort(b, n) PROVE \E q : Crashed(q)
  <2>1. PICK t \in Threads : t = turn[b]
    BY <1>7, Zenon DEF CutShort
  <2>2. PICK told : told = {pending[t][i] : i \in 1..n}
    OBVIOUS
  <2>3. PICK q : q = [pending EXCEPT ![t] = <<>>]
    OBVIOUS
  <2>4. /\ receipt' = [h \in Handoffs |-> IF h \in told THEN "dropped" ELSE Finalized(t, "failed")[h]]
        /\ lost' = lost \cup (ToSet(pending[t]) \ told) /\ Reborn(q)
    BY <1>7, <2>1, <2>2, <2>3 DEF CutShort
  <2>5. ToSet(pending[t]) \subseteq Handoffs
    BY <1>3, ElementsOfSeq
  <2>6. receipt' \in [Handoffs -> Outcomes \cup {None}]
    <3>1. \A h \in Handoffs : Finalized(t, "failed")[h] \in Outcomes \cup {None}
      BY <1>1, <1>2, <1>3
    <3> QED BY <1>1, <2>4, <3>1
  <2>7. \A h \in Handoffs : receipt'[h] = receipt[h] \/ receipt'[h] = "dropped"
          \/ (receipt'[h] = "failed" /\ \E u \in Threads : watch[u] = h)
    BY <1>2, <2>4
  <2>8. Told(t)
    BY <1>1, <2>4, <2>5, DelegationsAssumption DEF Told
  <2>9. lost \subseteq lost' /\ lost' \subseteq Handoffs
    BY <1>3, <2>4, <2>5
  <2>10. <<>> \in Seq(Handoffs)
    BY EmptySeq
  <2>11. q \in [Threads -> Seq(Handoffs)] /\ \A u \in Threads : q[u] = IF u = t THEN <<>> ELSE pending[u]
    BY <1>3, <2>3, <2>10
  <2>12. \A u \in Threads : q[u] = pending[u] \/ (q[u] = <<>> /\ Told(u))
    BY <2>8, <2>11
  <2> QED BY <2>4, <2>6, <2>7, <2>9, <2>11, <2>12, Zenon DEF Crashed
<1> QED BY <1>4, <1>5, <1>6, <1>7, Zenon DEF Crash

\* What a drain is at is a handoff.
HeadsKnown == \A t \in Threads :
  drain[t].phase \in {"denied", "allowed"} \/ drain[t].todo # <<>> => Current(t) \in Handoffs

LEMMA BooksStep ==
  ASSUME Books, Machines, [Next]_vars, HeadsKnown
  PROVE  Books'
<1> USE DelegationsAssumption DEF Books, HeadsKnown
<1>1. ASSUME NEW b \in Bots, NEW t \in Threads \cup {Room}, StartTurn(b, t) PROVE Books'
  BY <1>1, SMT DEF StartTurn, history
<1>2. ASSUME NEW h \in Handoffs, Queue(h) PROVE Books'
  BY <1>2, SMT DEF Queue
<1>3. ASSUME NEW b \in Bots, NEW ok \in BOOLEAN, Complete(b, ok) PROVE Books'
<2>1. /\ Ended(b) /\ Unwatch(turn[b]) /\ turn[b] \in Threads
      /\ UNCHANGED <<attempts, resume, queued, runs, lost, crashes>>
      /\ \/ receipt' = Finalized(turn[b], "done")
         \/ receipt' = [h \in Handoffs |-> IF h \in ToSet(pending[turn[b]])
                          THEN "dropped" ELSE Finalized(turn[b], "failed")[h]]
  BY <1>3, Zenon DEF Complete
<2>2. receipt' \in [Handoffs -> Outcomes \cup {None}]
  BY <2>1, SMT DEF Finalized, Outcomes
<2> QED BY <2>1, <2>2, SMT DEF Ended, Unwatch
<1>4. ASSUME NEW b \in Bots, CompleteRoom(b) PROVE Books'
  BY <1>4, SMT DEF CompleteRoom, Ended
<1>5. ASSUME NEW b \in Bots, EndSilently(b) PROVE Books'
<2>1. receipt' \in [Handoffs -> Outcomes \cup {None}]
  BY <1>5, SMT DEF EndSilently, Finalized, Outcomes
<2> QED BY <1>5, <2>1, SMT DEF EndSilently, Ended, Unwatch
<1>6. ASSUME NEW t \in Threads, NEW v \in {"allowed", "denied"}, Answer(t, v) PROVE Books'
  BY <1>6, SMT DEF Answer, history
<1>7. ASSUME NEW t \in Threads, Process(t) PROVE Books'
<2>1. Current(t) \in Handoffs
  BY <1>7, Zenon DEF Process
<2>2. CASE OpenGate(t)
  BY <2>2, SMT DEF OpenGate, history
<2> QED BY <1>7, <2>1, <2>2, BooksOfRun, BooksOfBusy, Zenon DEF Process
<1>8. ASSUME NEW t \in Threads, Allowed(t) PROVE Books'
<2>1. Current(t) \in Handoffs
<3>1. drain[t].phase = "allowed"
  BY <1>8, Zenon DEF Allowed
<3> QED BY <3>1
<2> QED BY <1>8, <2>1, BooksOfRun, BooksOfBusy, Zenon DEF Allowed
<1>9. ASSUME NEW t \in Threads, Denied(t) PROVE Books'
<2>1. Current(t) \in Handoffs
<3>1. drain[t].phase = "denied"
  BY <1>9, Zenon DEF Denied
<3> QED BY <3>1
<2> QED BY <1>9, <2>1, SMT DEF Denied, history, Outcomes
<1>10. ASSUME NEW t \in Threads, Acknowledge(t) \/ Finish(t) PROVE Books'
<2>1. UNCHANGED <<turn, activity, attempts, resume, watch, receipt, runs, queued, fresh, lost, crashes>>
  BY <1>10, Zenon DEF Acknowledge, Finish, history
<2> QED BY <2>1
<1>11. CASE Reload
<2>1. receipt' \in [Handoffs -> Outcomes \cup {None}]
  BY <1>11, SMT DEF Reload, Outcomes
<2>2. watch' \in [Threads -> Handoffs \cup {None}]
  BY <1>11, SMT DEF Reload
<2> QED BY <1>11, <2>1, <2>2, SMT DEF Reload
<1>12. CASE Crash
<2>1. PICK q : Reborn(q) /\ receipt' \in [Handoffs -> Outcomes \cup {None}] /\ lost' \subseteq Handoffs
  BY <1>12, CrashFacts, Zenon DEF Crashed
<2> QED BY <2>1, SMT DEF Reborn
<1>13. CASE UNCHANGED vars
  BY <1>13, Zenon DEF vars, history
<1> HIDE DEF Books
<1> QED BY <1>1, <1>2, <1>3, <1>4, <1>5, <1>6, <1>7, <1>8, <1>9, <1>10, <1>11, <1>12, <1>13, Zenon DEF Next
-----------------------------------------------------------------------------
(* The invariant.                                                          *)

LEMMA InitInv == Init => IInv
<1> SUFFICES ASSUME Init PROVE IInv
  OBVIOUS
<1>1. <<>> \in Seq(Handoffs) /\ ToSet(<<>>) = {} /\ IsInjective(<<>>)
  BY EmptySeq, ElementsOfEmpty DEF IsInjective
<1>2. NoDrain \in Drains /\ NoDrain.phase = "off" /\ NoDrain.todo = <<>>
  BY <1>1, Fresh
<1>3. \A t \in Threads : pending[t] = <<>> /\ drain[t] = NoDrain
  BY Zenon DEF Init
<1>4. Machines
  BY <1>1, <1>2, Zenon DEF Init, Machines
<1>5. Queues /\ Settles
  BY <1>1, <1>2, <1>3, SMT DEF Queues, Settles
<1>6. Counts /\ NeverForgotten
  BY SMT DEF Init, Counts, NeverForgotten
<1> QED BY <1>4, <1>5, <1>6, BooksInit, TypeParts DEF IInv

\* A receipt once written is not taken back.
LEMMA ReceiptsStay ==
  ASSUME Books, NEW t, NEW o \in Outcomes
  PROVE  \A h \in Handoffs : receipt[h] # None => Finalized(t, o)[h] # None
  BY DelegationsAssumption, SMT DEF Books, Finalized

LEMMA BusyInv ==
  ASSUME IInv, NEW t \in Threads, drain[t].phase \notin {"off", "ack"}, drain[t].todo # <<>>,
         FoundBusy(t)
  PROVE  Machines' /\ Rest'
<1>1. UNCHANGED <<pending, redrain, runs, queued, lost, crashes>>
  BY Zenon DEF FoundBusy, history
<1>2. Current(t) \in Handoffs
  BY Drained DEF IInv
<1>3. CASE drain' = Advance(t) /\ UNCHANGED receipt
  BY <1>1, <1>3, Passed DEF IInv, TypeOK, Machines
<1>4. CASE drain' = Enter(t, "ack") /\ receipt' = [receipt EXCEPT ![Current(t)] = "busy_gave_up"]
<2>1. "busy_gave_up" # None /\ receipt \in [Handoffs -> Outcomes \cup {None}]
  BY DelegationsAssumption DEF Outcomes, IInv, TypeOK
<2>2. /\ \A h \in Handoffs : receipt[h] # None => receipt'[h] # None
      /\ receipt'[Current(t)] # None
  BY <1>2, <1>4, <2>1
<2>3. Current(t)' = Current(t) /\ drain' \in [Threads -> Drains]
  BY <1>4, Entered DEF IInv, TypeOK, Phases, Current
<2>4. Rest'
  BY <1>1, <1>4, <2>2, <2>3, Onward DEF Phases, Settled
<2> QED BY <1>1, <2>3, <2>4 DEF IInv, TypeOK, Machines
<1> QED BY <1>3, <1>4, Zenon DEF FoundBusy

LEMMA RunInv ==
  ASSUME IInv, NEW t \in Threads, drain[t].phase \notin {"off", "ack"}, drain[t].todo # <<>>,
         Run(t)
  PROVE  Machines' /\ Rest'
<1>1. drain' = Enter(t, "ack") /\ UNCHANGED <<pending, redrain, queued, lost, crashes>>
  BY Zenon DEF Run, history
<1>2. Current(t) \in Handoffs
  BY Drained DEF IInv
<1>3. Current(t)' = Current(t) /\ drain' \in [Threads -> Drains]
  BY <1>1, Entered DEF IInv, TypeOK, Phases, Current
<1>4. receipt \in [Handoffs -> Outcomes \cup {None}] /\ runs \in [Handoffs -> Nat] /\ "failed" # None
  BY DelegationsAssumption DEF IInv, TypeOK, Outcomes
<1>5. CASE runs' = [runs EXCEPT ![Current(t)] = @ + 1] /\ UNCHANGED receipt
<2>1. runs'[Current(t)] > 0
  BY <1>2, <1>4, <1>5
<2> QED BY <1>1, <1>3, <1>5, <2>1, Onward DEF Phases, Settled, IInv, TypeOK, Machines
<1>6. CASE UNCHANGED runs /\ receipt' = [receipt EXCEPT ![Current(t)] = "failed"]
<2>1. /\ \A h \in Handoffs : receipt[h] # None => receipt'[h] # None
      /\ receipt'[Current(t)] # None
  BY <1>2, <1>4, <1>6
<2> QED BY <1>1, <1>3, <1>6, <2>1, Onward DEF Phases, Settled, IInv, TypeOK, Machines
<1> QED BY <1>5, <1>6, Zenon DEF Run

LEMMA CompleteInv ==
  ASSUME IInv, NEW b \in Bots, NEW ok \in BOOLEAN, Complete(b, ok)
  PROVE  Machines' /\ Rest'
<1>1. PICK t \in Threads : t = turn[b]
  BY Zenon DEF Complete
<1>2. UNCHANGED <<queued, runs, lost, crashes>>
  BY Zenon DEF Complete
<1>3. Books /\ Machines
  BY TypeParts DEF IInv
<1>4. CASE ok
<2>1. UNCHANGED pending /\ receipt' = Finalized(t, "done") /\ Request({t} \cup WaitingOn(b), pending)
  BY <1>1, <1>4, Zenon DEF Complete
<2>2. {t} \cup WaitingOn(b) \subseteq Threads
  BY Zenon DEF WaitingOn
<2>3. /\ drain' \in [Threads -> Drains] /\ redrain' \subseteq Threads
      /\ \A u \in Threads :
           drain'[u] = drain[u] \/ (drain[u].phase = "off" /\ pending[u] # <<>>
                                    /\ drain'[u] = NewDrain(pending[u]))
  BY <1>3, <2>1, <2>2, Requested DEF Machines
<2>4. \A h \in Handoffs : receipt[h] # None => receipt'[h] # None
  BY <1>3, <2>1, ReceiptsStay DEF Outcomes
<2> QED BY <1>2, <1>3, <2>1, <2>3, <2>4, Renewed DEF Machines
<1>5. CASE ~ok
<2>1. /\ receipt' = [h \in Handoffs |-> IF h \in ToSet(pending[t])
                        THEN "dropped" ELSE Finalized(t, "failed")[h]]
      /\ pending' = [pending EXCEPT ![t] = <<>>]
      /\ Request(WaitingOn(b) \ {t}, pending)
  BY <1>1, <1>5, Zenon DEF Complete
<2>2. WaitingOn(b) \ {t} \subseteq Threads
  BY Zenon DEF WaitingOn
<2>3. /\ drain' \in [Threads -> Drains] /\ redrain' \subseteq Threads
      /\ \A u \in Threads :
           drain'[u] = drain[u] \/ (u # t /\ drain[u].phase = "off" /\ pending[u] # <<>>
                                    /\ drain'[u] = NewDrain(pending[u]))
  BY <1>3, <2>1, <2>2, Requested DEF Machines
<2>4. \A h \in Handoffs : receipt[h] # None => receipt'[h] # None
  BY <1>3, <2>1, ReceiptsStay, DelegationsAssumption DEF Outcomes
<2>5. Told(t)
<3>1. ToSet(pending[t]) \subseteq Handoffs
  BY <1>3, ElementsOfSeq DEF Machines
<3> QED BY <2>1, <3>1, DelegationsAssumption DEF Outcomes, Told
<2>6. <<>> \in Seq(Handoffs)
  BY EmptySeq
<2>7. /\ pending' \in [Threads -> Seq(Handoffs)] /\ pending'[t] = <<>>
      /\ \A u \in Threads \ {t} : pending'[u] = pending[u]
  BY <1>3, <2>1, <2>6 DEF Machines
<2>8. Rest'
<3>1. ASSUME NEW u \in Threads
      PROVE  \/ /\ drain'[u] = drain[u] /\ crashes' = crashes
                /\ \/ pending'[u] = pending[u]
                   \/ pending'[u] = <<>> /\ Told(u)
             \/ /\ pending'[u] = pending[u]
                /\ drain'[u] = NoDrain \/ (pending[u] # <<>> /\ drain'[u] = NewDrain(pending[u]))
                /\ drain[u].phase # "ack" \/ crashes' = crashes + 1
<4>1. CASE u = t
  BY <1>2, <2>3, <2>5, <2>7, <4>1, Zenon
<4>2. CASE u # t /\ drain'[u] = drain[u]
  BY <1>2, <2>7, <4>2
<4>3. CASE u # t /\ drain[u].phase = "off" /\ pending[u] # <<>> /\ drain'[u] = NewDrain(pending[u])
  BY <1>2, <2>7, <4>3
<4> QED BY <2>3, <4>1, <4>2, <4>3
<3> QED BY <1>2, <2>4, <3>1, Renewed
<2> QED BY <2>3, <2>7, <2>8 DEF Machines
<1> QED BY <1>4, <1>5

LEMMA InvStep == IInv /\ [Next]_vars => IInv'
<1> SUFFICES ASSUME IInv, [Next]_vars PROVE IInv'
  OBVIOUS
<1>a. Books /\ Machines
  BY TypeParts DEF IInv
<1>b. HeadsKnown
  BY Drained DEF IInv, HeadsKnown
<1>c. Books'
  BY <1>a, <1>b, BooksStep
<1>d. Books' /\ Machines' => TypeOK'
  BY Zenon DEF TypeOK, Books, Machines
<1> SUFFICES Machines' /\ Rest'
  BY <1>c, <1>d DEF IInv, Rest
<1>1. ASSUME UNCHANGED <<pending, drain, redrain, queued, runs, lost, crashes>>,
             \A h \in Handoffs : receipt[h] # None => receipt'[h] # None
      PROVE  Machines' /\ Rest'
  BY <1>1, <1>a, Aside DEF Machines
<1>2. ASSUME NEW b \in Bots, NEW t \in Threads \cup {Room}, StartTurn(b, t) PROVE Machines' /\ Rest'
  BY <1>1, <1>2, Zenon DEF StartTurn, history
<1>3. ASSUME NEW h \in Handoffs, Queue(h) PROVE Machines' /\ Rest'
<2>1. UNCHANGED <<drain, redrain>>
  BY <1>3, Zenon DEF Queue
<2> QED BY <1>3, <1>a, <2>1, Queueing DEF Machines
<1>4. ASSUME NEW b \in Bots, NEW ok \in BOOLEAN, Complete(b, ok) PROVE Machines' /\ Rest'
  BY <1>4, CompleteInv
<1>5. ASSUME NEW b \in Bots, CompleteRoom(b) PROVE Machines' /\ Rest'
  BY <1>1, <1>5, Zenon DEF CompleteRoom
<1>6. ASSUME NEW b \in Bots, EndSilently(b) PROVE Machines' /\ Rest'
<2>1. receipt' = Finalized(turn[b], "failed") /\ UNCHANGED <<pending, drain, redrain, queued, runs, lost, crashes>>
  BY <1>6, Zenon DEF EndSilently
<2>2. \A h \in Handoffs : receipt[h] # None => receipt'[h] # None
  BY <1>a, <2>1, ReceiptsStay DEF Outcomes
<2> QED BY <1>1, <2>1, <2>2
<1>7. ASSUME NEW t \in Threads, NEW v \in {"allowed", "denied"}, Answer(t, v) PROVE Machines' /\ Rest'
<2>1. /\ drain[t].phase = "gate" /\ drain' = Enter(t, v)
      /\ UNCHANGED <<pending, redrain, queued, runs, lost, crashes, receipt>>
  BY <1>7, Zenon DEF Answer, GateOpen, history
<2>2. drain[t].todo # <<>>
  BY <2>1, Drained DEF IInv
<2>3. drain' \in [Threads -> Drains]
  BY <1>a, <2>1, Entered DEF Machines, Phases
<2> QED BY <1>a, <2>1, <2>2, <2>3, Onward DEF Machines, Phases
<1>8. ASSUME NEW t \in Threads, Process(t) PROVE Machines' /\ Rest'
<2>1. drain[t].phase \in {"start", "next"} /\ drain[t].todo # <<>>
  BY <1>8, Zenon DEF Process
<2>2. CASE OpenGate(t)
<3>1. drain' = Enter(t, "gate") /\ UNCHANGED <<pending, redrain, queued, runs, lost, crashes, receipt>>
  BY <2>2, Zenon DEF OpenGate, history
<3>2. drain' \in [Threads -> Drains]
  BY <1>a, <3>1, Entered DEF Machines, Phases
<3> QED BY <1>a, <2>1, <3>1, <3>2, Onward DEF Machines, Phases
<2>3. FoundBusy(t) \/ OpenGate(t) \/ Run(t)
  BY <1>8, Zenon DEF Process
<2> QED BY <2>1, <2>2, <2>3, BusyInv, RunInv
<1>9. ASSUME NEW t \in Threads, Allowed(t) PROVE Machines' /\ Rest'
<2>1. drain[t].phase = "allowed" /\ (FoundBusy(t) \/ Run(t))
  BY <1>9, Zenon DEF Allowed
<2>2. drain[t].todo # <<>>
  BY <2>1, Drained DEF IInv
<2> QED BY <2>1, <2>2, BusyInv, RunInv
<1>10. ASSUME NEW t \in Threads, Denied(t) PROVE Machines' /\ Rest'
<2>1. /\ drain[t].phase = "denied" /\ drain' = Enter(t, "ack")
      /\ receipt' = [receipt EXCEPT ![Current(t)] = "denied"]
      /\ UNCHANGED <<pending, redrain, queued, runs, lost, crashes>>
  BY <1>10, Zenon DEF Denied, history
<2>2. drain[t].todo # <<>> /\ Current(t) \in Handoffs
  BY <2>1, Drained DEF IInv
<2>3. drain' \in [Threads -> Drains] /\ Current(t)' = Current(t)
  BY <1>a, <2>1, Entered DEF Machines, Phases, Current
<2>4. (\A h \in Handoffs : receipt[h] # None => receipt'[h] # None) /\ receipt'[Current(t)] # None
  BY <1>a, <2>1, <2>2, DelegationsAssumption DEF Books, Outcomes
<2>5. Rest'
  BY <2>1, <2>2, <2>3, <2>4, Onward DEF Phases, Settled
<2> QED BY <1>a, <2>1, <2>3, <2>5 DEF Machines
<1>11. ASSUME NEW t \in Threads, Acknowledge(t) PROVE Machines' /\ Rest'
<2>1. /\ drain[t].phase = "ack" /\ drain' = Advance(t)
      /\ pending' = [pending EXCEPT ![t] = RemoveFirst(@, Current(t))]
      /\ UNCHANGED <<redrain, queued, runs, lost, crashes, receipt>>
  BY <1>11, Zenon DEF Acknowledge, history
<2>2. drain[t].todo # <<>> /\ Settled(Current(t))
  BY <2>1, Drained DEF IInv, Settles
<2> QED BY <1>a, <2>1, <2>2, Passed DEF Machines
<1>12. ASSUME NEW t \in Threads, Finish(t) PROVE Machines' /\ Rest'
<2>1. /\ drain[t].phase = "next" /\ redrain' = redrain \ {t}
      /\ UNCHANGED <<pending, queued, runs, lost, crashes, receipt>>
  BY <1>12, Zenon DEF Finish, history
<2>2. PICK d : /\ drain' = [drain EXCEPT ![t] = d]
               /\ d = NoDrain \/ (pending[t] # <<>> /\ d = NewDrain(pending[t]))
  BY <1>12, Zenon DEF Finish
<2>3. d \in Drains
  BY <1>a, <2>2, Fresh DEF Machines
<2>4. /\ drain' \in [Threads -> Drains] /\ drain'[t] = d
      /\ \A u \in Threads \ {t} : drain'[u] = drain[u]
  BY <1>a, <2>2, <2>3 DEF Machines
<2>5. Rest'
  BY <2>1, <2>2, <2>4, Renewed
<2> QED BY <1>a, <2>1, <2>4, <2>5 DEF Machines
<1>13. CASE Reload
<2>1. /\ UNCHANGED <<pending, drain, redrain, queued, runs, lost, crashes>>
      /\ \A h \in Handoffs : receipt'[h] \in {"failed", receipt[h]}
  BY <1>13, Zenon DEF Reload
<2> QED BY <1>1, <2>1, DelegationsAssumption DEF Outcomes
<1>14. CASE Crash
<2>1. PICK q \in [Threads -> Seq(Handoffs)] :
        /\ Reborn(q) /\ lost \subseteq lost'
        /\ \A u \in Threads : q[u] = pending[u] \/ (q[u] = <<>> /\ Told(u))
        /\ \A h \in Handoffs : receipt'[h] \in {receipt[h], "dropped", "failed"}
  BY <1>a, <1>14, CrashFacts DEF Crashed
<2>0. \A h \in Handoffs : receipt[h] # None => receipt'[h] # None
  BY <2>1, DelegationsAssumption DEF Outcomes
<2>2. /\ crashes' = crashes + 1 /\ redrain' = {} /\ UNCHANGED <<queued, runs>> /\ pending' = q
      /\ drain' = [t \in Threads |-> IF q[t] = <<>> THEN NoDrain ELSE NewDrain(q[t])]
  BY <2>1, Zenon DEF Reborn
<2>3. \A t \in Threads : NoDrain \in Drains /\ NewDrain(q[t]) \in Drains
  BY Fresh
<2>4. drain' \in [Threads -> Drains]
  BY <2>2, <2>3
<2>5. ASSUME NEW u \in Threads
      PROVE  \/ /\ pending'[u] = pending[u]
                /\ drain'[u] = NoDrain \/ (pending[u] # <<>> /\ drain'[u] = NewDrain(pending[u]))
             \/ pending'[u] = <<>> /\ Told(u) /\ drain'[u] = NoDrain
  BY <2>1, <2>2
<2>6. Rest'
  BY <2>0, <2>1, <2>2, <2>5, Renewed
<2> QED BY <2>2, <2>4, <2>6 DEF Machines
<1>15. CASE UNCHANGED vars
  BY <1>1, <1>15, Zenon DEF vars
<1> QED BY <1>2, <1>3, <1>4, <1>5, <1>6, <1>7, <1>8, <1>9, <1>10, <1>11, <1>12, <1>13, <1>14,
           <1>15, Zenon DEF Next

\* The inductive invariant: queues and drains hold their own thread's handoffs, each once,
\* what may yet be run has not run in this life, and what is about to leave its queue
\* was run or has its receipt.
THEOREM QueuesAgree == Spec => []IInv
  BY InitInv, InvStep, PTL DEF Spec

\* Every step of turns, drains, cards, reloads and crashes keeps every variable in its type.
THEOREM TypeCorrect == Spec => []TypeOK
<1>1. IInv => TypeOK
  BY DEF IInv
<1> QED BY <1>1, QueuesAgree, PTL

\* A handoff that delegate_bot accepted waits in the file, was run, or has a receipt, through
\* cards, retries, drops, turns that end in silence and any number of crashes; but for one that
\* a crash in the midst of discardDelegations took off the queue unreported (lost).
THEOREM NoneIsForgotten == Spec => []NeverForgotten
<1>1. IInv => NeverForgotten
  BY DEF IInv
<1> QED BY <1>1, QueuesAgree, PTL

\* No redrain, retry or late answer runs a handoff twice; a crash between its start and its
\* acknowledgement may, once each.
THEOREM OncePerLife == Spec => []RunsOnce
<1>1. IInv => RunsOnce
  BY DEF IInv, Counts, RunsOnce
<1> QED BY <1>1, QueuesAgree, PTL
-----------------------------------------------------------------------------
(* What is called failed.                                                  *)

\* What a turn is watched for has run.
Ran == (\A t \in Threads : watch[t] # None => runs[watch[t]] > 0) /\ OnlyRunsFail

\* A turn of thread t, which ran what it was watched for, may be called failed.
LEMMA RanSettles ==
  ASSUME Books, Ran, UNCHANGED runs,
         \A t \in Threads : watch'[t] \in {None, watch[t]},
         \A h \in Handoffs : \/ receipt'[h] # "failed" \/ receipt'[h] = receipt[h]
                             \/ \E t \in Threads : watch[t] = h
  PROVE  Ran'
<1>1. \A h \in Handoffs : h # None
  BY DelegationsAssumption
<1> QED BY <1>1, SMT DEF Books, Ran, OnlyRunsFail

LEMMA RanOfRun ==
  ASSUME Books, Ran, NEW t \in Threads, Current(t) \in Handoffs, ~Busy(To[Current(t)]), ~SilentEnds, Run(t)
  PROVE  Ran'
<1>1. PICK h \in Handoffs : h = Current(t)
  OBVIOUS
<1>2. Home[To[h]] \in Threads
  BY DelegationsAssumption
<1>3. /\ watch' = [watch EXCEPT ![Home[To[h]]] = h]
      /\ runs' = [runs EXCEPT ![h] = @ + 1] /\ UNCHANGED receipt
  BY <1>1, Zenon DEF Run
<1>4. /\ runs'[h] > 0 /\ \A k \in Handoffs : runs[k] > 0 => runs'[k] > 0
      /\ \A u \in Threads : watch'[u] \in {h, watch[u]} /\ watch[u] \in Handoffs \cup {None}
  BY <1>2, <1>3, SMT DEF Books
<1> QED BY <1>3, <1>4, SMT DEF Ran, OnlyRunsFail

LEMMA RanStep ==
  ASSUME Books, Machines, Ran, [Next]_vars, ~SilentEnds,
         HeadsKnown
  PROVE  Ran'
<1> USE DEF HeadsKnown
<1>1. ASSUME UNCHANGED <<watch, receipt, runs>> PROVE Ran'
  BY <1>1, Zenon DEF Ran, OnlyRunsFail
<1>2. ASSUME NEW b \in Bots, NEW t \in Threads \cup {Room}, StartTurn(b, t) PROVE Ran'
  BY <1>1, <1>2, Zenon DEF StartTurn
<1>3. ASSUME NEW h \in Handoffs, Queue(h) PROVE Ran'
  BY <1>1, <1>3, Zenon DEF Queue
<1>4. ASSUME NEW b \in Bots, NEW ok \in BOOLEAN, Complete(b, ok) PROVE Ran'
<2>1. PICK t \in Threads : t = turn[b]
  BY <1>4, Zenon DEF Complete
<2>2. /\ Unwatch(t) /\ UNCHANGED runs
      /\ \/ receipt' = Finalized(t, "done")
         \/ receipt' = [h \in Handoffs |-> IF h \in ToSet(pending[t])
                          THEN "dropped" ELSE Finalized(t, "failed")[h]]
  BY <1>4, <2>1, Zenon DEF Complete
<2>3. \A h \in Handoffs : \/ receipt'[h] # "failed" \/ receipt'[h] = receipt[h]
                             \/ \E u \in Threads : watch[u] = h
  BY <2>1, <2>2, SMT DEF Finalized
<2>4. \A u \in Threads : watch'[u] \in {None, watch[u]}
  BY <2>1, <2>2, SMT DEF Unwatch, Books
<2> QED BY <2>2, <2>3, <2>4, RanSettles
<1>5. ASSUME NEW b \in Bots, CompleteRoom(b) PROVE Ran'
  BY <1>1, <1>5, Zenon DEF CompleteRoom
<1>6. ASSUME NEW t \in Threads, NEW v \in {"allowed", "denied"}, Answer(t, v) PROVE Ran'
  BY <1>1, <1>6, Zenon DEF Answer
<1>7. ASSUME NEW t \in Threads, FoundBusy(t), Current(t) \in Handoffs PROVE Ran'
<2>1. /\ UNCHANGED <<watch, runs>>
      /\ receipt' = receipt \/ receipt' = [receipt EXCEPT ![Current(t)] = "busy_gave_up"]
  BY <1>7, Zenon DEF FoundBusy
<2>2. \A h \in Handoffs : receipt'[h] # "failed" \/ receipt'[h] = receipt[h]
  BY <1>7, <2>1, SMT DEF Books
<2> QED BY <2>1, <2>2, RanSettles
<1>8. ASSUME NEW t \in Threads, Process(t) PROVE Ran'
<2>1. Current(t) \in Handoffs
  BY <1>8, Zenon DEF Process
<2>2. FoundBusy(t) \/ OpenGate(t) \/ (~Busy(To[Current(t)]) /\ Run(t))
  BY <1>8, Zenon DEF Process
<2>3. CASE OpenGate(t)
  BY <1>1, <2>3, Zenon DEF OpenGate
<2> QED BY <1>7, <2>1, <2>2, <2>3, RanOfRun
<1>9. ASSUME NEW t \in Threads, Allowed(t) PROVE Ran'
<2>1. /\ drain[t].phase = "allowed"
      /\ FoundBusy(t) \/ (~Busy(To[Current(t)]) /\ Run(t))
  BY <1>9, Zenon DEF Allowed
<2> QED BY <1>7, <2>1, RanOfRun
<1>10. ASSUME NEW t \in Threads, Denied(t) PROVE Ran'
<2>1. /\ drain[t].phase = "denied" /\ UNCHANGED <<watch, runs>>
      /\ receipt' = [receipt EXCEPT ![Current(t)] = "denied"]
  BY <1>10, Zenon DEF Denied
<2>2. \A h \in Handoffs : receipt'[h] # "failed" \/ receipt'[h] = receipt[h]
  BY <2>1, SMT DEF Books
<2> QED BY <2>1, <2>2, RanSettles
<1>11. ASSUME NEW t \in Threads, Acknowledge(t) \/ Finish(t) PROVE Ran'
  BY <1>1, <1>11, Zenon DEF Acknowledge, Finish
<1>12. ASSUME NEW b \in Bots, EndSilently(b) PROVE FALSE
  BY <1>12, Zenon DEF EndSilently
<1>13. CASE Reload
  BY <1>13, Zenon DEF Reload
<1>14. CASE Crash
<2>1. UNCHANGED runs /\ \A u \in Threads : watch'[u] = None
  BY <1>14, CrashFacts DEF Crashed, Reborn
<2>2. \A h \in Handoffs : \/ receipt'[h] # "failed" \/ receipt'[h] = receipt[h]
                          \/ \E t \in Threads : watch[t] = h
  BY <1>14, CrashFacts DEF Crashed
<2> QED BY <2>1, <2>2, RanSettles
<1>15. CASE UNCHANGED vars
  BY <1>1, <1>15, Zenon DEF vars
<1> QED BY <1>2, <1>3, <1>4, <1>5, <1>6, <1>8, <1>9, <1>10, <1>11, <1>12, <1>13, <1>14, <1>15, Zenon DEF Next

\* If turns end with turn.completed, no handoff is called failed that has not run: between the
\* last look at the peer and its start nothing else can start it.
THEOREM FailedHasRun ==
  ASSUME ~SilentEnds
  PROVE  Spec => []OnlyRunsFail
<1>1. Init => Ran
  BY DelegationsAssumption, SMT DEF Init, Ran, OnlyRunsFail, Outcomes
<1>2. IInv /\ Ran /\ [Next]_vars => Ran'
<2> SUFFICES ASSUME IInv, Ran, [Next]_vars PROVE Ran'
  OBVIOUS
<2>1. HeadsKnown
  BY Drained DEF IInv, HeadsKnown
<2> QED BY <2>1, RanStep, TypeParts DEF IInv
<1>3. Ran => OnlyRunsFail
  BY DEF Ran
<1> QED BY <1>1, <1>2, <1>3, QueuesAgree, PTL DEF Spec
-----------------------------------------------------------------------------
(* The lifecycle, where every operator has one run.                        *)

OneRunEach == \A t, u \in Threads : Owner[t] = Owner[u] => t = u

\* The peer of a handoff that is watched is busy with it, on its home thread; an answered
\* card does not idle an operator whose turn still runs.
Hosts ==
  /\ \A t \in Threads : watch[t] # None => t = Home[To[watch[t]]] /\ turn[To[watch[t]]] = t
  /\ \A b \in Bots : turn[b] # None => Busy(b)
  /\ \A t \in Threads : GateOpen(t) /\ activity[Owner[t]] = "waiting-on-you"
       /\ turn[Owner[t]] # None => resume[t] = "working"

LEMMA HostsOfRun ==
  ASSUME Books, Hosts, Machines, NEW t \in Threads, Current(t) \in Handoffs,
         ~Busy(To[Current(t)]), Run(t)
  PROVE  Hosts' /\ watch[Home[To[Current(t)]]] = None
<1> USE DelegationsAssumption
<1>1. PICK h \in Handoffs : h = Current(t)
  OBVIOUS
<1>2. PICK b \in Bots : b = To[h]
  OBVIOUS
<1>3. Home[b] \in Threads /\ Owner[Home[b]] = b /\ Home[b] # None
  OBVIOUS
<1>4. turn[b] = None
  BY <1>1, <1>2 DEF Hosts
<1>5. \A u \in Threads : watch[u] # None => To[watch[u]] # b
  BY <1>3, <1>4 DEF Hosts
<1>6. watch[Home[b]] = None
<2>1. watch[Home[b]] # None => To[watch[Home[b]]] = b
  <3> SUFFICES ASSUME watch[Home[b]] # None PROVE To[watch[Home[b]]] = b
    OBVIOUS
  <3>1. watch[Home[b]] \in Handoffs /\ Home[b] = Home[To[watch[Home[b]]]]
    BY <1>3 DEF Hosts, Books
  <3> QED BY <1>3, <3>1
<2> QED BY <1>3, <1>5, <2>1
<1>7. /\ drain' = Enter(t, "ack") /\ UNCHANGED resume
      /\ \/ /\ watch' = [watch EXCEPT ![Home[b]] = h] /\ turn' = [turn EXCEPT ![b] = Home[b]]
            /\ activity' = [activity EXCEPT ![b] = "working"]
         \/ /\ watch' = [watch EXCEPT ![Home[b]] = None] /\ UNCHANGED <<turn, activity>>
  BY <1>1, <1>2, Zenon DEF Run, Unwatch
<1>8. \A u \in Threads : GateOpen(u)' => GateOpen(u)
  BY <1>7, Entered DEF Machines, Phases, GateOpen
<1>9. CASE /\ watch' = [watch EXCEPT ![Home[b]] = h] /\ turn' = [turn EXCEPT ![b] = Home[b]]
           /\ activity' = [activity EXCEPT ![b] = "working"]
<2>1. \A u \in Threads : watch'[u] # None => u = Home[To[watch'[u]]] /\ turn'[To[watch'[u]]] = u
<3> SUFFICES ASSUME NEW u \in Threads, watch'[u] # None
             PROVE  u = Home[To[watch'[u]]] /\ turn'[To[watch'[u]]] = u
  OBVIOUS
<3>1. CASE u = Home[b]
  BY <1>2, <1>9, <3>1 DEF Books
<3>2. CASE u # Home[b]
<4>1. watch'[u] = watch[u] /\ watch[u] \in Handoffs
  BY <1>9, <3>2 DEF Books
<4>2. To[watch[u]] # b /\ To[watch[u]] \in Bots
  BY <1>5, <4>1
<4> QED BY <1>9, <4>1, <4>2 DEF Hosts, Books
<3> QED BY <3>1, <3>2
<2>2. \A c \in Bots : turn'[c] # None => activity'[c] # "idle"
  BY <1>9 DEF Hosts, Books, Busy
<2>3. ASSUME NEW u \in Threads, GateOpen(u)', activity'[Owner[u]] = "waiting-on-you",
             turn'[Owner[u]] # None
      PROVE  resume'[u] = "working"
  BY <1>7, <1>8, <1>9, <2>3 DEF Hosts, Books
<2> QED BY <1>2, <1>1, <1>6, <2>1, <2>2, <2>3 DEF Hosts, Busy
<1>10. CASE watch' = [watch EXCEPT ![Home[b]] = None] /\ UNCHANGED <<turn, activity>>
<2>1. watch' = watch
  BY <1>6, <1>10 DEF Books
<2>2. ASSUME NEW u \in Threads, GateOpen(u)', activity'[Owner[u]] = "waiting-on-you",
             turn'[Owner[u]] # None
      PROVE  resume'[u] = "working"
  BY <1>7, <1>8, <1>10, <2>2 DEF Hosts
<2> QED BY <1>1, <1>2, <1>6, <1>10, <2>1, <2>2, SMT DEF Hosts, Busy
<1> QED BY <1>7, <1>9, <1>10

\* A drain that moves on stands at no gate.
LEMMA MovedOn ==
  ASSUME Machines, NEW t \in Threads, drain' = Advance(t) \/ drain' = Enter(t, "ack")
  PROVE  drain'[t].phase \in {"next", "ack"} /\ \A u \in Threads \ {t} : drain'[u] = drain[u]
<1>1. CASE drain' = Enter(t, "ack")
  BY <1>1, Entered DEF Machines, Phases
<1>2. CASE drain' = Advance(t)
<2>1. PICK e \in Drains : e = drain[t]
  BY Zenon DEF Machines
<2>2. PICK d : d = [e EXCEPT !.phase = "next", !.todo = Tail(@)]
  OBVIOUS
<2>3. d.phase = "next"
  BY <2>2 DEF Drains
<2>4. drain' = [drain EXCEPT ![t] = d]
  BY <1>2, <2>1, <2>2 DEF Advance, Machines, Drains
<2> QED BY <2>3, <2>4 DEF Machines
<1> QED BY <1>1, <1>2

LEMMA HostsStep ==
  ASSUME Books, Machines, HeadsKnown, Hosts, OneRunEach, [Next]_vars
  PROVE  Hosts'
<1> USE DelegationsAssumption
<1>1. ASSUME UNCHANGED <<watch, turn, activity, resume>>, \A u \in Threads : GateOpen(u)' => GateOpen(u)
      PROVE  Hosts'
  BY <1>1, Zenon DEF Hosts, Busy
<1>2. ASSUME NEW b \in Bots, NEW t \in Threads \cup {Room}, StartTurn(b, t) PROVE Hosts'
<2>1. /\ UNCHANGED <<watch, drain, resume>> /\ turn[b] = None
      /\ turn' = [turn EXCEPT ![b] = t] /\ activity' = [activity EXCEPT ![b] = "working"]
  BY <1>2, Zenon DEF StartTurn, Hosts
<2>2. \A u \in Threads : watch[u] # None => To[watch[u]] # b /\ To[watch[u]] \in Bots
  BY <2>1 DEF Hosts, Books
<2> QED BY <2>1, <2>2, SMT DEF Hosts, Books, Busy, GateOpen
<1>3. ASSUME NEW h \in Handoffs, Queue(h) PROVE Hosts'
  BY <1>1, <1>3, Zenon DEF Queue, GateOpen
<1>4. ASSUME NEW b \in Bots, Ended(b), UNCHANGED resume,
             watch' = watch \/ (turn[b] \in Threads /\ Unwatch(turn[b])),
             turn[b] # Home[b] \/ Unwatch(turn[b]),
             \A u \in Threads : GateOpen(u)' => GateOpen(u)
      PROVE  Hosts'
<2>1. turn' = [turn EXCEPT ![b] = None] /\ activity' = [activity EXCEPT ![b] = "idle"]
  BY <1>4, Zenon DEF Ended
<2>2. \A u \in Threads : watch'[u] # None => watch'[u] = watch[u] /\ watch[u] \in Handoffs /\ To[watch[u]] # b
<3> SUFFICES ASSUME NEW u \in Threads, watch'[u] # None
             PROVE  watch'[u] = watch[u] /\ watch[u] \in Handoffs /\ To[watch[u]] # b
  OBVIOUS
<3>1. watch'[u] = watch[u] /\ watch[u] \in Handoffs /\ (u = turn[b] => ~Unwatch(turn[b]))
  BY <1>4 DEF Unwatch, Books
<3>2. u = Home[To[watch[u]]] /\ turn[To[watch[u]]] = u
  BY <3>1 DEF Hosts
<3>3. ASSUME To[watch[u]] = b PROVE FALSE
  BY <1>4, <3>1, <3>2, <3>3
<3> QED BY <3>1, <3>3
<2>3. \A u \in Threads : watch'[u] # None => u = Home[To[watch'[u]]] /\ turn'[To[watch'[u]]] = u
  BY <2>1, <2>2 DEF Hosts, Books
<2>4. \A c \in Bots : turn'[c] # None => activity'[c] # "idle"
  BY <2>1 DEF Hosts, Busy, Books
<2>5. ASSUME NEW u \in Threads, GateOpen(u)', activity'[Owner[u]] = "waiting-on-you",
             turn'[Owner[u]] # None
      PROVE  resume'[u] = "working"
  BY <1>4, <2>1, <2>5 DEF Hosts, Books
<2> QED BY <2>3, <2>4, <2>5 DEF Hosts, Busy
<1>5. ASSUME NEW b \in Bots, NEW ok \in BOOLEAN, Complete(b, ok) PROVE Hosts'
<2>1. turn[b] \in Threads /\ Ended(b) /\ Unwatch(turn[b]) /\ UNCHANGED resume
  BY <1>5, Zenon DEF Complete
<2>2. PICK ts \in SUBSET Threads : Request(ts, pending)
<3>1. Request({turn[b]} \cup WaitingOn(b), pending) \/ Request(WaitingOn(b) \ {turn[b]}, pending)
  BY <1>5, Zenon DEF Complete
<3> QED BY <2>1, <3>1 DEF WaitingOn
<2>3. \A u \in Threads : drain'[u] = drain[u] \/ drain'[u] = NewDrain(pending[u])
  BY <2>2, Requested DEF Machines
<2>4. \A u \in Threads : GateOpen(u)' => GateOpen(u)
<3>1. \A u \in Threads : NewDrain(pending[u]).phase = "start"
  BY Fresh DEF Machines
<3> QED BY <2>3, <3>1, SMT DEF GateOpen
<2> QED BY <1>4, <2>1, <2>4
<1>6. ASSUME NEW b \in Bots, CompleteRoom(b) PROVE Hosts'
<2>1. /\ turn[b] # Home[b] /\ Ended(b) /\ UNCHANGED <<resume, watch, drain>>
  BY <1>6 DEF CompleteRoom
<2> QED BY <1>4, <2>1, Zenon DEF GateOpen
<1>7. ASSUME NEW b \in Bots, EndSilently(b) PROVE Hosts'
<2>1. turn[b] \in Threads /\ Ended(b) /\ Unwatch(turn[b]) /\ UNCHANGED <<resume, drain>>
  BY <1>7, Zenon DEF EndSilently
<2> QED BY <1>4, <2>1, Zenon DEF GateOpen
<1>8. ASSUME NEW t \in Threads, NEW v \in {"allowed", "denied"}, Answer(t, v) PROVE Hosts'
<2>1. /\ GateOpen(t) /\ drain' = Enter(t, v) /\ UNCHANGED <<turn, watch, resume>>
      /\ activity' = [activity EXCEPT ![Owner[t]] = IF @ = "waiting-on-you" THEN resume[t] ELSE @]
  BY <1>8, Zenon DEF Answer
<2>2. /\ ~GateOpen(t)' /\ \A u \in Threads : GateOpen(u)' => GateOpen(u)
  BY <2>1, Entered DEF GateOpen, Machines, Phases
<2>3. \A c \in Bots : turn[c] # None => activity'[c] # "idle"
  BY <2>1 DEF Hosts, Busy, Books
<2>4. ASSUME NEW u \in Threads, GateOpen(u)', activity'[Owner[u]] = "waiting-on-you",
             turn[Owner[u]] # None
      PROVE  resume[u] = "working"
<3>1. Owner[u] # Owner[t]
  BY <2>2, <2>4 DEF OneRunEach
<3>2. activity'[Owner[u]] = activity[Owner[u]]
  BY <2>1, <3>1 DEF Books
<3> QED BY <2>2, <2>4, <3>2 DEF Hosts
<2> QED BY <2>1, <2>3, <2>4, SMT DEF Hosts, Busy
<1>9. ASSUME NEW t \in Threads, FoundBusy(t) PROVE Hosts'
<2>1. /\ UNCHANGED <<turn, activity, resume, watch>>
      /\ drain' = Advance(t) \/ drain' = Enter(t, "ack")
  BY <1>9, Zenon DEF FoundBusy
<2>2. drain'[t].phase \in {"next", "ack"} /\ \A u \in Threads \ {t} : drain'[u] = drain[u]
  BY <2>1, MovedOn
<2> QED BY <1>1, <2>1, <2>2 DEF GateOpen
<1>10. ASSUME NEW t \in Threads, OpenGate(t) PROVE Hosts'
<2>1. /\ drain' = Enter(t, "gate") /\ UNCHANGED <<turn, watch>>
      /\ resume' = [resume EXCEPT ![t] = IF activity[Owner[t]] = "waiting-on-you" THEN "working"
                                         ELSE activity[Owner[t]]]
      /\ activity' = [activity EXCEPT ![Owner[t]] = "waiting-on-you"]
  BY <1>10, Zenon DEF OpenGate
<2>2. \A u \in Threads \ {t} : GateOpen(u)' => GateOpen(u)
  BY <2>1, Entered DEF GateOpen, Machines, Phases
<2>3. \A c \in Bots : turn[c] # None => activity'[c] # "idle"
  BY <2>1 DEF Hosts, Busy, Books
<2>4. ASSUME NEW u \in Threads, GateOpen(u)', activity'[Owner[u]] = "waiting-on-you",
             turn[Owner[u]] # None
      PROVE  resume'[u] = "working"
<3>1. CASE u = t
  BY <2>1, <2>4, <3>1 DEF Hosts, Busy, Books
<3>2. CASE u # t
<4>1. Owner[u] # Owner[t]
  BY <3>2 DEF OneRunEach
<4> QED BY <2>1, <2>2, <2>4, <3>2, <4>1 DEF Hosts, Books
<3> QED BY <3>1, <3>2
<2> QED BY <2>1, <2>3, <2>4, SMT DEF Hosts, Busy
<1>11. ASSUME NEW t \in Threads, Process(t) PROVE Hosts'
<2>1. /\ Current(t) \in Handoffs
      /\ FoundBusy(t) \/ OpenGate(t) \/ (~Busy(To[Current(t)]) /\ Run(t))
  BY <1>11, Zenon DEF Process, HeadsKnown
<2> QED BY <1>9, <1>10, <2>1, HostsOfRun
<1>12. ASSUME NEW t \in Threads, Allowed(t) PROVE Hosts'
<2>1. /\ Current(t) \in Handoffs
      /\ FoundBusy(t) \/ (~Busy(To[Current(t)]) /\ Run(t))
<3>1. drain[t].phase = "allowed" /\ (FoundBusy(t) \/ (~Busy(To[Current(t)]) /\ Run(t)))
  BY <1>12, Zenon DEF Allowed
<3> QED BY <3>1 DEF HeadsKnown
<2> QED BY <1>9, <2>1, HostsOfRun
<1>13. ASSUME NEW t \in Threads, Denied(t) \/ Acknowledge(t) \/ Finish(t) PROVE Hosts'
<2>1. UNCHANGED <<turn, activity, resume, watch>>
  BY <1>13, Zenon DEF Denied, Acknowledge, Finish
<2>2. drain'[t].phase # "gate" /\ \A u \in Threads \ {t} : drain'[u] = drain[u]
<3>1. CASE drain' = Enter(t, "ack")
  BY <3>1, MovedOn
<3>2. CASE drain' = Advance(t)
  BY <3>2, MovedOn
<3>3. CASE Finish(t)
<4>1. PICK d : /\ drain' = [drain EXCEPT ![t] = d]
               /\ d = NoDrain \/ d = NewDrain(pending[t])
  BY <3>3, Zenon DEF Finish
<4>2. d.phase # "gate"
  BY <4>1, Fresh DEF Machines
<4> QED BY <4>1, <4>2 DEF Machines
<3> QED BY <1>13, <3>1, <3>2, <3>3, Zenon DEF Denied, Acknowledge
<2>3. \A u \in Threads : GateOpen(u)' => GateOpen(u)
  BY <2>2 DEF GateOpen
<2> QED BY <1>1, <2>1, <2>3
<1>14. CASE Reload
<2>1. /\ \A b \in Bots : turn'[b] = None /\ activity'[b] = "idle"
      /\ \A t \in Threads : watch'[t] = IF \E b \in Bots : Busy(b) /\ Home[b] = t THEN None ELSE watch[t]
  BY <1>14, Zenon DEF Reload
<2>2. \A t \in Threads : watch'[t] = None
  BY <2>1 DEF Hosts, Books
<2> QED BY <2>1, <2>2, SMT DEF Hosts
<1>15. CASE Crash
<2>1. /\ \A b \in Bots : turn'[b] = None /\ activity'[b] = "idle"
      /\ \A t \in Threads : watch'[t] = None
  BY <1>15, CrashFacts DEF Crashed, Reborn
<2> QED BY <2>1, SMT DEF Hosts
<1>16. CASE UNCHANGED vars
  BY <1>1, <1>16, Zenon DEF vars, GateOpen
<1> QED BY <1>2, <1>3, <1>5, <1>6, <1>7, <1>8, <1>11, <1>12, <1>13, <1>14, <1>15, <1>16, Zenon DEF Next

\* A handoff that may yet be run in this life of the process.
Waiting(h) == Awaits(h) /\ ~Acking(h)

\* While the process lives: what waits has no outcome, or was dropped from the queue under
\* an open card; what is watched is not over, but for that; what leaves the queue is watched
\* or over.
Place(h) ==
  /\ h \notin queued => receipt[h] = None /\ ~Watched(h)
  /\ Watched(h) => receipt[h] \in {None, "dropped"}
  /\ Acking(h) => receipt[h] # None \/ Watched(h)
  /\ Waiting(h) => /\ ~Watched(h) /\ receipt[h] \in {None, "dropped"}
                   /\ (receipt[h] = None <=> Pending(h))
Places == crashes = 0 => \A h \in Handoffs : Place(h)

\* What a step may do to a handoff: nothing, queue it, start it, end it.
Kept(h) == /\ receipt'[h] = receipt[h] /\ (Watched(h)' <=> Watched(h))
           /\ (Pending(h)' <=> Pending(h)) \/ receipt[h] # None \/ Watched(h)
Queued(h) == /\ receipt[h] = None /\ receipt'[h] = None /\ ~Watched(h) /\ ~Watched(h)'
             /\ ~Pending(h) /\ Pending(h)'
Begun(h) == /\ receipt'[h] = receipt[h] /\ receipt[h] \in {None, "dropped"}
            /\ (receipt[h] = None => Pending(h) /\ ~Watched(h)) /\ Watched(h)'
Over(h) == /\ receipt[h] \in {None, "dropped"} /\ receipt'[h] \in Outcomes
           /\ receipt[h] = None => Watched(h) \/ Pending(h)
Edge(h) == Kept(h) \/ Queued(h) \/ Begun(h) \/ Over(h)

LEMMA EdgesMove ==
  ASSUME Books, Books', Hosts', \A h \in Handoffs : Edge(h)
  PROVE  Lifecycle!Move
<1>1. None \notin Outcomes /\ "dropped" \in Outcomes /\ Outcomes \cap {"new", "queued", "running"} = {}
  BY DelegationsAssumption DEF Outcomes
<1>2. \A h \in Handoffs : /\ receipt[h] \in Outcomes \cup {None}
                          /\ receipt'[h] \in Outcomes \cup {None}
  BY DEF Books
<1>3. Status' \in [Handoffs -> {"new", "queued", "running"} \cup Outcomes]
  BY <1>2, SMT DEF Status
<1>4. ASSUME NEW h \in Handoffs
      PROVE  /\ Status[h] = IF receipt[h] # None THEN receipt[h] ELSE IF Watched(h) THEN "running"
                            ELSE IF Pending(h) THEN "queued" ELSE "new"
             /\ Status'[h] = IF receipt'[h] # None THEN receipt'[h]
                             ELSE IF Watched(h)' THEN "running"
                             ELSE IF Pending(h)' THEN "queued" ELSE "new"
  BY Zenon DEF Status
<1>5. ASSUME NEW g \in Handoffs, NEW h \in Handoffs, Status'[g] = "running", Status'[h] = "running",
             To[g] = To[h]
      PROVE  g = h
<2>1. Watched(g)' /\ Watched(h)'
  BY <1>1, <1>2, <1>4, <1>5
<2>2. PICK t \in Threads, u \in Threads : watch'[t] = g /\ watch'[u] = h
  BY <2>1, Zenon DEF Watched
<2>3. t = Home[To[g]] /\ u = Home[To[h]]
  BY <2>2, DelegationsAssumption DEF Hosts
<2> QED BY <1>5, <2>2, <2>3
<1>6. ASSUME NEW h \in Handoffs
      PROVE  <<Status[h], Status'[h]>> \in Lifecycle!Edges \/ Status'[h] = Status[h]
<2>1. CASE Kept(h)
  BY <1>4, <2>1, Zenon DEF Kept
<2>2. CASE Queued(h)
<3>1. Status[h] = "new" /\ Status'[h] = "queued"
  BY <1>4, <2>2, Zenon DEF Queued
<3> QED BY <3>1 DEF Lifecycle!Edges
<2>3. CASE Begun(h)
<3>1. \/ Status[h] = "queued" /\ Status'[h] = "running"
      \/ Status'[h] = Status[h]
  BY <1>1, <1>2, <1>4, <2>3 DEF Begun
<3> QED BY <3>1 DEF Lifecycle!Edges
<2>4. CASE Over(h)
<3>1. Status[h] \in {"queued", "running", "dropped"} /\ Status'[h] \in Outcomes
  BY <1>1, <1>2, <1>4, <2>4 DEF Over
<3> QED BY <3>1, SMT DEF Lifecycle!Edges
<2> QED BY <1>6, <2>1, <2>2, <2>3, <2>4 DEF Edge
<1> QED BY <1>3, <1>5, <1>6, Zenon DEF Lifecycle!Move, Lifecycle!OneAtATime, Lifecycle!Open
-----------------------------------------------------------------------------
(* Who waits and who is acknowledged, after a step of the drains.           *)

LEMMA HeadEntered ==
  ASSUME IInv, NEW t \in Threads, NEW p \in Phases, drain' = Enter(t, p), UNCHANGED pending,
         drain[t].phase \notin {"off", "ack"}, drain[t].todo # <<>>
  PROVE  /\ Current(t) \in Handoffs /\ Waiting(Current(t)) /\ Source[Current(t)] = t
         /\ Current(t)' = Current(t) /\ (Acking(Current(t))' <=> p = "ack")
         /\ \A h \in Handoffs : (Awaits(h)' <=> Awaits(h)) /\ (Pending(h)' <=> Pending(h))
         /\ \A h \in Handoffs \ {Current(t)} : Acking(h)' <=> Acking(h)
<1>1. /\ drain'[t].phase = p /\ \A u \in Threads : drain'[u].todo = drain[u].todo
      /\ \A u \in Threads \ {t} : drain'[u] = drain[u]
  BY Entered DEF TypeOK, IInv
<1>2. Current(t) \in Handoffs /\ Current(t) \in ToSet(drain[t].todo) /\ Current(t)' = Current(t)
  BY <1>1, Drained DEF IInv, Current
<1>3. Source[Current(t)] = t
  BY <1>2, Zenon DEF IInv, Queues
<1>4. \A h \in Handoffs : Source[h] \in Threads
  BY DelegationsAssumption
<1>5. \A h \in Handoffs : (Awaits(h)' <=> Awaits(h)) /\ (Pending(h)' <=> Pending(h))
  BY <1>1, <1>4, Zenon DEF Awaits, Pending
<1>6. ASSUME NEW h \in Handoffs \ {Current(t)} PROVE Acking(h)' <=> Acking(h)
<2>1. CASE Source[h] = t
  BY <1>2, <2>1, Zenon DEF Acking
<2>2. CASE Source[h] # t
  BY <1>1, <1>4, <2>2, Zenon DEF Acking, Current
<2> QED BY <2>1, <2>2
<1> QED BY <1>1, <1>2, <1>3, <1>5, <1>6, Zenon DEF Waiting, Awaits, Acking

LEMMA HeadAdvanced ==
  ASSUME IInv, NEW t \in Threads, drain' = Advance(t), drain[t].todo # <<>>,
         \A u \in Threads : ToSet(pending'[u]) \subseteq ToSet(pending[u]),
         drain[t].phase = "ack" => Current(t) \notin ToSet(pending'[t])
  PROVE  \A h \in Handoffs : (Acking(h)' => Acking(h)) /\ (Waiting(h)' => Waiting(h))
<1>1. /\ Tail(drain[t].todo) \in Seq(Handoffs)
      /\ ToSet(Tail(drain[t].todo)) = ToSet(drain[t].todo) \ {Current(t)}
  BY Drained, HeadAndTail DEF Current, IInv
<1>2. /\ drain'[t].phase = "next" /\ drain'[t].todo = Tail(drain[t].todo)
      /\ \A u \in Threads \ {t} : drain'[u] = drain[u]
  BY <1>1, Advanced DEF TypeOK, IInv
<1>3. SUFFICES ASSUME NEW h \in Handoffs PROVE (Acking(h)' => Acking(h)) /\ (Waiting(h)' => Waiting(h))
  OBVIOUS
<1>4. Source[h] \in Threads
  BY DelegationsAssumption
<1>5. CASE Source[h] # t
  BY <1>2, <1>4, <1>5, SMT DEF Acking, Waiting, Awaits, Pending, Current
<1>6. CASE Source[h] = t
<2>1. ~Acking(h)'
  BY <1>2, <1>6 DEF Acking
<2>2. Awaits(h)' => Awaits(h) /\ (drain[t].phase = "ack" => h # Current(t))
  BY <1>1, <1>2, <1>6, SMT DEF Awaits, Pending
<2> QED BY <1>6, <2>1, <2>2, Zenon DEF Waiting, Acking
<1> QED BY <1>5, <1>6

LEMMA HeadRenewed ==
  ASSUME IInv,
         \A u \in Threads : \/ drain'[u] = drain[u]
                            \/ /\ drain[u].phase \in {"off", "next"}
                               /\ drain'[u] = NoDrain \/ drain'[u] = NewDrain(pending[u]),
         \A u \in Threads : ToSet(pending'[u]) \subseteq ToSet(pending[u])
  PROVE  \A h \in Handoffs : (Acking(h)' <=> Acking(h)) /\ (Awaits(h)' => Awaits(h))
<1>1. SUFFICES ASSUME NEW h \in Handoffs PROVE (Acking(h)' <=> Acking(h)) /\ (Awaits(h)' => Awaits(h))
  OBVIOUS
<1>2. PICK u \in Threads : u = Source[h]
  BY DelegationsAssumption
<1>3. pending[u] \in Seq(Handoffs)
  BY Drained DEF IInv
<1>4. CASE drain'[u] = drain[u]
  BY <1>2, <1>4, SMT DEF Acking, Awaits, Pending, Current
<1>5. CASE drain[u].phase \in {"off", "next"} /\ drain'[u] = NoDrain
<2>1. drain'[u].phase = "off" /\ drain'[u].todo = <<>> /\ ToSet(<<>>) = {}
  BY <1>3, <1>5, Fresh, ElementsOfEmpty
<2> QED BY <1>2, <1>5, <2>1, SMT DEF Acking, Awaits, Pending
<1>6. CASE drain[u].phase \in {"off", "next"} /\ drain'[u] = NewDrain(pending[u])
<2>1. drain'[u].phase = "start" /\ drain'[u].todo = pending[u]
  BY <1>3, <1>6, Fresh
<2> QED BY <1>2, <1>6, <2>1, SMT DEF Acking, Awaits, Pending
<1> QED BY <1>4, <1>5, <1>6
-----------------------------------------------------------------------------
(* Every step of a process life moves handoffs along the lifecycle.        *)

\* Nothing happens to a handoff, unless it is acknowledged.
LEMMA PlaceKept ==
  ASSUME IInv, NEW h \in Handoffs, Place(h), receipt'[h] = receipt[h], Watched(h)' <=> Watched(h),
         (Pending(h)' <=> Pending(h)) \/ Acking(h), h \in queued => h \in queued',
         Acking(h)' => Acking(h), Waiting(h)' => Waiting(h)
  PROVE  Place(h)' /\ Edge(h)
<1>1. Acking(h) => (receipt[h] # None \/ Watched(h)) /\ ~Waiting(h)'
  BY Zenon DEF Place, Waiting
<1>2. CASE Acking(h)
  BY <1>1, <1>2, Zenon DEF Place, Edge, Kept
<1>3. CASE ~Acking(h)
  BY <1>3, Zenon DEF Place, Edge, Kept
<1> QED BY <1>2, <1>3

\* A drain settles its head: it was denied, gave up, or could not be run.
LEMMA PlaceSettled ==
  ASSUME IInv, NEW t \in Threads, \A h \in Handoffs : Place(h), NEW o \in Outcomes,
         drain[t].phase \notin {"off", "ack"}, drain[t].todo # <<>>, drain' = Enter(t, "ack"),
         receipt' = [receipt EXCEPT ![Current(t)] = o], UNCHANGED <<pending, watch, queued>>
  PROVE  \A h \in Handoffs : Place(h)' /\ Edge(h)
<1>1. PICK g \in Handoffs : g = Current(t)
  BY HeadEntered DEF Phases
<1>2. /\ Waiting(g) /\ Acking(g)'
      /\ \A h \in Handoffs : (Awaits(h)' <=> Awaits(h)) /\ (Pending(h)' <=> Pending(h))
      /\ \A h \in Handoffs \ {g} : Acking(h)' <=> Acking(h)
  BY <1>1, HeadEntered DEF Phases
<1>3. \A h \in Handoffs : Watched(h)' <=> Watched(h)
  BY Zenon DEF Watched
<1>4. receipt'[g] = o /\ o # None /\ \A h \in Handoffs \ {g} : receipt'[h] = receipt[h]
  BY <1>1, DelegationsAssumption DEF IInv, TypeOK
<1>5. Place(g)' /\ Edge(g)
<2>1. Source[g] = t /\ g \in ToSet(drain[t].todo)
  BY <1>1, HeadEntered, Drained DEF IInv, Phases
<2>2. g \in queued
  BY <2>1, Zenon DEF IInv, Queues
<2>3. ~Watched(g) /\ receipt[g] \in {None, "dropped"} /\ (receipt[g] = None => Pending(g))
  BY <1>2, Zenon DEF Place
<2>4. ~Waiting(g)' /\ ~Watched(g)' /\ queued' = queued
  BY <1>2, <1>3, <2>3, Zenon DEF Waiting
<2>5. Place(g)'
  BY <1>4, <2>2, <2>4, SMT DEF Place
<2> QED BY <1>4, <2>3, <2>5, SMT DEF Edge, Over
<1>6. ASSUME NEW h \in Handoffs \ {g} PROVE Place(h)' /\ Edge(h)
<2>1. Waiting(h)' => Waiting(h)
  BY <1>2, Zenon DEF Waiting
<2> QED BY <1>2, <1>3, <1>4, <2>1, PlaceKept
<1> QED BY <1>5, <1>6

\* The peer starts with the head of a drain.
LEMMA PlaceBegun ==
  ASSUME IInv, NEW t \in Threads, \A h \in Handoffs : Place(h),
         drain[t].phase \notin {"off", "ack"}, drain[t].todo # <<>>, drain' = Enter(t, "ack"),
         NEW u \in Threads, watch[u] = None, watch' = [watch EXCEPT ![u] = Current(t)],
         UNCHANGED <<pending, receipt, queued>>
  PROVE  \A h \in Handoffs : Place(h)' /\ Edge(h)
<1>1. PICK g \in Handoffs : g = Current(t)
  BY HeadEntered DEF Phases
<1>2. /\ Waiting(g) /\ Acking(g)'
      /\ \A h \in Handoffs : (Awaits(h)' <=> Awaits(h)) /\ (Pending(h)' <=> Pending(h))
      /\ \A h \in Handoffs \ {g} : Acking(h)' <=> Acking(h)
  BY <1>1, HeadEntered DEF Phases
<1>3. Watched(g)' /\ \A h \in Handoffs \ {g} : Watched(h)' <=> Watched(h)
<2>1. watch'[u] = g /\ \A v \in Threads \ {u} : watch'[v] = watch[v]
  BY <1>1 DEF IInv, TypeOK
<2>2. \A h \in Handoffs : h # None
  BY DelegationsAssumption
<2>3. Watched(g)'
  BY <2>1, Zenon DEF Watched
<2>4. ASSUME NEW h \in Handoffs \ {g} PROVE Watched(h)' <=> Watched(h)
<3>1. ASSUME NEW v \in Threads PROVE watch'[v] = h <=> watch[v] = h
  BY <2>1, <2>2
<3> QED BY <3>1, Zenon DEF Watched
<2> QED BY <2>3, <2>4
<1>4. Place(g)' /\ Edge(g)
<2>1. Source[g] = t /\ g \in ToSet(drain[t].todo)
  BY <1>1, HeadEntered, Drained DEF IInv, Phases
<2>2. g \in queued
  BY <2>1, Zenon DEF IInv, Queues
<2>3. ~Watched(g) /\ receipt[g] \in {None, "dropped"} /\ (receipt[g] = None => Pending(g))
  BY <1>2, Zenon DEF Place
<2>4. ~Waiting(g)' /\ queued' = queued /\ receipt' = receipt
  BY <1>2, Zenon DEF Waiting
<2>5. Place(g)'
  BY <1>3, <2>2, <2>3, <2>4, SMT DEF Place
<2> QED BY <1>3, <2>3, <2>4, <2>5, SMT DEF Edge, Begun
<1>5. ASSUME NEW h \in Handoffs \ {g} PROVE Place(h)' /\ Edge(h)
<2>1. Waiting(h)' => Waiting(h)
  BY <1>2, Zenon DEF Waiting
<2> QED BY <1>2, <1>3, <2>1, PlaceKept
<1> QED BY <1>4, <1>5

\* Turns end, and what they were watched for is over; a queue may be dropped.
LEMMA PlaceOver ==
  ASSUME IInv, \A h \in Handoffs : Place(h), UNCHANGED queued,
         \A u \in Threads : ToSet(pending'[u]) \subseteq ToSet(pending[u]),
         \A h \in Handoffs : (Acking(h)' <=> Acking(h)) /\ (Awaits(h)' => Awaits(h)),
         \A h \in Handoffs :
           \/ /\ receipt'[h] = receipt[h] /\ (Watched(h)' <=> Watched(h))
              /\ (Pending(h)' <=> Pending(h))
           \/ /\ Watched(h) /\ ~Watched(h)' /\ receipt'[h] \in Outcomes
              /\ receipt[h] \in {None, "dropped"}
           \/ /\ Pending(h) /\ ~Acking(h) /\ ~Pending(h)' /\ receipt'[h] = "dropped"
              /\ Watched(h)' => Watched(h)
  PROVE  \A h \in Handoffs : Place(h)' /\ Edge(h)
<1> SUFFICES ASSUME NEW h \in Handoffs PROVE Place(h)' /\ Edge(h)
  OBVIOUS
<1>1. None \notin Outcomes /\ "dropped" \in Outcomes
  BY DelegationsAssumption DEF Outcomes
<1>2. Waiting(h)' => Waiting(h)
  BY Zenon DEF Waiting
<1>3. CASE /\ receipt'[h] = receipt[h] /\ (Watched(h)' <=> Watched(h))
           /\ (Pending(h)' <=> Pending(h))
  BY <1>2, <1>3, PlaceKept
<1>4. CASE /\ Watched(h) /\ ~Watched(h)' /\ receipt'[h] \in Outcomes
           /\ receipt[h] \in {None, "dropped"}
  BY <1>1, <1>2, <1>4, Zenon DEF Place, Edge, Over
<1>5. CASE /\ Pending(h) /\ ~Acking(h) /\ ~Pending(h)' /\ receipt'[h] = "dropped"
           /\ Watched(h)' => Watched(h)
<2>1. Waiting(h)
  BY <1>5, Zenon DEF Waiting, Awaits
<2>2. h \in queued /\ ~Watched(h) /\ receipt[h] = None
<3>1. h \in ToSet(pending[Source[h]]) /\ Source[h] \in Threads
  BY <1>5, DelegationsAssumption DEF Pending
<3>2. h \in queued
  BY <3>1, Zenon DEF IInv, Queues
<3> QED BY <1>5, <2>1, <3>2, Zenon DEF Place
<2> QED BY <1>1, <1>5, <2>2, Zenon DEF Place, Edge, Over
<1> QED BY <1>3, <1>4, <1>5

\* A drain gets its head past a gate, into it, or back to the queue.
LEMMA PlaceTurned ==
  ASSUME IInv, NEW t \in Threads, \A h \in Handoffs : Place(h), drain[t].phase \notin {"off", "ack"},
         drain[t].todo # <<>>, UNCHANGED <<pending, receipt, watch, queued>>,
         drain' = Advance(t) \/ \E p \in Phases \ {"ack"} : drain' = Enter(t, p)
  PROVE  \A h \in Handoffs : Place(h)' /\ Edge(h)
<1>1. \A h \in Handoffs : (Acking(h)' => Acking(h)) /\ (Waiting(h)' => Waiting(h))
<2>1. CASE drain' = Advance(t)
  BY <2>1, HeadAdvanced
<2>2. CASE \E p \in Phases \ {"ack"} : drain' = Enter(t, p)
<3>1. PICK p \in Phases \ {"ack"} : drain' = Enter(t, p)
  BY <2>2
<3>2. PICK g \in Handoffs : g = Current(t)
  BY <3>1, HeadEntered
<3>3. /\ Waiting(g) /\ ~Acking(g)' /\ \A h \in Handoffs : Awaits(h)' <=> Awaits(h)
      /\ \A h \in Handoffs \ {g} : Acking(h)' <=> Acking(h)
  BY <3>1, <3>2, HeadEntered
<3> QED BY <3>3, Zenon DEF Waiting
<2> QED BY <2>1, <2>2
<1>2. \A h \in Handoffs : (Watched(h)' <=> Watched(h)) /\ (Pending(h)' <=> Pending(h))
  BY Zenon DEF Watched, Pending
<1> QED BY <1>1, <1>2, PlaceKept

\* A target that is busy after all, and a turn on one that is not.
LEMMA PlaceOfBusy ==
  ASSUME IInv, NEW t \in Threads, \A h \in Handoffs : Place(h), drain[t].phase \notin {"off", "ack"},
         drain[t].todo # <<>>, FoundBusy(t)
  PROVE  \A h \in Handoffs : Place(h)' /\ Edge(h)
<1>1. /\ UNCHANGED <<pending, watch, queued>>
      /\ \/ drain' = Advance(t) /\ UNCHANGED receipt
         \/ /\ drain' = Enter(t, "ack")
            /\ receipt' = [receipt EXCEPT ![Current(t)] = "busy_gave_up"]
  BY Zenon DEF FoundBusy, history
<1> QED BY <1>1, PlaceTurned, PlaceSettled DEF Outcomes

LEMMA PlaceOfRun ==
  ASSUME IInv, Hosts, NEW t \in Threads, \A h \in Handoffs : Place(h),
         drain[t].phase \notin {"off", "ack"}, drain[t].todo # <<>>, ~Busy(To[Current(t)]), Run(t)
  PROVE  \A h \in Handoffs : Place(h)' /\ Edge(h)
<1>1. Books /\ Machines /\ Current(t) \in Handoffs
  BY TypeParts, Drained DEF IInv
<1>2. PICK u \in Threads : u = Home[To[Current(t)]]
  BY <1>1, DelegationsAssumption
<1>3. watch[u] = None
  BY <1>1, <1>2, HostsOfRun
<1>4. /\ drain' = Enter(t, "ack") /\ UNCHANGED <<pending, queued>>
      /\ \/ watch' = [watch EXCEPT ![u] = Current(t)] /\ UNCHANGED receipt
         \/ /\ watch' = [watch EXCEPT ![u] = None]
            /\ receipt' = [receipt EXCEPT ![Current(t)] = "failed"]
  BY <1>2, Zenon DEF Run, Unwatch, history
<1>5. watch' = [watch EXCEPT ![u] = None] => watch' = watch
  BY <1>1, <1>3 DEF Books
<1> QED BY <1>3, <1>4, <1>5, PlaceBegun, PlaceSettled DEF Outcomes

\* A handoff is queued.
LEMMA PlaceOfQueue ==
  ASSUME IInv, \A h \in Handoffs : Place(h), NEW g \in Handoffs, Queue(g)
  PROVE  \A h \in Handoffs : Place(h)' /\ Edge(h)
<1>1. PICK t \in Threads : t = Source[g]
  BY DelegationsAssumption
<1>2. /\ g \notin queued /\ queued' = queued \cup {g} /\ UNCHANGED <<drain, receipt, watch>>
      /\ pending' = [pending EXCEPT ![t] = Append(@, g)]
  BY <1>1, Zenon DEF Queue
<1>3. ToSet(pending'[t]) = ToSet(pending[t]) \cup {g} /\ \A u \in Threads \ {t} : pending'[u] = pending[u]
  BY <1>2, AppendElements DEF IInv, TypeOK
<1>4. ASSUME NEW h \in Handoffs \ {g} PROVE Pending(h)' <=> Pending(h)
  BY <1>3, DelegationsAssumption, Zenon DEF Pending
<1>5. \A h \in Handoffs : (Watched(h)' <=> Watched(h)) /\ (Acking(h)' <=> Acking(h))
  BY <1>2, Zenon DEF Watched, Acking, Current
<1>6. \A h \in Handoffs \ {g} : Waiting(h)' => Waiting(h)
  BY <1>2, <1>4, <1>5, Zenon DEF Waiting, Awaits
<1>7. ASSUME NEW h \in Handoffs \ {g} PROVE Place(h)' /\ Edge(h)
  BY <1>2, <1>4, <1>5, <1>6, PlaceKept
<1>8. receipt[g] = None /\ ~Watched(g)
  BY <1>2, Zenon DEF Place
<1>9. ~Acking(g) /\ ~Pending(g) /\ Pending(g)'
<2>1. g \notin ToSet(pending[t]) \cup ToSet(drain[t].todo)
  BY <1>2, Zenon DEF IInv, Queues
<2>2. drain[t].phase = "ack" => Current(t) \in ToSet(drain[t].todo)
  BY Drained DEF IInv
<2> QED BY <1>1, <1>3, <2>1, <2>2, SMT DEF Pending, Acking
<1>10. Place(g)' /\ Edge(g)
<2>1. ~Watched(g)' /\ ~Acking(g)' /\ receipt'[g] = None /\ g \in queued'
  BY <1>2, <1>5, <1>8, <1>9
<2>2. Place(g)'
  BY <1>9, <2>1, Zenon DEF Place
<2> QED BY <1>8, <1>9, <2>1, <2>2, Zenon DEF Edge, Queued
<1> QED BY <1>7, <1>10

\* A turn on thread t ends.
LEMMA WatchEnds ==
  ASSUME IInv, Hosts, NEW t \in Threads, Unwatch(t), NEW h \in Handoffs
  PROVE  IF watch[t] = h THEN Watched(h) /\ ~Watched(h)' ELSE Watched(h)' <=> Watched(h)
<1> USE DelegationsAssumption
<1>1. watch'[t] = None /\ h # None /\ \A u \in Threads \ {t} : watch'[u] = watch[u]
  BY DEF Unwatch, IInv, TypeOK
<1>2. CASE watch[t] = h
<2>1. \A u \in Threads : watch[u] = h => u = t
  BY <1>1, <1>2 DEF Hosts
<2>2. \A u \in Threads : watch'[u] # h
  BY <1>1, <2>1
<2> QED BY <1>2, <2>2, Zenon DEF Watched
<1>3. CASE watch[t] # h
<2>1. \A u \in Threads : watch'[u] = h <=> watch[u] = h
  BY <1>1, <1>3
<2> QED BY <1>3, <2>1, Zenon DEF Watched
<1> QED BY <1>2, <1>3

\* With it ends what it was watched for; a failed one drops the queue of t.
LEMMA PlaceOfEnd ==
  ASSUME IInv, Hosts, \A h \in Handoffs : Place(h), NEW t \in Threads, Unwatch(t), UNCHANGED queued,
         NEW o \in Outcomes,
         \/ UNCHANGED pending /\ receipt' = Finalized(t, o)
         \/ /\ pending' = [pending EXCEPT ![t] = <<>>] /\ drain[t].phase # "ack"
            /\ receipt' = [h \in Handoffs |-> IF h \in ToSet(pending[t])
                             THEN "dropped" ELSE Finalized(t, o)[h]],
         \A h \in Handoffs : (Acking(h)' <=> Acking(h)) /\ (Awaits(h)' => Awaits(h))
  PROVE  \A h \in Handoffs : Place(h)' /\ Edge(h)
<1>1. \A u \in Threads : ToSet(pending'[u]) \subseteq ToSet(pending[u])
<2>1. pending' = pending \/ pending' = [pending EXCEPT ![t] = <<>>]
  OBVIOUS
<2> QED BY <2>1, ElementsOfEmpty DEF IInv, TypeOK
<1>2. ASSUME NEW h \in Handoffs
      PROVE  \/ /\ receipt'[h] = receipt[h] /\ (Watched(h)' <=> Watched(h))
                /\ (Pending(h)' <=> Pending(h))
             \/ /\ Watched(h) /\ ~Watched(h)' /\ receipt'[h] \in Outcomes
                /\ receipt[h] \in {None, "dropped"}
             \/ /\ Pending(h) /\ ~Acking(h) /\ ~Pending(h)' /\ receipt'[h] = "dropped"
                /\ Watched(h)' => Watched(h)
<2>1. IF watch[t] = h THEN Watched(h) /\ ~Watched(h)' ELSE Watched(h)' <=> Watched(h)
  BY WatchEnds
<2>2. Watched(h) => receipt[h] \in {None, "dropped"}
  BY Zenon DEF Place
<2>3. Finalized(t, o)[h] = IF watch[t] = h THEN o ELSE receipt[h]
  BY DEF Finalized
<2>4. CASE UNCHANGED pending /\ receipt'[h] = Finalized(t, o)[h]
<3>1. Pending(h)' <=> Pending(h)
  BY <2>4, Zenon DEF Pending
<3> QED BY <2>1, <2>2, <2>3, <2>4, <3>1
<2>5. CASE /\ pending' = [pending EXCEPT ![t] = <<>>] /\ drain[t].phase # "ack"
           /\ receipt'[h] = IF h \in ToSet(pending[t]) THEN "dropped" ELSE Finalized(t, o)[h]
<3>1. /\ ToSet(pending'[t]) = {} /\ Source[h] \in Threads
      /\ \A u \in Threads \ {t} : pending'[u] = pending[u]
  BY <2>5, ElementsOfEmpty, DelegationsAssumption DEF IInv, TypeOK
<3>2. h \in ToSet(pending[t]) => Source[h] = t
  BY Zenon DEF IInv, Queues
<3>3. CASE h \in ToSet(pending[t])
<4>1. Pending(h) /\ ~Acking(h) /\ ~Pending(h)' /\ (Watched(h)' => Watched(h))
  BY <2>1, <2>5, <3>1, <3>2, <3>3 DEF Pending, Acking
<4> QED BY <2>5, <3>3, <4>1
<3>4. CASE h \notin ToSet(pending[t])
<4>1. Pending(h)' <=> Pending(h)
  BY <3>1, <3>4 DEF Pending
<4> QED BY <2>1, <2>2, <2>3, <2>5, <3>4, <4>1
<3> QED BY <3>3, <3>4
<2>6. \/ UNCHANGED pending /\ receipt'[h] = Finalized(t, o)[h]
      \/ /\ pending' = [pending EXCEPT ![t] = <<>>] /\ drain[t].phase # "ack"
         /\ receipt'[h] = IF h \in ToSet(pending[t]) THEN "dropped" ELSE Finalized(t, o)[h]
  OBVIOUS
<2> QED BY <2>4, <2>5, <2>6
<1> QED BY <1>1, <1>2, PlaceOver

LEMMA PlaceOfComplete ==
  ASSUME IInv, Hosts, \A h \in Handoffs : Place(h), NEW b \in Bots, NEW ok \in BOOLEAN, Complete(b, ok)
  PROVE  \A h \in Handoffs : Place(h)' /\ Edge(h)
<1>1. PICK t \in Threads : t = turn[b]
  BY Zenon DEF Complete
<1>2. Quiet /\ Unwatch(t) /\ UNCHANGED queued
  BY <1>1, Zenon DEF Complete
<1>3. PICK o \in Outcomes :
        \/ UNCHANGED pending /\ receipt' = Finalized(t, o)
        \/ /\ pending' = [pending EXCEPT ![t] = <<>>]
           /\ receipt' = [h \in Handoffs |-> IF h \in ToSet(pending[t])
                            THEN "dropped" ELSE Finalized(t, o)[h]]
<2>1. "done" \in Outcomes /\ "failed" \in Outcomes
  BY DEF Outcomes
<2> QED BY <1>1, <2>1, Zenon DEF Complete
<1>4. PICK ts \in SUBSET Threads : Request(ts, pending)
<2>1. Request({t} \cup WaitingOn(b), pending) \/ Request(WaitingOn(b) \ {t}, pending)
  BY <1>1, Zenon DEF Complete
<2> QED BY <2>1 DEF WaitingOn
<1>5. \A u \in Threads : \/ drain'[u] = drain[u]
                         \/ drain[u].phase \in {"off", "next"} /\ drain'[u] = NewDrain(pending[u])
  BY <1>4, Requested DEF IInv, TypeOK
<1>6. \A u \in Threads : ToSet(pending'[u]) \subseteq ToSet(pending[u])
<2>1. pending' = pending \/ pending' = [pending EXCEPT ![t] = <<>>]
  BY <1>3
<2> QED BY <2>1, ElementsOfEmpty DEF IInv, TypeOK
<1>7. \A h \in Handoffs : (Acking(h)' <=> Acking(h)) /\ (Awaits(h)' => Awaits(h))
  BY <1>5, <1>6, HeadRenewed
<1>8. drain[t].phase # "ack"
  BY <1>2 DEF Quiet
<1> QED BY <1>2, <1>3, <1>7, <1>8, PlaceOfEnd

\* reloadProviders ends every turn: each watched peer is busy on its home thread.
LEMMA PlaceOfReload ==
  ASSUME IInv, Hosts, \A h \in Handoffs : Place(h), Reload
  PROVE  \A h \in Handoffs : Place(h)' /\ Edge(h)
<1> USE DelegationsAssumption
<1>1. UNCHANGED <<pending, drain, queued>>
  BY Zenon DEF Reload
<1>2. ASSUME NEW h \in Handoffs
      PROVE  IF Watched(h) THEN receipt'[h] = "failed" /\ ~Watched(h)'
                           ELSE receipt'[h] = receipt[h] /\ ~Watched(h)'
<2>1. /\ \A t \in Threads : watch'[t] = IF \E b \in Bots : Busy(b) /\ Home[b] = t THEN None ELSE watch[t]
      /\ receipt'[h] = IF \E b \in Bots : Busy(b) /\ watch[Home[b]] = h THEN "failed" ELSE receipt[h]
  BY Zenon DEF Reload
<2>2. \A t \in Threads : watch[t] # None => \E b \in Bots : Busy(b) /\ Home[b] = t
  BY DEF Hosts, IInv, TypeOK
<2>3. ~Watched(h)'
<3>1. \A t \in Threads : watch'[t] # h
  BY <2>1, <2>2
<3> QED BY <3>1, Zenon DEF Watched
<2>4. Watched(h) <=> \E b \in Bots : Busy(b) /\ watch[Home[b]] = h
  BY <2>2 DEF Watched
<2> QED BY <2>1, <2>3, <2>4
<1>3. \A h \in Handoffs : /\ (Acking(h)' <=> Acking(h)) /\ (Awaits(h)' <=> Awaits(h))
                          /\ (Pending(h)' <=> Pending(h))
  BY <1>1, Zenon DEF Acking, Awaits, Pending, Current
<1>4. \A h \in Handoffs : Watched(h) => receipt[h] \in {None, "dropped"}
  BY Zenon DEF Place
<1>5. \A h \in Handoffs :
        \/ /\ receipt'[h] = receipt[h] /\ (Watched(h)' <=> Watched(h))
           /\ (Pending(h)' <=> Pending(h))
        \/ /\ Watched(h) /\ ~Watched(h)' /\ receipt'[h] \in Outcomes
           /\ receipt[h] \in {None, "dropped"}
  BY <1>2, <1>3, <1>4 DEF Outcomes
<1>6. \A u \in Threads : ToSet(pending'[u]) \subseteq ToSet(pending[u])
  BY <1>1
<1> QED BY <1>1, <1>3, <1>5, <1>6, PlaceOver

LEMMA PlaceOfAcknowledge ==
  ASSUME IInv, \A h \in Handoffs : Place(h), NEW t \in Threads, Acknowledge(t)
  PROVE  \A h \in Handoffs : Place(h)' /\ Edge(h)
<1>1. /\ drain[t].phase = "ack" /\ drain' = Advance(t) /\ UNCHANGED <<receipt, watch, queued>>
      /\ pending' = [pending EXCEPT ![t] = RemoveFirst(@, Current(t))]
  BY Zenon DEF Acknowledge, history
<1>2. PICK g \in Handoffs : g = Current(t)
  BY <1>1, Drained DEF IInv
<1>3. drain[t].todo # <<>>
  BY <1>1, Drained DEF IInv
<1>4. /\ ToSet(pending'[t]) = ToSet(pending[t]) \ {g}
      /\ \A u \in Threads \ {t} : pending'[u] = pending[u]
<2>1. pending[t] \in Seq(Handoffs) /\ IsInjective(pending[t])
  BY Drained DEF IInv
<2>2. pending'[t] = RemoveFirst(pending[t], g) /\ \A u \in Threads \ {t} : pending'[u] = pending[u]
  BY <1>1, <1>2 DEF IInv, TypeOK
<2> QED BY <2>1, <2>2, RemoveFirstElements
<1>5. \A h \in Handoffs : (Acking(h)' => Acking(h)) /\ (Waiting(h)' => Waiting(h))
<2>1. \A u \in Threads : ToSet(pending'[u]) \subseteq ToSet(pending[u])
  BY <1>4
<2>2. Current(t) \notin ToSet(pending'[t])
  BY <1>2, <1>4
<2> QED BY <1>1, <1>3, <2>1, <2>2, HeadAdvanced
<1>6. ASSUME NEW h \in Handoffs PROVE (Pending(h)' <=> Pending(h)) \/ Acking(h)
<2>1. Source[h] \in Threads /\ Source[g] = t
<3>1. g \in ToSet(drain[t].todo)
  BY <1>2, <1>3, Drained DEF IInv
<3> QED BY <3>1, DelegationsAssumption, Zenon DEF IInv, Queues
<2>2. CASE h = g
  BY <1>1, <1>2, <2>1, <2>2, Zenon DEF Acking
<2>3. CASE h # g
  BY <1>4, <2>1, <2>3 DEF Pending
<2> QED BY <2>2, <2>3
<1>7. \A h \in Handoffs : Watched(h)' <=> Watched(h)
  BY <1>1, Zenon DEF Watched
<1> QED BY <1>1, <1>5, <1>6, <1>7, PlaceKept

LEMMA LivesStep ==
  ASSUME IInv, Hosts, Places, [Next]_vars, crashes' = 0
  PROVE  \A h \in Handoffs : Place(h)' /\ Edge(h)
<1> DEFINE Goal == \A h \in Handoffs : Place(h)' /\ Edge(h)
<1>1. crashes = 0 /\ ~Crash
<2>1. Crash => crashes' = crashes + 1
  BY CrashFacts, TypeParts, Zenon DEF IInv, Crashed, Reborn
<2>2. crashes' = crashes \/ (Crash /\ crashes' = crashes + 1)
  BY <2>1, Zenon DEF Next, vars, history, StartTurn, Queue, Complete, CompleteRoom, EndSilently, Answer,
     Process, FoundBusy, OpenGate, Run, Allowed, Denied, Acknowledge, Finish, Reload
<2>3. crashes \in Nat
  BY DelegationsAssumption, SMT DEF IInv, TypeOK
<2> QED BY <2>1, <2>2, <2>3
<1>2. \A h \in Handoffs : Place(h)
  BY <1>1 DEF Places
<1>3. ASSUME UNCHANGED <<pending, drain, receipt, watch, queued>> PROVE Goal
<2>1. \A h \in Handoffs : /\ (Acking(h)' <=> Acking(h)) /\ (Waiting(h)' <=> Waiting(h))
                          /\ (Pending(h)' <=> Pending(h)) /\ (Watched(h)' <=> Watched(h))
  BY <1>3, Zenon DEF Acking, Waiting, Awaits, Pending, Current, Watched
<2> QED BY <1>2, <1>3, <2>1, PlaceKept
<1>4. ASSUME NEW b \in Bots, NEW t \in Threads \cup {Room}, StartTurn(b, t) PROVE Goal
  BY <1>3, <1>4, Zenon DEF StartTurn, history
<1>5. ASSUME NEW h \in Handoffs, Queue(h) PROVE Goal
  BY <1>2, <1>5, PlaceOfQueue
<1>6. ASSUME NEW b \in Bots, NEW ok \in BOOLEAN, Complete(b, ok) PROVE Goal
  BY <1>2, <1>6, PlaceOfComplete
<1>7. ASSUME NEW b \in Bots, CompleteRoom(b) PROVE Goal
  BY <1>3, <1>7, Zenon DEF CompleteRoom
<1>8. ASSUME NEW b \in Bots, EndSilently(b) PROVE Goal
<2>1. PICK t \in Threads : t = turn[b]
  BY <1>8, Zenon DEF EndSilently
<2>2. Unwatch(t) /\ receipt' = Finalized(t, "failed") /\ UNCHANGED <<pending, drain, queued>>
  BY <1>8, <2>1, Zenon DEF EndSilently
<2>3. \A h \in Handoffs : (Acking(h)' <=> Acking(h)) /\ (Awaits(h)' => Awaits(h))
  BY <2>2, Zenon DEF Acking, Awaits, Pending, Current
<2> QED BY <1>2, <2>2, <2>3, PlaceOfEnd DEF Outcomes
<1>9. ASSUME NEW t \in Threads, NEW v \in {"allowed", "denied"}, Answer(t, v) PROVE Goal
<2>1. /\ drain[t].phase = "gate" /\ drain' = Enter(t, v)
      /\ UNCHANGED <<pending, receipt, watch, queued>>
  BY <1>9, Zenon DEF Answer, GateOpen, history
<2>2. drain[t].todo # <<>>
  BY <2>1, Drained DEF IInv
<2> QED BY <1>2, <2>1, <2>2, PlaceTurned DEF Phases
<1>10. ASSUME NEW t \in Threads, Process(t) PROVE Goal
<2>1. drain[t].phase \notin {"off", "ack"} /\ drain[t].todo # <<>>
  BY <1>10 DEF Process
<2>2. FoundBusy(t) \/ OpenGate(t) \/ (~Busy(To[Current(t)]) /\ Run(t))
  BY <1>10, Zenon DEF Process
<2>3. CASE OpenGate(t)
<3>1. drain' = Enter(t, "gate") /\ UNCHANGED <<pending, receipt, watch, queued>>
  BY <2>3, Zenon DEF OpenGate, history
<3> QED BY <1>2, <2>1, <3>1, PlaceTurned DEF Phases
<2> QED BY <1>2, <2>1, <2>2, <2>3, PlaceOfBusy, PlaceOfRun
<1>11. ASSUME NEW t \in Threads, Allowed(t) PROVE Goal
<2>1. drain[t].phase = "allowed" /\ (FoundBusy(t) \/ (~Busy(To[Current(t)]) /\ Run(t)))
  BY <1>11, Zenon DEF Allowed
<2>2. drain[t].todo # <<>>
  BY <2>1, Drained DEF IInv
<2> QED BY <1>2, <2>1, <2>2, PlaceOfBusy, PlaceOfRun
<1>12. ASSUME NEW t \in Threads, Denied(t) PROVE Goal
<2>1. /\ drain[t].phase = "denied" /\ drain' = Enter(t, "ack")
      /\ receipt' = [receipt EXCEPT ![Current(t)] = "denied"] /\ UNCHANGED <<pending, watch, queued>>
  BY <1>12, Zenon DEF Denied, history
<2>2. drain[t].todo # <<>>
  BY <2>1, Drained DEF IInv
<2> QED BY <1>2, <2>1, <2>2, PlaceSettled DEF Outcomes
<1>13. ASSUME NEW t \in Threads, Acknowledge(t) PROVE Goal
  BY <1>2, <1>13, PlaceOfAcknowledge
<1>14. ASSUME NEW t \in Threads, Finish(t) PROVE Goal
<2>1. drain[t].phase = "next" /\ UNCHANGED <<pending, receipt, watch, queued>>
  BY <1>14, Zenon DEF Finish, history
<2>2. PICK d : drain' = [drain EXCEPT ![t] = d] /\ (d = NoDrain \/ d = NewDrain(pending[t]))
  BY <1>14, Zenon DEF Finish
<2>3. \A u \in Threads : \/ drain'[u] = drain[u]
                         \/ /\ drain[u].phase \in {"off", "next"}
                            /\ drain'[u] = NoDrain \/ drain'[u] = NewDrain(pending[u])
  BY <2>1, <2>2 DEF IInv, TypeOK
<2>4. \A h \in Handoffs : (Acking(h)' <=> Acking(h)) /\ (Awaits(h)' => Awaits(h))
  BY <2>1, <2>3, HeadRenewed
<2>5. \A h \in Handoffs : /\ (Waiting(h)' => Waiting(h)) /\ (Watched(h)' <=> Watched(h))
                          /\ (Pending(h)' <=> Pending(h))
  BY <2>1, <2>4, Zenon DEF Waiting, Watched, Pending
<2> QED BY <1>2, <2>1, <2>4, <2>5, PlaceKept
<1>15. CASE Reload
  BY <1>2, <1>15, PlaceOfReload
<1>16. CASE UNCHANGED vars
  BY <1>3, <1>16, Zenon DEF vars
<1> QED BY <1>1, <1>4, <1>5, <1>6, <1>7, <1>8, <1>9, <1>10, <1>11, <1>12, <1>13, <1>14, <1>15,
           <1>16, Zenon DEF Next

\* Where every operator works on its home thread, the program follows the lifecycle: a handoff
\* is queued once, runs as the only one of its peer, and its outcome is final but for a drop
\* that an open card overtakes.
THEOREM FollowsLifecycle ==
  ASSUME OneRunEach
  PROVE  Spec => ImplementsLifecycle
<1> DEFINE Lives == IInv /\ Hosts /\ Places
<1>1. Init => Hosts /\ Places /\ Lifecycle!Init
<2> SUFFICES ASSUME Init PROVE Hosts /\ Places /\ Lifecycle!Init
  OBVIOUS
<2>1. Books /\ IInv
  BY BooksInit, InitInv
<2>2. /\ \A t \in Threads : watch[t] = None /\ drain[t].phase = "off" /\ drain[t].todo = <<>>
                            /\ pending[t] = <<>>
      /\ \A b \in Bots : turn[b] = None
      /\ \A h \in Handoffs : receipt[h] = None
  BY SMT DEF Init, NoDrain
<2>3. \A h \in Handoffs : ~Watched(h) /\ ~Pending(h) /\ ~Awaits(h) /\ ~Acking(h)
  BY <2>2, DelegationsAssumption, ElementsOfEmpty, SMT DEF Watched, Pending, Awaits, Acking
<2>4. Hosts
  BY <2>2, SMT DEF Hosts, GateOpen
<2>5. Places
  BY <2>2, <2>3, Zenon DEF Places, Place, Waiting
<2>6. Lifecycle!Init
  BY <2>2, <2>3 DEF Lifecycle!Init, Status
<2> QED BY <2>4, <2>5, <2>6
<1>2. IInv /\ Hosts /\ Places /\ [Next]_vars
        => Hosts' /\ Places' /\ [crashes' = 0 => Lifecycle!Move]_Status
<2> SUFFICES ASSUME IInv, Hosts, Places, [Next]_vars
             PROVE  Hosts' /\ Places' /\ (crashes' = 0 => Lifecycle!Move)
  OBVIOUS
<2>1. Books /\ Machines /\ HeadsKnown
  BY TypeParts, Drained DEF IInv, HeadsKnown
<2>2. Hosts'
  BY <2>1, HostsStep
<2>3. Books'
  BY <2>1, BooksStep
<2>4. crashes' = 0 => \A h \in Handoffs : Place(h)' /\ Edge(h)
  BY LivesStep
<2>5. crashes' = 0 => Lifecycle!Move
  BY <2>1, <2>2, <2>3, <2>4, EdgesMove
<2>6. Places'
  BY <2>4 DEF Places
<2> QED BY <2>2, <2>5, <2>6
<1> QED BY <1>1, <1>2, QueuesAgree, PTL DEF Spec, ImplementsLifecycle
-----------------------------------------------------------------------------
(* What waits for a busy peer is retried.                                  *)

\* The peer works, and whoever ends its turn will ask; or a drain of the source's
\* has the handoff ahead of it, or was asked to look again.
Remembered(h) ==
  \/ Busy(To[h])
  \/ Draining(Source[h]) /\ (h \in ToSet(drain[Source[h]].todo) \/ Source[h] \in redrain)
Retried == \A h \in Handoffs :
  (attempts[h] > 0 => h \in queued) /\ (Pending(h) /\ attempts[h] > 0 => Remembered(h))

\* No card idles a peer, and no turn ends where nobody drains.
PeersDoNotAsk == ~Gates \/ \A h, g \in Handoffs : To[h] # Owner[Source[g]]
Heard == /\ \A b \in Bots : turn[b] # Room
         /\ \A t \in Threads : drain[t].phase = "gate" => Gates

\* Operators work on threads, and cards are open only where there are cards.
LEMMA HeardStep ==
  ASSUME ~Rooms, IInv, Heard, [Next]_vars
  PROVE  Heard'
<1>0. /\ turn \in [Bots -> Threads \cup {Room, None}] /\ drain \in [Threads -> Drains]
      /\ Room \notin Threads /\ Room # None /\ Home \in [Bots -> Threads] /\ To \in [Handoffs -> Bots]
      /\ pending \in [Threads -> Seq(Handoffs)] /\ redrain \subseteq Threads
  BY DelegationsAssumption DEF IInv, TypeOK
<1>1. ASSUME \A b \in Bots : turn'[b] \in {turn[b], None} \cup Threads,
             \A t \in Threads : drain'[t].phase = "gate" => drain[t].phase = "gate" \/ Gates
      PROVE  Heard'
  BY <1>0, <1>1 DEF Heard
<1>2. ASSUME NEW b \in Bots, NEW t \in Threads \cup {Room}, StartTurn(b, t) PROVE Heard'
  <2>1. t \in Threads /\ turn' = [turn EXCEPT ![b] = t] /\ drain' = drain
    BY <1>2, Zenon DEF StartTurn
  <2>. QED BY <1>0, <1>1, <2>1
<1>3. ASSUME NEW h \in Handoffs, Queue(h) PROVE Heard'
  BY <1>1, <1>3, Zenon DEF Queue
<1>4. ASSUME NEW b \in Bots, NEW ok \in BOOLEAN, Complete(b, ok) PROVE Heard'
  <2>1. turn' = [turn EXCEPT ![b] = None]
    BY <1>4, Zenon DEF Complete, Ended
  <2>2. PICK ts \in SUBSET Threads : Request(ts, pending) \/ Request(ts, pending')
    <3>1. WaitingOn(b) \subseteq Threads
      BY Zenon DEF WaitingOn
    <3>. QED BY <1>4, <3>1 DEF Complete
  <2>3. ASSUME NEW q, NEW t \in Threads PROVE NewDrain(q).phase # "gate"
    BY DEF NewDrain
  <2>4. \A t \in Threads : drain'[t].phase = "gate" => drain[t].phase = "gate"
    BY <2>2, <2>3, Zenon DEF Request
  <2>. QED BY <1>0, <1>1, <2>1, <2>4
<1>5. ASSUME NEW b \in Bots, CompleteRoom(b) PROVE Heard'
  BY <1>5, Zenon DEF CompleteRoom, Heard
<1>6. ASSUME NEW b \in Bots, EndSilently(b) PROVE Heard'
  <2>1. turn' = [turn EXCEPT ![b] = None] /\ drain' = drain
    BY <1>6, Zenon DEF EndSilently, Ended
  <2>. QED BY <1>0, <1>1, <2>1
<1>7. ASSUME NEW t \in Threads, NEW p \in Phases, drain' = Enter(t, p), turn' = turn, p = "gate" => Gates PROVE Heard'
  BY <1>0, <1>1, <1>7, Entered
<1>8. ASSUME NEW t \in Threads, drain' = Advance(t), turn' = turn PROVE Heard'
  <2>1. \A u \in Threads : drain'[u].phase \in {"next", drain[u].phase}
    BY <1>0, <1>8 DEF Advance, Drains
  <2>. QED BY <1>1, <1>8, <2>1
<1>9. ASSUME NEW t \in Threads, NEW v \in {"allowed", "denied"}, Answer(t, v) PROVE Heard'
  <2>1. drain' = Enter(t, v) /\ turn' = turn /\ v \in Phases /\ v # "gate"
    BY <1>9 DEF Answer, Phases
  <2>. QED BY <1>7, <2>1
<1>10. ASSUME NEW t \in Threads, FoundBusy(t) PROVE Heard'
  <2>1. turn' = turn /\ (drain' = Advance(t) \/ drain' = Enter(t, "ack")) /\ "ack" \in Phases
    BY <1>10 DEF FoundBusy, Phases
  <2>. QED BY <1>7, <1>8, <2>1
<1>11. ASSUME NEW t \in Threads, Run(t), drain[t].todo # <<>> PROVE Heard'
  <2>1. Current(t) \in Handoffs
    BY <1>11, Drained DEF IInv
  <2>2. PICK b \in Bots : turn' = turn \/ turn' = [turn EXCEPT ![b] = Home[b]]
    BY <1>0, <1>11, <2>1, Zenon DEF Run
  <2>3. drain' = Enter(t, "ack") /\ "ack" \in Phases
    BY <1>11 DEF Run, Phases
  <2>4. \A u \in Threads : drain'[u].phase = "gate" => drain[u].phase = "gate"
    BY <1>0, <2>3, Entered
  <2>5. \A c \in Bots : turn'[c] \in {turn[c], None} \cup Threads
    BY <1>0, <2>2
  <2>. QED BY <1>1, <2>4, <2>5
<1>12. ASSUME NEW t \in Threads, Process(t) PROVE Heard'
  <2>1. CASE OpenGate(t)
    <3>1. drain' = Enter(t, "gate") /\ turn' = turn /\ Gates /\ "gate" \in Phases
      BY <2>1 DEF OpenGate, Phases
    <3>. QED BY <1>7, <3>1
  <2>. QED BY <1>10, <1>11, <1>12, <2>1 DEF Process
<1>13. ASSUME NEW t \in Threads, Allowed(t) PROVE Heard'
  <2>1. drain[t].todo # <<>>
    BY <1>13, Drained DEF IInv, Allowed
  <2>. QED BY <1>10, <1>11, <1>13, <2>1 DEF Allowed
<1>14. ASSUME NEW t \in Threads, Denied(t) PROVE Heard'
  <2>1. drain' = Enter(t, "ack") /\ turn' = turn /\ "ack" \in Phases
    BY <1>14 DEF Denied, Phases
  <2>. QED BY <1>7, <2>1
<1>15. ASSUME NEW t \in Threads, Acknowledge(t) PROVE Heard'
  BY <1>8, <1>15 DEF Acknowledge
<1>16. ASSUME NEW t \in Threads, Finish(t) PROVE Heard'
  <2>1. turn' = turn /\ \E e : drain' = [drain EXCEPT ![t] = e] /\ e.phase # "gate"
    <3>1. NewDrain(pending[t]).phase # "gate" /\ NoDrain.phase # "gate"
      BY DEF NewDrain, NoDrain
    <3>. QED BY <1>16, <3>1, Zenon DEF Finish
  <2>. QED BY <1>0, <1>1, <2>1
<1>17. CASE Reload
  <2>1. drain' = drain /\ \A b \in Bots : turn'[b] = None
    BY <1>17, Zenon DEF Reload
  <2>. QED BY <1>1, <2>1
<1>18. CASE Crash
  <2>1. PICK q \in [Threads -> Seq(Handoffs)] :
          /\ \A b \in Bots : turn'[b] = None
          /\ \A t \in Threads : drain'[t] = IF q[t] = <<>> THEN NoDrain ELSE NewDrain(q[t])
    BY <1>18, CrashFacts, TypeParts DEF IInv, Crashed, Reborn
  <2>2. NoDrain.phase # "gate" /\ \A s : NewDrain(s).phase # "gate"
    BY DEF NoDrain, NewDrain
  <2>3. \A t \in Threads : drain'[t].phase # "gate"
    BY <2>1, <2>2, Zenon
  <2>. QED BY <1>1, <2>1, <2>3
<1>19. CASE UNCHANGED vars
  BY <1>1, <1>19 DEF vars
<1>. QED BY <1>2, <1>3, <1>4, <1>5, <1>6, <1>9, <1>12, <1>13, <1>14, <1>15, <1>16, <1>17, <1>18, <1>19,
            Zenon DEF Next

\* What leaves attempts and queues alone, frees no peer and goes on with the drains.
LEMMA RetriedOn ==
  ASSUME Retried, UNCHANGED <<attempts, pending, queued>>, redrain \subseteq redrain',
         \A h \in Handoffs : Busy(To[h]) => Busy(To[h])',
         \A t \in Threads : Draining(t) => Draining(t)' /\ ToSet(drain[t].todo) \subseteq ToSet(drain'[t].todo)
  PROVE  Retried'
<1>1. Source \in [Handoffs -> Threads]
  BY DelegationsAssumption
<1>2. \A h \in Handoffs : Pending(h)' <=> Pending(h)
  BY DEF Pending
<1>. QED BY <1>1, <1>2 DEF Retried, Remembered

\* Every step that frees a peer asks for what waits for it.
LEMMA RetriedStep ==
  ASSUME ~Rooms, ~SilentEnds, PeersDoNotAsk, IInv, Heard, Retried, [Next]_vars
  PROVE  Retried'
<1>0. /\ activity \in [Bots -> {"idle", "working", "waiting-on-you"}]
      /\ drain \in [Threads -> Drains] /\ pending \in [Threads -> Seq(Handoffs)]
      /\ redrain \subseteq Threads /\ attempts \in [Handoffs -> 0..(MaxBusy - 1)]
      /\ Owner \in [Threads -> Bots] /\ Source \in [Handoffs -> Threads] /\ To \in [Handoffs -> Bots]
      /\ Home \in [Bots -> Threads]
  BY DelegationsAssumption DEF IInv, TypeOK
<1>1. ASSUME NEW b \in Bots, NEW a, a # "idle", activity' = [activity EXCEPT ![b] = a]
      PROVE  \A c \in Bots : Busy(c) => Busy(c)'
  BY <1>0, <1>1 DEF Busy
<1>2. ASSUME NEW t \in Threads, NEW p \in Phases, p # "off", drain' = Enter(t, p)
      PROVE  \A u \in Threads : Draining(u) => Draining(u)' /\ ToSet(drain[u].todo) \subseteq ToSet(drain'[u].todo)
  BY <1>0, <1>2, Entered DEF Draining
<1>3. ASSUME NEW b \in Bots, NEW t \in Threads \cup {Room}, StartTurn(b, t) PROVE Retried'
  <2>1. activity' = [activity EXCEPT ![b] = "working"] /\ UNCHANGED <<attempts, pending, queued, redrain, drain>>
    BY <1>3, Zenon DEF StartTurn, history
  <2>2. \A h \in Handoffs : Busy(To[h]) => Busy(To[h])'
    BY <1>0, <1>1, <2>1
  <2>. QED BY <2>1, <2>2, RetriedOn DEF Draining
<1>4. ASSUME NEW h \in Handoffs, Queue(h) PROVE Retried'
  <2>1. /\ h \notin queued /\ queued' = queued \cup {h} /\ UNCHANGED <<activity, attempts, drain, redrain>>
        /\ pending' = [pending EXCEPT ![Source[h]] = Append(@, h)]
    BY <1>4, Zenon DEF Queue
  <2>2. \A g \in Handoffs : Pending(g)' => Pending(g) \/ g = h
    <3>1. PICK t \in Threads : t = Source[h]
      BY <1>0
    <3>2. pending'[t] = Append(pending[t], h) /\ \A u \in Threads : u # t => pending'[u] = pending[u]
      BY <1>0, <2>1, <3>1
    <3>3. ToSet(pending'[t]) = ToSet(pending[t]) \cup {h}
      BY <1>0, <3>2, AppendElements
    <3>. QED BY <1>0, <3>2, <3>3 DEF Pending
  <2>3. ~(attempts[h] > 0)
    BY <2>1 DEF Retried
  <2>4. \A g \in Handoffs : Remembered(g)' <=> Remembered(g)
    BY <2>1 DEF Remembered, Busy, Draining
  <2>. QED BY <2>1, <2>2, <2>3, <2>4 DEF Retried
<1>5. ASSUME NEW b \in Bots, NEW ok \in BOOLEAN, Complete(b, ok) PROVE Retried'
  <2>1. /\ activity' = [activity EXCEPT ![b] = "idle"] /\ UNCHANGED <<attempts, queued>>
        /\ \A u \in Threads : pending'[u] \in {pending[u], <<>>}
    <3>1. activity' = [activity EXCEPT ![b] = "idle"] /\ UNCHANGED <<attempts, queued>>
      BY <1>5, Zenon DEF Complete, Ended
    <3>2. PICK u \in Threads : pending' = pending \/ pending' = [pending EXCEPT ![u] = <<>>]
      BY <1>5, Zenon DEF Complete
    <3>. QED BY <1>0, <3>1, <3>2
  <2>2. PICK ts \in SUBSET Threads :
          /\ Request(ts, pending) /\ \A u \in ts \cap WaitingOn(b) : pending'[u] = pending[u]
          /\ \A u \in WaitingOn(b) : u \in ts \/ pending'[u] = <<>>
    <3>1. WaitingOn(b) \subseteq Threads /\ turn[b] \in Threads
      BY <1>5 DEF WaitingOn, Complete
    <3>2. CASE ok
      <4>1. pending' = pending /\ Request({turn[b]} \cup WaitingOn(b), pending)
        BY <1>5, <3>2, Zenon DEF Complete
      <4>. QED BY <3>1, <4>1
    <3>3. CASE ~ok
      <4>1. /\ pending' = [pending EXCEPT ![turn[b]] = <<>>]
            /\ Request(WaitingOn(b) \ {turn[b]}, pending)
        BY <1>5, <3>3, Zenon DEF Complete
      <4>2. pending'[turn[b]] = <<>> /\ \A u \in Threads \ {turn[b]} : pending'[u] = pending[u]
        BY <1>0, <3>1, <4>1
      <4>. QED BY <3>1, <4>1, <4>2
    <3>. QED BY <3>2, <3>3
  <2>3. \A u \in Threads : Draining(u) => drain'[u] = drain[u] /\ (u \in ts => u \in redrain')
    BY <2>2, Zenon DEF Request
  <2>4. redrain \subseteq redrain'
    BY <2>2, Zenon DEF Request
  <2>5. \A u \in ts : ~Draining(u) /\ pending[u] # <<>> => drain'[u] = NewDrain(pending[u])
    BY <2>2, Zenon DEF Request
  <2>6. \A g \in Handoffs : Pending(g)' => Pending(g) /\ pending'[Source[g]] # <<>>
    BY <1>0, <2>1, ElementsOfEmpty DEF Pending
  <2>7. ASSUME NEW g \in Handoffs, Pending(g)', attempts[g] > 0 PROVE Remembered(g)'
    <3>1. Remembered(g) /\ Pending(g) /\ Source[g] \in Threads
      BY <1>0, <2>6, <2>7 DEF Retried
    <3>2. CASE To[g] # b
      <4>1. activity'[To[g]] = activity[To[g]]
        BY <1>0, <2>1, <3>2
      <4>2. Draining(Source[g]) => Draining(Source[g])'
        BY <2>3, <3>1 DEF Draining
      <4>. QED BY <2>3, <2>4, <3>1, <4>1, <4>2 DEF Remembered, Busy
    <3>3. CASE To[g] = b
      <4>1. /\ Source[g] \in ts /\ pending'[Source[g]] = pending[Source[g]]
            /\ pending'[Source[g]] # <<>>
        BY <2>2, <2>6, <2>7, <3>1, <3>3 DEF WaitingOn, Pending
      <4>2. CASE Draining(Source[g])
        BY <2>3, <3>1, <4>1, <4>2 DEF Remembered, Draining
      <4>3. CASE ~Draining(Source[g])
        <5>1. drain'[Source[g]] = NewDrain(pending'[Source[g]])
          BY <2>5, <4>1, <4>3
        <5>2. drain'[Source[g]].phase = "start" /\ drain'[Source[g]].todo = pending'[Source[g]]
          BY <5>1 DEF NewDrain
        <5>. QED BY <2>7, <5>2 DEF Remembered, Draining, Pending
      <4>. QED BY <4>2, <4>3
    <3>. QED BY <3>2, <3>3
  <2>. QED BY <2>1, <2>6, <2>7 DEF Retried
<1>6. ASSUME NEW t \in Threads, NEW v \in {"allowed", "denied"}, Answer(t, v) PROVE Retried'
  <2>1. /\ drain' = Enter(t, v) /\ v \in Phases /\ v # "off" /\ drain[t].phase = "gate"
        /\ UNCHANGED <<attempts, pending, queued, redrain>>
        /\ \A b \in Bots : b # Owner[t] => activity'[b] = activity[b]
    BY <1>0, <1>6 DEF Answer, Phases, history, GateOpen
  <2>2. drain[t].todo # <<>> /\ Current(t) \in ToSet(drain[t].todo) /\ Current(t) \in Handoffs /\ Gates
    BY <2>1, Drained DEF IInv, Heard
  <2>3. Source[Current(t)] = t
    BY <2>2 DEF IInv, Queues
  <2>4. \A g \in Handoffs : To[g] # Owner[t]
    BY <2>2, <2>3 DEF PeersDoNotAsk
  <2>5. \A g \in Handoffs : Busy(To[g]) => Busy(To[g])'
    BY <1>0, <2>1, <2>4 DEF Busy
  <2>. QED BY <1>2, <2>1, <2>5, RetriedOn
<1>7. ASSUME NEW t \in Threads, FoundBusy(t), drain[t].todo # <<>>, Busy(To[Current(t)]), Draining(t) PROVE Retried'
  <2>1. /\ Current(t) \in ToSet(drain[t].todo) /\ Current(t) \in Handoffs /\ Current(t) \in queued
    BY <1>7, Drained DEF IInv, Queues
  <2>2. PICK h \in Handoffs : h = Current(t)
    BY <2>1
  <2>3. UNCHANGED <<activity, pending, redrain, queued>>
    BY <1>7 DEF FoundBusy, history
  <2>4. CASE attempts' = [attempts EXCEPT ![h] = @ + 1] /\ drain' = Advance(t)
    <3>1. drain[t].todo \in Seq(Handoffs) /\ IsInjective(drain[t].todo)
      BY Drained DEF IInv
    <3>2. /\ ToSet(drain'[t].todo) = ToSet(drain[t].todo) \ {h} /\ drain'[t].phase = "next"
          /\ \A u \in Threads \ {t} : drain'[u] = drain[u]
      BY <1>0, <1>7, <2>2, <2>4, <3>1, HeadAndTail, Advanced DEF Current
    <3>3. \A g \in Handoffs : g # h => attempts'[g] = attempts[g] /\ (Remembered(g) => Remembered(g)')
      BY <1>0, <2>3, <2>4, <3>2 DEF Remembered, Busy, Draining
    <3>4. Remembered(h)'
      BY <1>7, <2>2, <2>3 DEF Remembered, Busy
    <3>5. \A g \in Handoffs : Pending(g)' <=> Pending(g)
      BY <2>3 DEF Pending
    <3>. QED BY <2>1, <2>2, <2>3, <3>3, <3>4, <3>5 DEF Retried
  <2>5. CASE attempts' = attempts /\ drain' = Enter(t, "ack")
    <3>1. "ack" \in Phases
      BY DEF Phases
    <3>. QED BY <1>2, <2>3, <2>5, <3>1, RetriedOn DEF Busy
  <2>. QED BY <1>7, <2>2, <2>4, <2>5 DEF FoundBusy
<1>8. ASSUME NEW t \in Threads, Run(t), drain[t].todo # <<>> PROVE Retried'
  <2>1. Current(t) \in Handoffs
    BY <1>8, Drained DEF IInv
  <2>2. drain' = Enter(t, "ack") /\ "ack" \in Phases /\ UNCHANGED <<attempts, pending, queued, redrain>>
    BY <1>8 DEF Run, Phases, history
  <2>3. activity' = activity \/ activity' = [activity EXCEPT ![To[Current(t)]] = "working"]
    BY <1>8 DEF Run
  <2>4. \A g \in Handoffs : Busy(To[g]) => Busy(To[g])'
    BY <1>0, <1>1, <2>1, <2>3 DEF Busy
  <2>. QED BY <1>2, <2>2, <2>4, RetriedOn
<1>9. ASSUME NEW t \in Threads, OpenGate(t) PROVE Retried'
  <2>1. /\ drain' = Enter(t, "gate") /\ "gate" \in Phases /\ UNCHANGED <<attempts, pending, queued, redrain>>
        /\ activity' = [activity EXCEPT ![Owner[t]] = "waiting-on-you"]
    BY <1>9 DEF OpenGate, Phases, history
  <2>2. \A g \in Handoffs : Busy(To[g]) => Busy(To[g])'
    BY <1>0, <1>1, <2>1
  <2>. QED BY <1>2, <2>1, <2>2, RetriedOn
<1>10. ASSUME NEW t \in Threads, Process(t) PROVE Retried'
  <2>1. Draining(t)
    BY <1>10 DEF Process, Draining
  <2>. QED BY <1>7, <1>8, <1>9, <1>10, <2>1 DEF Process
<1>11. ASSUME NEW t \in Threads, Allowed(t) PROVE Retried'
  <2>1. Draining(t) /\ drain[t].todo # <<>>
    BY <1>11, Drained DEF IInv, Allowed, Draining
  <2>. QED BY <1>7, <1>8, <1>11, <2>1 DEF Allowed
<1>12. ASSUME NEW t \in Threads, Denied(t) PROVE Retried'
  <2>1. /\ drain' = Enter(t, "ack") /\ "ack" \in Phases
        /\ UNCHANGED <<activity, attempts, pending, queued, redrain>>
    BY <1>12 DEF Denied, Phases, history
  <2>. QED BY <1>2, <2>1, RetriedOn DEF Busy
<1>13. ASSUME NEW t \in Threads, Acknowledge(t) PROVE Retried'
  <2>1. /\ drain' = Advance(t) /\ UNCHANGED <<activity, attempts, queued, redrain>> /\ Draining(t)
        /\ pending' = [pending EXCEPT ![t] = RemoveFirst(@, Current(t))]
        /\ drain[t].todo # <<>>
    BY <1>13, Drained DEF Acknowledge, Draining, history, IInv
  <2>2. /\ drain[t].todo \in Seq(Handoffs) /\ IsInjective(drain[t].todo) /\ Current(t) \in Handoffs
        /\ Current(t) \in ToSet(drain[t].todo) /\ pending[t] \in Seq(Handoffs) /\ IsInjective(pending[t])
    BY <2>1, Drained DEF IInv
  <2>3. PICK h \in Handoffs : h = Current(t) /\ Source[h] = t
    BY <2>2 DEF IInv, Queues
  <2>4. /\ ToSet(drain'[t].todo) = ToSet(drain[t].todo) \ {h} /\ drain'[t].phase = "next"
        /\ \A u \in Threads \ {t} : drain'[u] = drain[u]
    BY <1>0, <2>1, <2>2, <2>3, HeadAndTail, Advanced DEF Current
  <2>5. ToSet(pending'[t]) = ToSet(pending[t]) \ {h} /\ \A u \in Threads \ {t} : pending'[u] = pending[u]
    <3>1. pending'[t] = RemoveFirst(pending[t], h) /\ \A u \in Threads \ {t} : pending'[u] = pending[u]
      BY <1>0, <2>1, <2>3
    <3>. QED BY <2>2, <2>3, <3>1, RemoveFirstElements
  <2>6. \A g \in Handoffs : Pending(g)' => Pending(g) /\ g # h
    BY <1>0, <2>3, <2>5 DEF Pending
  <2>7. \A g \in Handoffs : g # h /\ Remembered(g) => Remembered(g)'
    BY <1>0, <2>1, <2>4 DEF Remembered, Busy, Draining
  <2>. QED BY <2>1, <2>6, <2>7 DEF Retried
<1>14. ASSUME NEW t \in Threads, Finish(t) PROVE Retried'
  <2>1. /\ drain[t].phase = "next" /\ drain[t].todo = <<>> /\ redrain' = redrain \ {t}
        /\ UNCHANGED <<activity, attempts, pending, queued>>
        /\ drain' = [drain EXCEPT ![t] = IF (t \in redrain \/ ToSet(pending[t]) \ drain[t].snapshot # {}) /\ pending[t] # <<>>
                                       THEN NewDrain(pending[t]) ELSE NoDrain]
    BY <1>14 DEF Finish, history
  <2>2. \A u \in Threads \ {t} : drain'[u] = drain[u]
    BY <1>0, <2>1
  <2>3. t \in redrain /\ pending[t] # <<>> => drain'[t].phase = "start" /\ drain'[t].todo = pending[t]
    BY <1>0, <2>1 DEF NewDrain
  <2>4. ASSUME NEW g \in Handoffs, Pending(g), Remembered(g) PROVE Remembered(g)'
    <3>1. CASE Busy(To[g])
      BY <2>1, <3>1 DEF Remembered, Busy
    <3>2. CASE Source[g] # t
      BY <1>0, <2>1, <2>2, <2>4, <3>2 DEF Remembered, Busy, Draining
    <3>3. CASE Source[g] = t /\ ~Busy(To[g])
      <4>1. g \in ToSet(pending[t]) /\ t \in redrain /\ pending[t] # <<>>
        BY <2>1, <2>4, <3>3, ElementsOfEmpty DEF Remembered, Pending
      <4>. QED BY <2>3, <3>3, <4>1 DEF Remembered, Draining
    <3>. QED BY <3>1, <3>2, <3>3
  <2>5. \A g \in Handoffs : Pending(g)' <=> Pending(g)
    BY <2>1 DEF Pending
  <2>. QED BY <2>1, <2>4, <2>5 DEF Retried
<1>15. CASE Crash
  <2>1. PICK q \in [Threads -> Seq(Handoffs)] :
          /\ \A t \in Threads : q[t] \in {pending[t], <<>>}
          /\ pending' = q /\ UNCHANGED <<attempts, queued>>
          /\ \A t \in Threads : drain'[t] = IF q[t] = <<>> THEN NoDrain ELSE NewDrain(q[t])
    <3>1. PICK q \in [Threads -> Seq(Handoffs)] :
            Reborn(q) /\ \A t \in Threads : q[t] = pending[t] \/ q[t] = <<>>
      BY <1>15, CrashFacts, TypeParts DEF IInv, Crashed
    <3>. QED BY <3>1 DEF Reborn
  <2>2. ASSUME NEW g \in Handoffs, Pending(g)' PROVE Pending(g) /\ Remembered(g)'
    <3>1. Source[g] \in Threads /\ g \in ToSet(q[Source[g]])
      BY <2>1, <2>2, DelegationsAssumption DEF Pending
    <3>2. q[Source[g]] = pending[Source[g]] /\ q[Source[g]] # <<>>
      BY <2>1, <3>1, ElementsOfEmpty
    <3>3. drain'[Source[g]].phase = "start" /\ drain'[Source[g]].todo = q[Source[g]]
      BY <2>1, <3>1, <3>2, Fresh
    <3>4. Remembered(g)'
      BY <3>1, <3>3 DEF Remembered, Draining
    <3>. QED BY <3>1, <3>2, <3>4 DEF Pending
  <2>. QED BY <2>1, <2>2 DEF Retried
<1>16. ASSUME NEW b \in Bots, CompleteRoom(b) \/ EndSilently(b) PROVE FALSE
  BY <1>16 DEF CompleteRoom, EndSilently, Heard
<1>17. CASE Reload
  BY <1>17 DEF Reload
<1>18. CASE UNCHANGED vars
  BY <1>18, RetriedOn DEF vars, Busy, Draining
<1>. QED BY <1>3, <1>4, <1>5, <1>6, <1>10, <1>11, <1>12, <1>13, <1>14, <1>15, <1>16, <1>17, <1>18,
            Zenon DEF Next

\* A handoff that waited for its target is retried when the target is free: where no
\* operator works in rooms and every turn ends with turn.completed, whose subscriber
\* drains threadsWaitingOn, and no card idles an operator that others wait for (there are no
\* cards, or peers do not delegate themselves). Each of the three is needed: a room's turn, a
\* failed dispatch and an answered card free an operator without that drain.
THEOREM BusyIsRetried ==
  ASSUME ~Rooms, ~SilentEnds, PeersDoNotAsk
  PROVE  Spec => []RequeuedIsRetried
<1>1. Init => Heard /\ Retried
  <2> SUFFICES ASSUME Init PROVE Heard /\ Retried
    OBVIOUS
  <2>1. Heard
    BY DelegationsAssumption DEF Init, Heard, NoDrain
  <2>2. \A h \in Handoffs : ~(attempts[h] > 0)
    BY DEF Init
  <2>. QED BY <2>1, <2>2 DEF Retried
<1>2. IInv /\ Heard /\ Retried /\ [Next]_vars => Heard' /\ Retried'
  BY HeardStep, RetriedStep
<1>3. IInv /\ Retried => RequeuedIsRetried
  <2>1. ASSUME Retried, NEW h \in queued, h \in Handoffs, Pending(h), attempts[h] > 0
        PROVE  Busy(To[h]) \/ Draining(Source[h])
    BY <2>1 DEF Retried, Remembered
  <2>. QED BY <2>1 DEF RequeuedIsRetried, IInv, TypeOK
<1>. QED BY <1>1, <1>2, <1>3, QueuesAgree, PTL DEF Spec
=============================================================================

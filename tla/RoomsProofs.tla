------------------------------ MODULE RoomsProofs ------------------------------
(* For any members, messages and resumes: where nothing went amiss, a room has one *)
(* speaker at a time, and its deadline counts the cards that are open; and no      *)
(* member speaks twice for one message.                                            *)
EXTENDS Rooms, TLAPS

Stages == {"new", "setup", "running", "stopping", "over"}
Places == {"none", "next", "apps", "await"}
Todos == Seq([bot : Bots, hop : 0..MAX_GROUP_HOPS])
Operations == [state : {"new", "queued", "running", "over"}, todo : Todos,
               spoken : SUBSET Bots, cancelled : BOOLEAN]
Invocations == [at : Places, bot : Bots \cup {None}, hop : 0..MAX_GROUP_HOPS, turn : {0} \cup Ids]
Turns == [bot : Bots \cup {None}, of : Ops \cup {None}, stage : Stages]

\* A turn that has the room: its setup, its process, and the process while it stops.
Claims(n) == turn[n].stage \in {"setup", "running", "stopping"}

\* It has all of it: the member, the room's name for it, and the speaker's place.
Held == \A n \in Ids : Claims(n) =>
          holder[turn[n].bot] = n /\ owner = turn[n].bot /\ speaker = owner

\* The member of the chain's operation that is asked, and its turn.
Chained ==
  /\ inv.at # "none" => queue # <<>>
  /\ room = "gone" => queue = <<>> /\ owner = None
Invoked ==
  /\ inv.at \in {"apps", "await"} => inv.bot \in Bots
  /\ inv.at = "await" => inv.turn \in Ids /\ turn[inv.turn].bot = inv.bot /\ turn[inv.turn].stage # "new"

\* Timers know turns that were dispatched.
Timed ==
  /\ \A n \in Ids : turn[n].stage # "new" => turn[n].bot \in Bots
  /\ watch.turn # 0 => turn[watch.turn].stage \notin {"new", "setup"}
  /\ \A n \in grace : turn[n].stage \notin {"new", "setup"}

\* The deadline counts the cards that are open, and cards have a process.
Carded ==
  /\ Awaited => deadline.cards = open
  /\ open > 0 => \E n \in Ids : Live(n)

Inv == TypeOK /\ Chained /\ Invoked /\ Timed /\ (amiss = {} => Held /\ Carded)
-----------------------------------------------------------------------------
(* Updates of records.                                                      *)

LEMMA IdFacts == \A n \in Ids : n \in Nat /\ n # 0 /\ n # None
  BY RoomsAssumption, SMT DEF Ids

LEMMA StageFacts ==
  ASSUME TypeOK, NEW n \in Ids, NEW s \in Stages, Stage(n, s)
  PROVE  /\ turn' \in [Ids -> Turns]
         /\ \A m \in Ids : /\ turn'[m].bot = turn[m].bot /\ turn'[m].of = turn[m].of
                           /\ turn'[m].stage = IF m = n THEN s ELSE turn[m].stage
<1>1. turn \in [Ids -> Turns]
  BY DEF TypeOK, Turns, Stages
<1>2. PICK t : t = [turn[n] EXCEPT !.stage = s]
  OBVIOUS
<1>3. t = [bot |-> turn[n].bot, of |-> turn[n].of, stage |-> s] /\ t \in Turns
  BY <1>1, <1>2, SMT DEF Turns
<1>4. turn' = [turn EXCEPT ![n] = t]
  BY <1>2 DEF Stage
<1> QED BY <1>1, <1>3, <1>4, SMT DEF Turns

LEMMA ToldFacts ==
  ASSUME TypeOK, Told
  PROVE  /\ turn' \in [Ids -> Turns]
         /\ \A m \in Ids : /\ turn'[m].bot = turn[m].bot /\ turn'[m].of = turn[m].of
                           /\ turn'[m].stage = IF turn[m].stage = "running" THEN "stopping" ELSE turn[m].stage
<1>1. turn \in [Ids -> Turns]
  BY DEF TypeOK, Turns, Stages
<1>2. \A m \in Ids : turn'[m] = IF turn[m].stage = "running" THEN [turn[m] EXCEPT !.stage = "stopping"]
                                                             ELSE turn[m]
  BY DEF Told
<1>3. \A m \in Ids : [turn[m] EXCEPT !.stage = "stopping"] = [bot |-> turn[m].bot, of |-> turn[m].of, stage |-> "stopping"]
  BY <1>1, SMT DEF Turns
<1>4. ASSUME NEW m \in Ids PROVE turn'[m] \in Turns
  <2>1. [bot |-> turn[m].bot, of |-> turn[m].of, stage |-> "stopping"] \in Turns /\ turn[m] \in Turns
    BY <1>1, SMT DEF Turns, Stages
  <2> QED BY <1>2, <1>3, <2>1
<1>5. turn' \in [Ids -> Turns]
  BY <1>4 DEF Told
<1> QED BY <1>2, <1>3, <1>5

LEMMA PlaceFacts ==
  ASSUME NEW v \in Invocations, NEW p \in Places, NEW b, NEW h
  PROVE  /\ [v EXCEPT !.at = p] = [at |-> p, bot |-> v.bot, hop |-> v.hop, turn |-> v.turn]
         /\ [v EXCEPT !.at = p, !.turn = h] = [at |-> p, bot |-> v.bot, hop |-> v.hop, turn |-> h]
         /\ [v EXCEPT !.at = p, !.bot = b, !.hop = h] = [at |-> p, bot |-> b, hop |-> h, turn |-> v.turn]
<1>1. PICK u : u = [v EXCEPT !.at = p]
  OBVIOUS
<1>2. u = [at |-> p, bot |-> v.bot, hop |-> v.hop, turn |-> v.turn]
  BY <1>1, SMT DEF Invocations
<1>3. [v EXCEPT !.at = p, !.turn = h] = [u EXCEPT !.turn = h]
  BY <1>1
<1>4. PICK w : w = [u EXCEPT !.bot = b]
  OBVIOUS
<1>5. w = [at |-> p, bot |-> b, hop |-> v.hop, turn |-> v.turn]
  BY <1>2, <1>4, SMT
<1>6. [v EXCEPT !.at = p, !.bot = b, !.hop = h] = [w EXCEPT !.hop = h]
  BY <1>1, <1>4
<1>7. [u EXCEPT !.turn = h] = [at |-> p, bot |-> v.bot, hop |-> v.hop, turn |-> h]
  BY <1>2, SMT
<1>8. [w EXCEPT !.hop = h] = [at |-> p, bot |-> b, hop |-> h, turn |-> v.turn]
  BY <1>5, SMT
<1> QED BY <1>1, <1>2, <1>3, <1>6, <1>7, <1>8

LEMMA OverFacts ==
  ASSUME TypeOK, queue # <<>>, NEW s \in {"new", "over"}, Over(s)
  PROVE  op' \in [Ops -> Operations] /\ queue' \in Seq(Ops) /\ inv' = NoInv /\ inv' \in Invocations
<1>1. op \in [Ops -> Operations] /\ queue \in Seq(Ops)
  BY DEF TypeOK, Operations, Todos
<1>2. Current \in Ops /\ Tail(queue) \in Seq(Ops)
  BY <1>1, SMT DEF Current
<1>3. [state |-> s, todo |-> <<>>, spoken |-> {}, cancelled |-> FALSE] \in Operations
  BY SMT DEF Operations, Todos
<1>4. NoInv \in Invocations
  BY SMT DEF NoInv, Invocations, Places, MAX_GROUP_HOPS
<1> QED BY <1>1, <1>2, <1>3, <1>4, SMT DEF Over
-----------------------------------------------------------------------------
(* The invariant.                                                           *)

LEMMA InvInit == Init => Inv
<1> SUFFICES ASSUME Init PROVE Inv
  OBVIOUS
<1>1. op \in [Ops -> Operations]
  <2>1. [state |-> "new", todo |-> <<>>, spoken |-> {}, cancelled |-> FALSE] \in Operations
    BY SMT DEF Operations, Todos
  <2> QED BY <2>1 DEF Init
<1>2. turn \in [Ids -> Turns] /\ \A n \in Ids : turn[n].stage = "new"
  BY SMT DEF Init, Turns, Stages
<1>3. inv = NoInv /\ inv \in Invocations /\ inv.at = "none"
  BY SMT DEF Init, NoInv, Invocations, Places, MAX_GROUP_HOPS
<1>4. TypeOK
  <2>1. /\ room \in {"here", "gone"} /\ queue \in Seq(Ops) /\ holder \in [Bots -> {None, 0} \cup Ids]
        /\ owner = None /\ speaker = None /\ grace \subseteq Ids /\ amiss = {}
        /\ watch \in [turn : {0} \cup Ids, parked : BOOLEAN]
    BY SMT DEF Init, Unwatched
  <2>2. deadline \in [cards : 0..MaxCards, spent : BOOLEAN] /\ open \in 0..MaxCards
    BY RoomsAssumption, SMT DEF Init, FullDeadline
  <2> QED BY <1>1, <1>2, <1>3, <2>1, <2>2
          DEF TypeOK, Operations, Todos, Invocations, Places, Turns, Stages
<1>5. Chained /\ Invoked /\ Timed
  BY <1>2, <1>3, SMT DEF Init, Chained, Invoked, Timed, Unwatched
<1>6. Held /\ Carded
  BY <1>2, <1>3, SMT DEF Init, Held, Claims, Carded, Awaited
<1> QED BY <1>4, <1>5, <1>6 DEF Inv

\* Where nothing went amiss, one turn at most has the room.
LEMMA OneClaim ==
  ASSUME Held, NEW m \in Ids, NEW n \in Ids, Claims(m), Claims(n)
  PROVE  m = n
  BY DEF Held

\* Turns that nobody claims the room for, and claims that nothing touches.
LEMMA HeldKept ==
  ASSUME Held, UNCHANGED claims,
         \A n \in Ids : turn'[n].bot = turn[n].bot /\ (Claims(n)' => Claims(n))
  PROVE  Held'
<1> SUFFICES ASSUME NEW n \in Ids, Claims(n)'
             PROVE  holder'[turn'[n].bot] = n /\ owner' = turn'[n].bot /\ speaker' = owner'
  BY DEF Held
<1> QED BY DEF Held, claims

\* Steps that let the turns and their claims alone.
LEMMA InvKept ==
  ASSUME Inv, TypeOK', Chained', UNCHANGED <<turn, claims>>,
         amiss' = {} => amiss = {},
         inv' = inv \/ inv'.at \in {"none", "next"} \/ (inv'.at = "apps" /\ inv'.bot \in Bots),
         watch'.turn \in {0, watch.turn}, grace' \subseteq grace,
         open' <= open, amiss' = {} /\ inv'.at = "await" => deadline'.cards = open'
  PROVE  Inv'
<1>1. Invoked'
  <2>1. CASE inv' = inv
    BY <2>1 DEF Inv, Invoked
  <2>2. CASE inv'.at # "await" /\ (inv'.at = "apps" => inv'.bot \in Bots)
    BY <2>2 DEF Invoked
  <2> QED BY <2>1, <2>2
<1>2. Timed'
  BY DEF Inv, Timed
<1>3. ASSUME amiss' = {} PROVE Held'
  BY <1>3, HeldKept DEF Inv, Claims
<1>4. ASSUME amiss' = {} PROVE Carded'
  <2>1. open' > 0 => open > 0
    BY SMT DEF Inv, TypeOK
  <2>2. open > 0 => \E n \in Ids : Live(n)
    BY <1>4 DEF Inv, Carded
  <2>3. open' > 0 => \E n \in Ids : turn'[n].stage \in {"running", "stopping"}
    BY <2>1, <2>2 DEF Live
  <2> QED BY <1>4, <2>3 DEF Carded, Awaited, Live
<1> QED BY <1>1, <1>2, <1>3, <1>4 DEF Inv

LEMMA TodoFacts ==
  ASSUME NEW h \in 0..MAX_GROUP_HOPS
  PROVE  Asked(h) \subseteq Todos /\ <<>> \in Asked(h)
<1> DEFINE A == [bot : Bots, hop : 0..MAX_GROUP_HOPS]
<1>1. \A b \in Bots : [bot |-> b, hop |-> h] \in A
  OBVIOUS
<1> HIDE DEF A
<1>2. \A x, y \in A : <<>> \in Seq(A) /\ <<x>> \in Seq(A) /\ <<x, y>> \in Seq(A)
  BY SMT
<1>3. \A p \in Bots \X Bots : p[1] \in Bots /\ p[2] \in Bots
  BY SMT
<1>4. <<>> \in Seq(A)
  BY SMT
<1>5. \A b \in Bots : <<[bot |-> b, hop |-> h]>> \in Seq(A)
  BY <1>1, <1>2
<1>6. \A p \in Bots \X Bots : <<[bot |-> p[1], hop |-> h], [bot |-> p[2], hop |-> h]>> \in Seq(A)
  BY <1>1, <1>2, <1>3
<1>7. Todos = Seq(A)
  BY DEF Todos, A
<1> QED BY <1>4, <1>5, <1>6, <1>7 DEF Asked

LEMMA InvEnqueue ==
  ASSUME Inv, NEW o \in Ops, NEW todo \in Todos, Enqueue(o, todo)
  PROVE  Inv'
<1>1. [state |-> "queued", todo |-> todo, spoken |-> {}, cancelled |-> FALSE] \in Operations
  BY SMT DEF Operations
<1>2. op' \in [Ops -> Operations]
  <2>1. op \in [Ops -> Operations]
    BY DEF Inv, TypeOK, Operations, Todos
  <2> QED BY <1>1, <2>1, SMT DEF Enqueue
<1>3. queue' \in Seq(Ops) /\ queue' # <<>>
  BY SMT DEF Inv, TypeOK, Enqueue
<1>4. /\ UNCHANGED <<room, inv, turn, claims, timers, amiss>> /\ room = "here" /\ amiss = {}
  BY DEF Enqueue, Quiet
<1>5. TypeOK'
  BY <1>2, <1>3, <1>4 DEF Inv, TypeOK, Operations, Todos, claims, timers
<1>6. Chained'
  BY <1>3, <1>4, "here" # "gone" DEF Chained
<1>7. open' <= open /\ (amiss' = {} /\ inv'.at = "await" => deadline'.cards = open')
  BY <1>4, SMT DEF Inv, TypeOK, Carded, Awaited, timers
<1> QED BY <1>4, <1>5, <1>6, <1>7, InvKept DEF timers

LEMMA InvSend == ASSUME Inv, NEW o \in Messages, Send(o) PROVE Inv'
<1>1. PICK todo \in Asked(0) : Enqueue(o, todo)
  BY DEF Send
<1>2. 0 \in 0..MAX_GROUP_HOPS
  BY SMT DEF MAX_GROUP_HOPS
<1> QED BY <1>1, <1>2, TodoFacts, InvEnqueue DEF Ops

LEMMA InvResume == ASSUME Inv, NEW o \in Resumes, NEW b \in Bots, Resume(o, b) PROVE Inv'
<1>1. <<[bot |-> b, hop |-> 0]>> \in Todos
  BY SMT DEF Todos, MAX_GROUP_HOPS
<1> QED BY <1>1, InvEnqueue DEF Resume, Ops

LEMMA OperationFacts ==
  ASSUME NEW e \in Operations, NEW T \in Todos, NEW S \in SUBSET Bots
  PROVE  /\ [e EXCEPT !.todo = T] \in Operations
         /\ [e EXCEPT !.spoken = S] \in Operations
         /\ [e EXCEPT !.cancelled = TRUE] \in Operations
<1> DEFINE Q == {"new", "queued", "running", "over"}
           W == SUBSET Bots
<1>1. PICK u : u = Todos
  OBVIOUS
<1>2. PICK w : w = W
  OBVIOUS
<1>3. PICK c : c = BOOLEAN
  OBVIOUS
<1>4. PICK t : t = TRUE
  OBVIOUS
<1>5. Operations = [state : Q, todo : u, spoken : w, cancelled : c]
  BY <1>1, <1>2, <1>3 DEF Operations
<1>6. T \in u /\ S \in w /\ t \in c
  BY <1>1, <1>2, <1>3, <1>4
<1> HIDE DEF Q, W
<1>7. e \in [state : Q, todo : u, spoken : w, cancelled : c]
  BY <1>5
<1>8. [e EXCEPT !.todo = T] \in [state : Q, todo : u, spoken : w, cancelled : c]
  BY <1>6, <1>7, SMT
<1>9. [e EXCEPT !.spoken = S] \in [state : Q, todo : u, spoken : w, cancelled : c]
  BY <1>6, <1>7, SMT
<1>10. [e EXCEPT !.cancelled = t] \in [state : Q, todo : u, spoken : w, cancelled : c]
  BY <1>6, <1>7, SMT
<1> QED BY <1>4, <1>5, <1>8, <1>9, <1>10

LEMMA NextFacts ==
  LET next == [NoInv EXCEPT !.at = "next"] IN
  next \in Invocations /\ next.at = "next" /\ next = [at |-> "next", bot |-> None, hop |-> 0, turn |-> 0]
<1>1. NoInv \in Invocations /\ "next" \in Places
  BY SMT DEF NoInv, Invocations, Places, MAX_GROUP_HOPS
<1>2. [NoInv EXCEPT !.at = "next"] = [at |-> "next", bot |-> None, hop |-> 0, turn |-> 0]
  BY SMT DEF NoInv
<1>3. [at |-> "next", bot |-> None, hop |-> 0, turn |-> 0] \in Invocations
  BY SMT DEF Invocations, Places, MAX_GROUP_HOPS
<1> QED BY <1>2, <1>3

\* Steps of the chain of operations.
LEMMA InvChain ==
  ASSUME Inv, queue # <<>>, UNCHANGED <<room, turn, claims, timers, amiss>>,
         op' \in [Ops -> Operations], queue' \in Seq(Ops), inv' \in Invocations,
         inv'.at \in {"none", "next"} \/ (inv'.at = "apps" /\ inv'.bot \in Bots),
         inv'.at # "none" => queue' # <<>>
  PROVE  Inv'
<1>1. TypeOK'
  BY DEF Inv, TypeOK, Operations, Todos, Invocations, Places, claims, timers
<1>2. Chained'
  BY DEF Inv, Chained
<1>3. open' <= open /\ inv'.at # "await"
  BY SMT DEF Inv, TypeOK, timers
<1> QED BY <1>1, <1>2, <1>3, InvKept DEF timers

LEMMA InvBeginOp == ASSUME Inv, BeginOp PROVE Inv'
<1>1. queue # <<>> /\ UNCHANGED <<room, turn, claims, timers, amiss>>
  BY DEF BeginOp
<1>2. TypeOK
  BY DEF Inv
<1>3. ASSUME NEW s \in {"new", "over"}, Over(s) PROVE Inv'
  BY <1>1, <1>2, <1>3, OverFacts, InvChain DEF NoInv
<1>4. CASE /\ op' = [op EXCEPT ![Current].state = "running"] /\ inv' = [NoInv EXCEPT !.at = "next"]
           /\ UNCHANGED queue
  <2>1. op \in [Ops -> Operations] /\ queue \in Seq(Ops)
    BY <1>2 DEF TypeOK, Operations, Todos
  <2>2. PICK o \in Ops : o = Current
    BY <1>1, <2>1, SMT DEF Current
  <2>3. op' \in [Ops -> Operations]
    BY <1>4, <2>1, <2>2, SMT DEF Operations
  <2> QED BY <1>1, <1>4, <2>1, <2>3, NextFacts, InvChain
<1> QED BY <1>3, <1>4 DEF BeginOp

LEMMA InvRespond == ASSUME Inv, Respond PROVE Inv'
<1>1. queue # <<>> /\ inv.at = "next" /\ UNCHANGED <<room, turn, claims, timers, amiss>> /\ TypeOK
  BY DEF Inv, Chained, Respond
<1>2. op \in [Ops -> Operations] /\ queue \in Seq(Ops) /\ inv \in Invocations
  BY <1>1 DEF TypeOK, Operations, Todos, Invocations, Places
<1>3. PICK o \in Ops : o = Current
  BY <1>1, <1>2, SMT DEF Current
<1>4. CASE Over("over")
  BY <1>1, <1>4, OverFacts, InvChain DEF NoInv
<1>5. CASE /\ op[o].todo # <<>>
           /\ LET todo == op[o].todo  b == todo[1].bot  asked == b \in op[o].spoken IN
              /\ op' = [op EXCEPT ![o].todo = Tail(todo), ![o].spoken = Spoken(o)]
              /\ inv' = IF asked \/ Busy(b) THEN inv
                        ELSE [inv EXCEPT !.at = "apps", !.bot = b, !.hop = todo[1].hop]
           /\ UNCHANGED queue
  <2>1. PICK todo \in Todos : todo = op[o].todo /\ todo # <<>>
    BY <1>2, <1>5, SMT DEF Operations
  <2>2. todo[1] \in [bot : Bots, hop : 0..MAX_GROUP_HOPS] /\ Tail(todo) \in Todos
    <3> DEFINE A == [bot : Bots, hop : 0..MAX_GROUP_HOPS]
    <3>1. todo \in Seq(A)
      BY DEF Todos
    <3> HIDE DEF A
    <3>2. todo[1] \in A /\ Tail(todo) \in Seq(A)
      BY <2>1, <3>1, SMT
    <3> QED BY <3>2 DEF Todos, A
  <2>3. PICK b \in Bots, h \in 0..MAX_GROUP_HOPS : b = todo[1].bot /\ h = todo[1].hop
    BY <2>2, SMT
  <2>4. op' \in [Ops -> Operations]
    <3>1. PICK r, T : T = Tail(todo) /\ r = [op[o] EXCEPT !.todo = T]
      OBVIOUS
    <3>2. r \in Operations
      <4>1. T \in Todos /\ op[o] \in Operations
        BY <1>2, <2>2, <3>1
      <4> QED BY <3>1, <4>1, OperationFacts
    <3>3. PICK p : p = [op EXCEPT ![o] = r]
      OBVIOUS
    <3>4. p \in [Ops -> Operations] /\ p[o] = r
      BY <1>2, <3>2, <3>3, SMT
    <3>5. PICK S : S = Spoken(o)
      OBVIOUS
    <3>6. PICK q : q = [r EXCEPT !.spoken = S]
      OBVIOUS
    <3>7. q \in Operations
      <4>1. op[o].spoken \in SUBSET Bots
        BY <1>2, SMT DEF Operations
      <4>2. S \in SUBSET Bots /\ <<>> \in Todos
        BY <2>1, <2>3, <3>5, <4>1 DEF Todos, Spoken
      <4> QED BY <2>1, <3>2, <3>6, <4>2, OperationFacts
    <3>8. op' = [p EXCEPT ![o] = q]
      BY <1>5, <2>1, <2>3, <3>1, <3>3, <3>4, <3>5, <3>6
    <3> QED BY <3>4, <3>7, <3>8, SMT
  <2>5. /\ inv' \in Invocations
        /\ inv'.at \in {"none", "next"} \/ (inv'.at = "apps" /\ inv'.bot \in Bots)
    <3>1. CASE inv' = inv
      BY <1>1, <1>2, <3>1
    <3>2. CASE inv' = [inv EXCEPT !.at = "apps", !.bot = b, !.hop = h]
      <4>1. inv' = [at |-> "apps", bot |-> b, hop |-> h, turn |-> inv.turn]
        <5>1. "apps" \in Places
          BY DEF Places
        <5> QED BY <1>2, <3>2, <5>1, PlaceFacts
      <4> QED BY <1>2, <4>1, SMT DEF Invocations, Places
    <3> QED BY <1>5, <2>1, <2>3, <3>1, <3>2
  <2> QED BY <1>1, <1>2, <1>5, <2>4, <2>5, InvChain
<1> QED BY <1>3, <1>4, <1>5 DEF Respond

LEMMA InvSkipped == ASSUME Inv, Skipped PROVE Inv'
<1>1. inv.at = "apps" /\ UNCHANGED <<op, queue, room, turn, claims, timers, amiss>>
      /\ inv' = [NoInv EXCEPT !.at = "next"]
  BY DEF Skipped, Return, chain
<1>2. queue # <<>> /\ queue \in Seq(Ops) /\ op \in [Ops -> Operations]
  BY <1>1 DEF Inv, Chained, TypeOK, Operations, Todos
<1> QED BY <1>1, <1>2, NextFacts, InvChain

\* Deadlines.
Deadlines == [cards : 0..MaxCards, spent : BOOLEAN]

LEMMA DeadlineFacts ==
  ASSUME NEW d \in Deadlines, NEW c \in 0..MaxCards
  PROVE  /\ [d EXCEPT !.cards = c] \in Deadlines /\ [d EXCEPT !.cards = c].cards = c
         /\ [d EXCEPT !.spent = TRUE] \in Deadlines /\ [d EXCEPT !.spent = TRUE].cards = d.cards
<1>1. PICK k : k = BOOLEAN
  OBVIOUS
<1>2. PICK t : t = TRUE
  OBVIOUS
<1>3. Deadlines = [cards : 0..MaxCards, spent : k] /\ t \in k /\ d \in Deadlines
  BY <1>1, <1>2 DEF Deadlines
<1>4. d \in [cards : 0..MaxCards, spent : k]
  BY <1>3
<1>5. [d EXCEPT !.cards = c] \in [cards : 0..MaxCards, spent : k] /\ [d EXCEPT !.cards = c].cards = c
  BY <1>4, SMT
<1>6. [d EXCEPT !.spent = t] \in [cards : 0..MaxCards, spent : k] /\ [d EXCEPT !.spent = t].cards = d.cards
  BY <1>3, <1>4, SMT
<1> QED BY <1>2, <1>3, <1>5, <1>6

LEMMA InvTimePasses == ASSUME Inv, TimePasses PROVE Inv'
<1>1. /\ deadline' = [deadline EXCEPT !.spent = TRUE]
      /\ UNCHANGED <<room, op, queue, inv, turn, claims, watch, grace, open, amiss>>
  BY DEF TimePasses, chain
<1>2. deadline' \in Deadlines /\ deadline'.cards = deadline.cards
  <2>1. deadline \in Deadlines
    BY DEF Inv, TypeOK, Deadlines
  <2>2. 0 \in 0..MaxCards
    BY RoomsAssumption, SMT
  <2> QED BY <1>1, <2>1, <2>2, DeadlineFacts
<1>3. TypeOK'
  BY <1>1, <1>2 DEF Inv, TypeOK, claims, Deadlines
<1>4. Chained' /\ (amiss' = {} /\ inv'.at = "await" => deadline'.cards = open')
  BY <1>1, <1>2 DEF Inv, Chained, claims, Carded, Awaited
<1>5. open' <= open
  BY <1>1, SMT DEF Inv, TypeOK
<1> QED BY <1>1, <1>3, <1>4, <1>5, InvKept

LEMMA ResolvedFacts ==
  ASSUME TypeOK, Resolved
  PROVE  /\ watch' \in [turn : {0} \cup Ids, parked : BOOLEAN] /\ watch'.turn = watch.turn
         /\ deadline' \in Deadlines
         /\ Awaited => deadline'.cards = Resumed
<1>1. deadline \in Deadlines /\ watch \in [turn : {0} \cup Ids, parked : BOOLEAN]
  BY DEF TypeOK, Deadlines
<1>2. watch' \in [turn : {0} \cup Ids, parked : BOOLEAN] /\ watch'.turn = watch.turn
  <2>1. PICK k : k = BOOLEAN
    OBVIOUS
  <2>2. PICK t : t = FALSE
    OBVIOUS
  <2>3. watch \in [turn : {0} \cup Ids, parked : k] /\ t \in k
    BY <1>1, <2>1, <2>2
  <2>4. [watch EXCEPT !.parked = t] \in [turn : {0} \cup Ids, parked : k]
        /\ [watch EXCEPT !.parked = t].turn = watch.turn
    BY <2>3, SMT
  <2> QED BY <2>1, <2>2, <2>4 DEF Resolved
<1>3. Resumed \in 0..MaxCards
  BY <1>1, RoomsAssumption, SMT DEF Resumed, Deadlines
<1>4. CASE Awaited
  BY <1>1, <1>2, <1>3, <1>4, DeadlineFacts DEF Resolved
<1>5. CASE ~Awaited
  BY <1>1, <1>2, <1>5 DEF Resolved
<1> QED BY <1>4, <1>5

LEMMA InvAnswer == ASSUME Inv, Answer PROVE Inv'
<1>1. /\ open > 0 /\ open' = open - 1 /\ Resolved /\ TypeOK /\ amiss = {}
      /\ UNCHANGED <<room, op, queue, inv, turn, claims, grace, amiss>>
  BY DEF Answer, chain, Inv, Quiet
<1>2. open' \in 0..MaxCards /\ open' <= open
  BY <1>1, RoomsAssumption, SMT DEF TypeOK
<1>3. TypeOK'
  BY <1>1, <1>2, ResolvedFacts DEF TypeOK, claims, Deadlines
<1>4. Chained'
  BY <1>1 DEF Inv, Chained, claims
<1>5. inv'.at = "await" => deadline'.cards = open'
  <2>1. Awaited => deadline.cards = open
    BY <1>1 DEF Inv, Carded
  <2>2. Awaited => deadline'.cards = Resumed
    BY <1>1, ResolvedFacts
  <2>3. deadline.cards = open => Resumed = open'
    BY <1>1, SMT DEF Resumed, TypeOK
  <2> QED BY <1>1, <2>1, <2>2, <2>3 DEF Awaited
<1> QED BY <1>1, <1>2, <1>3, <1>4, <1>5, ResolvedFacts, InvKept

LEMMA InvStaleAnswer == ASSUME Inv, StaleAnswer PROVE Inv'
<1>1. /\ Resolved /\ TypeOK /\ amiss = {}
      /\ amiss' = (IF open = 0 THEN amiss ELSE amiss \cup {"stale"})
      /\ UNCHANGED <<room, op, queue, inv, turn, claims, grace, open>>
  BY DEF StaleAnswer, chain, Inv, Quiet
<1>2. amiss' \subseteq {"overtaken", "late", "grace", "stale"} /\ (amiss' = {} => open = 0)
  BY <1>1
<1>3. TypeOK'
  BY <1>1, <1>2, ResolvedFacts DEF TypeOK, claims, Deadlines
<1>4. Chained' /\ open' <= open
  BY <1>1, SMT DEF Inv, Chained, claims, TypeOK
<1>5. amiss' = {} /\ inv'.at = "await" => deadline'.cards = open'
  <2>1. Awaited => deadline.cards = open
    BY <1>1 DEF Inv, Carded
  <2>2. Awaited => deadline'.cards = Resumed
    BY <1>1, ResolvedFacts
  <2> QED BY <1>1, <1>2, <2>1, <2>2 DEF Awaited, Resumed
<1> QED BY <1>1, <1>3, <1>4, <1>5, ResolvedFacts, InvKept

LEMMA InvDeleteRoom == ASSUME Inv, DeleteRoom PROVE Inv'
<1>1. /\ room' = "gone" /\ owner = None /\ queue = <<>>
      /\ UNCHANGED <<op, queue, inv, turn, claims, timers, amiss>>
  BY DEF DeleteRoom, chain, Working
<1>2. TypeOK' /\ Chained'
  BY <1>1 DEF Inv, TypeOK, Chained, claims, timers
<1>3. open' <= open /\ (amiss' = {} /\ inv'.at = "await" => deadline'.cards = open')
  BY <1>1, SMT DEF Inv, TypeOK, Carded, Awaited, timers
<1> QED BY <1>1, <1>2, <1>3, InvKept DEF timers

LEMMA InvStutter == ASSUME Inv, UNCHANGED vars PROVE Inv'
<1>1. UNCHANGED <<room, op, queue, inv, turn, holder, owner, speaker, watch, grace, deadline, open, amiss>>
  BY DEF vars
<1>2. TypeOK' /\ Chained'
  BY <1>1 DEF Inv, TypeOK, Chained
<1>3. open' <= open /\ (amiss' = {} /\ inv'.at = "await" => deadline'.cards = open')
  BY <1>1, SMT DEF Inv, TypeOK, Carded, Awaited
<1> QED BY <1>1, <1>2, <1>3, InvKept DEF claims

\* Steps of turns that are under way, or of their claims.
LEMMA InvMoved ==
  ASSUME Inv, TypeOK', Chained',
         \A n \in Ids : /\ turn'[n].bot = turn[n].bot
                        /\ (turn'[n].stage = "new" <=> turn[n].stage = "new")
                        /\ (turn[n].stage \notin {"new", "setup"} => turn'[n].stage \notin {"new", "setup"}),
         inv' = inv \/ inv'.at \in {"none", "next"},
         watch'.turn # 0 => turn'[watch'.turn].stage \notin {"new", "setup"},
         \A n \in grace' : n \in grace \/ turn'[n].stage \notin {"new", "setup"},
         amiss' = {} => Held' /\ Carded'
  PROVE  Inv'
<1>1. Invoked'
  <2>1. CASE inv' = inv
    BY <2>1 DEF Inv, Invoked
  <2>2. CASE inv'.at \in {"none", "next"}
    BY <2>2 DEF Invoked
  <2> QED BY <2>1, <2>2
<1>2. Timed'
  <2>1. grace \subseteq Ids
    BY DEF Inv, TypeOK
  <2>2. \A n \in Ids : turn'[n].stage # "new" => turn'[n].bot \in Bots
    BY DEF Inv, Timed
  <2>3. \A n \in grace' : turn'[n].stage \notin {"new", "setup"}
    BY <2>1 DEF Inv, Timed
  <2> QED BY <2>2, <2>3 DEF Timed
<1> QED BY <1>1, <1>2 DEF Inv

LEMMA InvDispatch == ASSUME Inv, NEW n \in Ids, Dispatch(n) PROVE Inv'
<1>1. /\ turn[n].stage = "setup" /\ Stage(n, "running") /\ TypeOK /\ amiss = {}
      /\ watch' = [turn |-> n, parked |-> FALSE]
      /\ UNCHANGED <<room, op, queue, inv, claims, grace, deadline, open, amiss>>
  BY DEF Dispatch, Quiet, chain, Inv
<1>2. /\ turn' \in [Ids -> Turns]
      /\ \A m \in Ids : /\ turn'[m].bot = turn[m].bot
                        /\ turn'[m].stage = IF m = n THEN "running" ELSE turn[m].stage
  <2>1. "running" \in Stages
    BY DEF Stages
  <2> QED BY <1>1, <2>1, StageFacts
<1>3. TypeOK'
  <2>1. watch' \in [turn : {0} \cup Ids, parked : BOOLEAN]
    BY <1>1
  <2> QED BY <1>1, <1>2, <2>1 DEF TypeOK, Turns, Stages, claims
<1>4. Chained'
  BY <1>1 DEF Inv, Chained, claims
<1>5. Held'
  <2>1. \A m \in Ids : turn'[m].bot = turn[m].bot /\ (Claims(m)' => Claims(m))
    BY <1>1, <1>2 DEF Claims
  <2> QED BY <1>1, <2>1, HeldKept DEF Inv
<1>6. Carded'
  <2>1. \A m \in Ids : Live(m) => Live(m)'
    BY <1>1, <1>2 DEF Live
  <2> QED BY <1>1, <2>1 DEF Inv, Carded, Awaited
<1>7. \A m \in Ids : /\ (turn'[m].stage = "new" <=> turn[m].stage = "new")
                     /\ (turn[m].stage \notin {"new", "setup"} => turn'[m].stage \notin {"new", "setup"})
  BY <1>1, <1>2
<1>8. watch'.turn = n /\ turn'[n].stage \notin {"new", "setup"}
  BY <1>1, <1>2
<1> QED BY <1>1, <1>2, <1>3, <1>4, <1>5, <1>6, <1>7, <1>8, InvMoved

LEMMA InvDie == ASSUME Inv, NEW n \in Ids, Die(n) PROVE Inv'
<1>1. /\ turn[n].stage = "stopping" /\ Stage(n, "over") /\ TypeOK /\ amiss = {} /\ open = 0
      /\ UNCHANGED <<room, op, queue, inv, claims, watch, grace, deadline, open, amiss>>
  BY DEF Die, Quiet, chain, timers, Inv
<1>2. /\ turn' \in [Ids -> Turns]
      /\ \A m \in Ids : /\ turn'[m].bot = turn[m].bot
                        /\ turn'[m].stage = IF m = n THEN "over" ELSE turn[m].stage
  <2>1. "over" \in Stages
    BY DEF Stages
  <2> QED BY <1>1, <2>1, StageFacts
<1>3. TypeOK'
  BY <1>1, <1>2 DEF TypeOK, Turns, Stages, claims
<1>4. Chained'
  BY <1>1 DEF Inv, Chained, claims
<1>5. Held'
  <2>1. \A m \in Ids : turn'[m].bot = turn[m].bot /\ (Claims(m)' => Claims(m))
    BY <1>1, <1>2 DEF Claims
  <2> QED BY <1>1, <2>1, HeldKept DEF Inv
<1>6. Carded'
  <2>1. ~(0 > 0)
    BY SMT
  <2> QED BY <1>1, <2>1 DEF Inv, Carded, Awaited
<1>7. \A m \in Ids : /\ (turn'[m].stage = "new" <=> turn[m].stage = "new")
                     /\ (turn[m].stage \notin {"new", "setup"} => turn'[m].stage \notin {"new", "setup"})
  BY <1>1, <1>2
<1>8. watch'.turn # 0 => watch'.turn \in Ids /\ turn'[watch'.turn].stage \notin {"new", "setup"}
  <2>1. watch.turn \in {0} \cup Ids
    BY <1>1, SMT DEF TypeOK
  <2>2. watch.turn # 0 => turn[watch.turn].stage \notin {"new", "setup"}
    BY DEF Inv, Timed
  <2> QED BY <1>1, <1>7, <2>1, <2>2
<1> QED BY <1>1, <1>2, <1>3, <1>4, <1>5, <1>6, <1>7, <1>8, InvMoved

\* A step that tells the processes to stop, and leaves the room claimed.
LEMMA InvTold ==
  ASSUME Inv, amiss = {}, Told, TypeOK', UNCHANGED <<room, claims, amiss>>,
         (inv' = inv /\ queue' = queue) \/ inv'.at = "none",
         watch'.turn \in {0, watch.turn},
         grace' = grace \/ (grace' = grace \cup {watch.turn} /\ watch.turn # 0),
         room = "gone" => queue' = <<>>,
         open' > 0 => open > 0 \/ \E n \in Ids : Live(n),
         inv'.at = "await" => deadline'.cards = open'
  PROVE  Inv'
<1>1. \A m \in Ids : /\ turn'[m].bot = turn[m].bot
                     /\ (turn'[m].stage = "new" <=> turn[m].stage = "new")
                     /\ (turn[m].stage \notin {"new", "setup"} => turn'[m].stage \notin {"new", "setup"})
                     /\ (Claims(m)' => Claims(m)) /\ (Live(m) => Live(m)')
  BY ToldFacts DEF Inv, Claims, Live
<1>2. Chained'
  BY DEF Inv, Chained, claims
<1>3. Held'
  BY <1>1, HeldKept DEF Inv
<1>4. Carded'
  BY <1>1 DEF Inv, Carded, Awaited
<1>5. watch.turn \in {0} \cup Ids /\ (watch.turn # 0 => turn[watch.turn].stage \notin {"new", "setup"})
  <2>1. watch.turn \in {0} \cup Ids
    BY SMT DEF Inv, TypeOK
  <2> QED BY <2>1 DEF Inv, Timed
<1>6. watch'.turn # 0 => turn'[watch'.turn].stage \notin {"new", "setup"}
  BY <1>1, <1>5
<1>7. \A n \in grace' : n \in grace \/ turn'[n].stage \notin {"new", "setup"}
  BY <1>1, <1>5
<1> QED BY <1>1, <1>2, <1>3, <1>4, <1>6, <1>7, InvMoved

LEMMA InvDeadlineFires == ASSUME Inv, DeadlineFires PROVE Inv'
<1>1. /\ Told /\ Over("over") /\ TypeOK /\ amiss = {} /\ queue # <<>> /\ Awaited
      /\ UNCHANGED <<room, claims, watch, grace, deadline, open, amiss>>
  BY DEF DeadlineFires, Quiet, Armed, Awaited, Fires, timers, Inv, Chained
<1>2. op' \in [Ops -> Operations] /\ queue' \in Seq(Ops) /\ inv' = NoInv /\ inv' \in Invocations
  BY <1>1, OverFacts
<1>3. turn' \in [Ids -> Turns]
  BY <1>1, ToldFacts
<1>4. TypeOK'
  BY <1>1, <1>2, <1>3 DEF TypeOK, Operations, Todos, Invocations, Places, Turns, Stages, claims
<1>5. inv'.at = "none" /\ room # "gone"
  BY <1>1, <1>2 DEF NoInv, Inv, Chained
<1>6. /\ UNCHANGED <<room, claims, amiss>> /\ watch'.turn \in {0, watch.turn} /\ grace' = grace
      /\ (open' > 0 => open > 0 \/ \E n \in Ids : Live(n))
  BY <1>1
<1> QED BY <1>1, <1>4, <1>5, <1>6, InvTold

LEMMA InvStall == ASSUME Inv, Stall PROVE Inv'
<1>1. /\ Told /\ TypeOK /\ amiss = {} /\ watch.turn # 0 /\ watch' = Unwatched
      /\ grace' = grace \cup {watch.turn}
      /\ UNCHANGED <<room, claims, deadline, open, amiss>>
  BY DEF Stall, Quiet, Inv
<1>2. turn' \in [Ids -> Turns]
  BY <1>1, ToldFacts
<1>3. watch' \in [turn : {0} \cup Ids, parked : BOOLEAN] /\ watch'.turn = 0 /\ watch.turn \in Ids
  BY <1>1, SMT DEF Unwatched, TypeOK
<1>4. CASE Awaited
  <2>1. queue # <<>> /\ Over("over") /\ room # "gone"
    BY <1>4 DEF Inv, Chained, Awaited, Stall
  <2>2. op' \in [Ops -> Operations] /\ queue' \in Seq(Ops) /\ inv' = NoInv /\ inv' \in Invocations
    BY <1>1, <2>1, OverFacts
  <2>3. TypeOK'
    BY <1>1, <1>2, <1>3, <2>2 DEF TypeOK, Operations, Todos, Invocations, Places, Turns, Stages, claims
  <2>4. inv'.at = "none"
    BY <2>2 DEF NoInv
  <2> QED BY <1>1, <1>3, <2>1, <2>3, <2>4, InvTold
<1>5. CASE ~Awaited
  <2>1. UNCHANGED <<inv, op, queue>>
    BY <1>5 DEF Stall, chain
  <2>2. TypeOK'
    BY <1>1, <1>2, <1>3, <2>1 DEF TypeOK, Turns, Stages, claims
  <2>3. room = "gone" => queue = <<>>
    BY DEF Inv, Chained
  <2> QED BY <1>1, <1>3, <1>5, <2>1, <2>2, <2>3, InvTold DEF Awaited
<1> QED BY <1>4, <1>5

LEMMA InvInterrupt == ASSUME Inv, Interrupt PROVE Inv'
<1>1. /\ op' = [o \in Ops |-> IF op[o].state \in {"queued", "running"}
                              THEN [op[o] EXCEPT !.cancelled = TRUE] ELSE op[o]]
      /\ UNCHANGED <<room, queue, inv, claims, watch, grace, deadline, open, amiss>>
      /\ TypeOK /\ amiss = {}
  BY DEF Interrupt, Quiet, timers, Inv
<1>2. op' \in [Ops -> Operations]
  <2>1. op \in [Ops -> Operations]
    BY <1>1 DEF TypeOK, Operations, Todos
  <2>2. <<>> \in Todos /\ {} \in SUBSET Bots
    BY SMT DEF Todos
  <2>3. \A o \in Ops : op[o] \in Operations /\ [op[o] EXCEPT !.cancelled = TRUE] \in Operations
    BY <2>1, <2>2, OperationFacts
  <2> QED BY <1>1, <2>3
<1>3. room = "gone" => queue = <<>>
  BY DEF Inv, Chained
<1>4. Awaited => deadline.cards = open
  BY <1>1 DEF Inv, Carded
<1>5. CASE Told
  <2>1. turn' \in [Ids -> Turns]
    BY <1>1, <1>5, ToldFacts
  <2>2. TypeOK'
    BY <1>1, <1>2, <2>1 DEF TypeOK, Operations, Todos, Turns, Stages, claims
  <2>3. /\ UNCHANGED <<room, claims, amiss>> /\ watch'.turn \in {0, watch.turn} /\ grace' = grace
        /\ inv' = inv /\ queue' = queue /\ (open' > 0 => open > 0 \/ \E n \in Ids : Live(n))
        /\ (room = "gone" => queue' = <<>>) /\ (inv'.at = "await" => deadline'.cards = open')
    BY <1>1, <1>3, <1>4 DEF Awaited
  <2> QED BY <1>1, <1>5, <2>2, <2>3, InvTold
<1>6. CASE UNCHANGED turn
  <2>1. TypeOK'
    BY <1>1, <1>2, <1>6 DEF TypeOK, Operations, Todos, claims
  <2>2. Chained' /\ open' <= open
    BY <1>1, SMT DEF Inv, Chained, claims, TypeOK
  <2> QED BY <1>1, <1>4, <1>6, <2>1, <2>2, InvKept DEF Awaited
<1> QED BY <1>5, <1>6 DEF Interrupt

LEMMA InvCard == ASSUME Inv, NEW n \in Ids, Card(n) PROVE Inv'
<1>1. /\ turn[n].stage = "running" /\ open < MaxCards /\ open' = open + 1 /\ TypeOK /\ amiss = {}
      /\ watch' = [watch EXCEPT !.parked = watch.turn # 0]
      /\ UNCHANGED <<room, grace, amiss>>
  BY DEF Card, Quiet, Inv
<1>2. watch' \in [turn : {0} \cup Ids, parked : BOOLEAN] /\ watch'.turn = watch.turn
  <2>1. PICK k : k = BOOLEAN
    OBVIOUS
  <2>2. PICK t : t = (watch.turn # 0)
    OBVIOUS
  <2>3. t \in k
    BY <2>1, <2>2
  <2>4. watch \in [turn : {0} \cup Ids, parked : k]
    BY <1>1, <2>1 DEF TypeOK
  <2>5. [watch EXCEPT !.parked = t] \in [turn : {0} \cup Ids, parked : k]
        /\ [watch EXCEPT !.parked = t].turn = watch.turn
    BY <2>3, <2>4, SMT
  <2> QED BY <1>1, <2>1, <2>2, <2>5
<1>3. open' \in 0..MaxCards
  BY <1>1, RoomsAssumption, SMT DEF TypeOK
<1>4. Live(n)
  BY <1>1 DEF Live
<1>5. CASE Armed /\ deadline.spent
  <2>1. Told /\ Over("over") /\ UNCHANGED <<claims, deadline>> /\ Awaited
    BY <1>5 DEF Card, Fires, Armed
  <2>2. queue # <<>> /\ room # "gone"
    BY <2>1 DEF Inv, Chained, Awaited
  <2>3. op' \in [Ops -> Operations] /\ queue' \in Seq(Ops) /\ inv' = NoInv /\ inv' \in Invocations
    BY <1>1, <2>1, <2>2, OverFacts
  <2>4. turn' \in [Ids -> Turns]
    BY <1>1, <2>1, ToldFacts
  <2>5. TypeOK'
    BY <1>1, <1>2, <1>3, <2>1, <2>3, <2>4
       DEF TypeOK, Operations, Todos, Invocations, Places, Turns, Stages, claims
  <2>6. inv'.at = "none"
    BY <2>3 DEF NoInv
  <2>7. /\ UNCHANGED <<room, claims, amiss>> /\ watch'.turn \in {0, watch.turn} /\ grace' = grace
        /\ (open' > 0 => open > 0 \/ \E m \in Ids : Live(m))
    BY <1>1, <1>2, <1>4, <2>1
  <2> QED BY <1>1, <2>1, <2>2, <2>5, <2>6, <2>7, InvTold
<1>6. CASE ~(Armed /\ deadline.spent)
  <2>1. /\ deadline' = IF Awaited THEN [deadline EXCEPT !.cards = @ + 1] ELSE deadline
        /\ UNCHANGED <<turn, inv, op, queue, claims>>
    BY <1>6 DEF Card, chain
  <2>2. deadline' \in Deadlines /\ (Awaited => deadline'.cards = open')
    <3>1. deadline \in Deadlines
      BY <1>1 DEF TypeOK, Deadlines
    <3>2. CASE Awaited
      <4>1. deadline.cards = open
        BY <1>1, <3>2 DEF Inv, Carded
      <4>2. deadline' = [deadline EXCEPT !.cards = open']
        BY <1>1, <2>1, <3>2, <4>1
      <4> QED BY <1>3, <3>1, <4>2, DeadlineFacts
    <3> QED BY <2>1, <3>1, <3>2
  <2>3. TypeOK'
    BY <1>1, <1>2, <1>3, <2>1, <2>2 DEF TypeOK, claims, Deadlines
  <2>4. Chained'
    BY <1>1, <2>1 DEF Inv, Chained, claims
  <2>5. Held'
    BY <1>1, <2>1, HeldKept DEF Inv, Claims
  <2>6. Carded'
    BY <1>4, <2>1, <2>2 DEF Carded, Awaited, Live
  <2>7. watch'.turn # 0 => turn'[watch'.turn].stage \notin {"new", "setup"}
    BY <1>2, <2>1 DEF Inv, Timed
  <2> QED BY <1>1, <2>1, <2>3, <2>4, <2>5, <2>6, <2>7, InvMoved
<1> QED BY <1>5, <1>6

LEMMA InvDispatchFails == ASSUME Inv, NEW n \in Ids, DispatchFails(n) PROVE Inv'
<1>1. /\ turn[n].stage = "setup" /\ Stage(n, "over") /\ TypeOK /\ amiss = {} /\ watch' = Unwatched
      /\ UNCHANGED <<room, grace, deadline, open>>
  BY DEF DispatchFails, Quiet, Inv
<1>2. /\ turn' \in [Ids -> Turns]
      /\ \A m \in Ids : /\ turn'[m].bot = turn[m].bot
                        /\ turn'[m].stage = IF m = n THEN "over" ELSE turn[m].stage
  <2>1. "over" \in Stages
    BY DEF Stages
  <2> QED BY <1>1, <2>1, StageFacts
<1>3. \A m \in Ids : /\ (turn'[m].stage = "new" <=> turn[m].stage = "new")
                     /\ (turn[m].stage \notin {"new", "setup"} => turn'[m].stage \notin {"new", "setup"})
  BY <1>1, <1>2
<1>4. watch' \in [turn : {0} \cup Ids, parked : BOOLEAN] /\ watch'.turn = 0
  BY <1>1, SMT DEF Unwatched
<1>5. CASE Awaited /\ inv.turn = n
  <2>1. /\ Fallback(inv.bot) /\ inv' = [NoInv EXCEPT !.at = "next"]
        /\ UNCHANGED <<op, queue, amiss>>
    BY <1>5 DEF DispatchFails, Return, chain
  <2>2. inv.bot = turn[n].bot /\ inv.bot \in Bots /\ queue # <<>>
    BY <1>5 DEF Inv, Invoked, Awaited, Chained
  <2>3. Claims(n) /\ owner = inv.bot /\ Held
    BY <1>1, <2>2 DEF Inv, Held, Claims
  <2>4. owner' = None /\ speaker' = None /\ holder' = [holder EXCEPT ![inv.bot] = None]
    BY <2>1, <2>3 DEF Fallback
  <2>5. TypeOK'
    <3>1. holder' \in [Bots -> {None, 0} \cup Ids]
      BY <1>1, <2>4 DEF TypeOK
    <3> QED BY <1>1, <1>2, <1>4, <2>1, <2>4, <3>1, NextFacts
            DEF TypeOK, Turns, Stages, Invocations, Places
  <2>6. Chained'
    BY <1>1, <2>1, <2>2, <2>4 DEF Inv, Chained
  <2>7. \A m \in Ids : ~Claims(m)'
    BY <1>2, <2>3, OneClaim DEF Claims
  <2>8. open = 0
    <3>1. \A m \in Ids : ~Live(m)
      BY <1>1, <2>3, OneClaim DEF Claims, Live
    <3>2. ~(open > 0)
      BY <1>1, <3>1 DEF Inv, Carded
    <3> QED BY <1>1, <3>2, SMT DEF TypeOK
  <2>9. Held' /\ Carded'
    <3>1. ~(0 > 0)
      BY SMT
    <3> QED BY <1>1, <2>1, <2>7, <2>8, <3>1, NextFacts DEF Held, Carded, Awaited
  <2> QED BY <1>1, <1>2, <1>3, <1>4, <2>1, <2>5, <2>6, <2>9, NextFacts, InvMoved
<1>6. CASE ~(Awaited /\ inv.turn = n)
  <2>1. amiss' = amiss \cup {"late"} /\ UNCHANGED <<claims, inv, op, queue>>
    BY <1>6 DEF DispatchFails, chain
  <2>2. TypeOK'
    BY <1>1, <1>2, <1>4, <2>1 DEF TypeOK, Turns, Stages, claims
  <2>3. Chained' /\ amiss' # {}
    BY <1>1, <2>1 DEF Inv, Chained, claims
  <2> QED BY <1>1, <1>2, <1>3, <1>4, <2>1, <2>2, <2>3, InvMoved
<1> QED BY <1>5, <1>6

LEMMA InvComplete == ASSUME Inv, NEW n \in Ids, Complete(n) PROVE Inv'
<1>1. /\ Live(n) /\ Stage(n, "over") /\ TypeOK /\ amiss = {} /\ watch' = Unwatched /\ open' = 0
      /\ FoldFrees /\ UNCHANGED <<room, grace, deadline, amiss>>
  BY DEF Complete, Quiet, Inv
<1>2. /\ turn' \in [Ids -> Turns]
      /\ \A m \in Ids : /\ turn'[m].bot = turn[m].bot
                        /\ turn'[m].stage = IF m = n THEN "over" ELSE turn[m].stage
  <2>1. "over" \in Stages
    BY DEF Stages
  <2> QED BY <1>1, <2>1, StageFacts
<1>3. \A m \in Ids : /\ (turn'[m].stage = "new" <=> turn[m].stage = "new")
                     /\ (turn[m].stage \notin {"new", "setup"} => turn'[m].stage \notin {"new", "setup"})
  BY <1>1, <1>2 DEF Live
<1>4. watch' \in [turn : {0} \cup Ids, parked : BOOLEAN] /\ watch'.turn = 0
  BY <1>1, SMT DEF Unwatched
<1>5. Claims(n) /\ Held /\ turn[n].bot \in Bots /\ speaker = turn[n].bot /\ owner = speaker
  BY <1>1 DEF Live, Claims, Inv, Held, Timed
<1>6. owner' = None /\ speaker' = None /\ holder' = [holder EXCEPT ![speaker] = None]
  BY <1>1, <1>5, RoomsAssumption DEF FoldFrees
<1>7. \A m \in Ids : ~Claims(m)'
  BY <1>2, <1>5, OneClaim DEF Claims
<1>8. holder' \in [Bots -> {None, 0} \cup Ids] /\ open' \in 0..MaxCards /\ ~(open' > 0)
  <2>1. 0 \in 0..MaxCards /\ ~(0 > 0)
    BY RoomsAssumption, SMT
  <2>2. holder' \in [Bots -> {None, 0} \cup Ids]
    BY <1>1, <1>6 DEF TypeOK
  <2> QED BY <1>1, <2>1, <2>2
<1>9. /\ op' \in [Ops -> Operations] /\ UNCHANGED queue /\ inv' \in Invocations /\ inv'.at # "await"
      /\ (inv' = inv \/ inv'.at \in {"none", "next"}) /\ (inv'.at # "none" => queue # <<>>)
  <2>1. op \in [Ops -> Operations] /\ queue \in Seq(Ops) /\ inv \in Invocations
    BY <1>1 DEF TypeOK, Operations, Todos, Invocations, Places
  <2>2. CASE Awaited
    <3>1. queue # <<>> /\ Settled
      BY <2>2 DEF Complete, Inv, Chained, Awaited
    <3>2. PICK o \in Ops : o = Current
      BY <2>1, <3>1, SMT DEF Current
    <3>3. PICK more \in (IF inv.hop < MAX_GROUP_HOPS THEN Asked(inv.hop + 1) ELSE {<<>>}) :
               op' = [op EXCEPT ![Current].todo = more \o @]
      BY <3>1 DEF Settled
    <3>4. more \in Todos
      <4>1. CASE inv.hop < MAX_GROUP_HOPS
        <5>1. inv.hop + 1 \in 0..MAX_GROUP_HOPS
          BY <2>1, <4>1, SMT DEF Invocations, MAX_GROUP_HOPS
        <5> QED BY <3>3, <4>1, <5>1, TodoFacts
      <4>2. CASE ~(inv.hop < MAX_GROUP_HOPS)
        <5>1. <<>> \in Todos
          BY SMT DEF Todos
        <5> QED BY <3>3, <4>2, <5>1
      <4> QED BY <4>1, <4>2
    <3>5. PICK e \in Operations : e = op[o]
      BY <2>1, <3>2
    <3>6. e.todo \in Todos
      BY <3>5 DEF Operations
    <3>7. more \o e.todo \in Todos
      <4> DEFINE A == [bot : Bots, hop : 0..MAX_GROUP_HOPS]
      <4>1. more \in Seq(A) /\ e.todo \in Seq(A)
        BY <3>4, <3>6 DEF Todos
      <4> HIDE DEF A
      <4>2. PICK x, y : x = more /\ y = e.todo
        OBVIOUS
      <4>3. x \o y \in Seq(A)
        BY <4>1, <4>2, SMT
      <4> QED BY <4>2, <4>3 DEF Todos, A
    <3>8. PICK f : f = [e EXCEPT !.todo = more \o e.todo]
      OBVIOUS
    <3>9. f \in Operations
      <4>1. {} \in SUBSET Bots
        OBVIOUS
      <4> QED BY <3>5, <3>7, <3>8, <4>1, OperationFacts
    <3>10. op' = [op EXCEPT ![o] = f]
      BY <3>2, <3>3, <3>5, <3>8
    <3>11. op' \in [Ops -> Operations]
      BY <2>1, <3>9, <3>10
    <3> QED BY <3>1, <3>11, NextFacts DEF Settled
  <2>3. CASE ~Awaited
    <3>1. UNCHANGED <<inv, op, queue>>
      BY <2>3 DEF Complete, chain
    <3> QED BY <2>1, <2>3, <3>1 DEF Inv, Chained, Awaited
  <2> QED BY <2>2, <2>3
<1>10. TypeOK'
  BY <1>1, <1>2, <1>4, <1>6, <1>8, <1>9
     DEF TypeOK, Operations, Todos, Invocations, Places, Turns, Stages
<1>11. Chained'
  BY <1>1, <1>6, <1>9 DEF Inv, Chained
<1>12. Held' /\ Carded'
  BY <1>7, <1>8, <1>9 DEF Held, Carded, Awaited
<1> QED BY <1>1, <1>2, <1>3, <1>4, <1>9, <1>10, <1>11, <1>12, InvMoved

\* The release timer: where it frees a member that is nothing else's, no turn has the
\* room through that member any more.
LEMMA InvExpire == ASSUME Inv, NEW n \in Ids, Expire(n) PROVE Inv'
<1>1. /\ n \in grace /\ grace' = grace \ {n} /\ TypeOK /\ amiss = {}
      /\ UNCHANGED <<room, op, queue, inv, turn, watch, deadline, open>>
  BY DEF Expire, Released, Quiet, chain, Inv
<1>2. PICK b : b = turn[n].bot
  OBVIOUS
<1>3. /\ holder' = [holder EXCEPT ![b] = None]
      /\ amiss' = IF holder[b] \in {None, n} /\ ~Live(n) THEN amiss ELSE amiss \cup {"grace"}
      /\ IF owner = b /\ speaker = owner THEN owner' = None /\ speaker' = None
                                         ELSE UNCHANGED <<owner, speaker>>
  BY <1>2 DEF Expire, Released
<1>4. turn[n].stage \notin {"new", "setup"} /\ b \in Bots
  BY <1>1, <1>2 DEF Inv, Timed
<1>5. TypeOK'
  <2>1. holder' \in [Bots -> {None, 0} \cup Ids]
    BY <1>1, <1>3 DEF TypeOK
  <2>2. {owner', speaker'} \subseteq Bots \cup {None} /\ amiss' \subseteq {"overtaken", "late", "grace", "stale"}
    BY <1>1, <1>3 DEF TypeOK
  <2> QED BY <1>1, <2>1, <2>2 DEF TypeOK
<1>6. Chained'
  BY <1>1, <1>3 DEF Inv, Chained
<1>7. ASSUME amiss' = {} PROVE Held' /\ Carded'
  <2>1. holder[b] \in {None, n} /\ ~Live(n)
    BY <1>3, <1>7
  <2>2. ASSUME NEW m \in Ids, Claims(m)
        PROVE  turn[m].bot # b /\ holder[turn[m].bot] = m /\ owner = turn[m].bot /\ speaker = owner
    <3>1. holder[turn[m].bot] = m /\ owner = turn[m].bot /\ speaker = owner
      BY <1>1, <2>2 DEF Inv, Held
    <3>2. ~Claims(n)
      BY <1>4, <2>1 DEF Claims, Live
    <3> QED BY <2>1, <2>2, <3>1, <3>2, IdFacts
  <2>3. ASSUME NEW m \in Ids, Claims(m)
        PROVE  holder'[turn[m].bot] = m /\ owner' = turn[m].bot /\ speaker' = owner'
    <3>1. owner # b
      BY <2>2, <2>3
    <3>2. turn[m].bot \in Bots
      BY <2>3 DEF Inv, Timed, Claims
    <3>3. holder'[turn[m].bot] = holder[turn[m].bot]
      BY <1>1, <1>3, <2>2, <2>3, <3>2 DEF TypeOK
    <3> QED BY <1>3, <2>2, <2>3, <3>1, <3>3
  <2>4. Held'
    BY <1>1, <2>3 DEF Held, Claims
  <2>5. Carded'
    BY <1>1 DEF Inv, Carded, Awaited, Live
  <2> QED BY <2>4, <2>5
<1>8. watch'.turn # 0 => turn'[watch'.turn].stage \notin {"new", "setup"}
  BY <1>1 DEF Inv, Timed
<1> QED BY <1>1, <1>5, <1>6, <1>7, <1>8, InvMoved

LEMMA InvClaim == ASSUME Inv, Claim PROVE Inv'
<1>1. /\ inv.at = "apps" /\ TypeOK /\ amiss = {} /\ queue # <<>>
      /\ UNCHANGED <<room, watch, grace, open>>
  BY DEF Claim, Quiet, Inv, Chained
<1>2. inv.bot \in Bots /\ inv \in Invocations
  BY <1>1 DEF Inv, Invoked, TypeOK, Invocations, Places
<1>3. CASE Over("over") /\ UNCHANGED <<turn, claims, deadline, amiss>>
  BY <1>1, <1>3, OverFacts, InvChain DEF timers, NoInv
<1>4. CASE /\ ~op[Current].cancelled /\ ~Busy(inv.bot)
           /\ \E n \in Free :
              /\ \A m \in Free : n <= m
              /\ turn' = [turn EXCEPT ![n] = [bot |-> inv.bot, of |-> Current, stage |-> "setup"]]
              /\ holder' = [holder EXCEPT ![inv.bot] = n]
              /\ inv' = [inv EXCEPT !.at = "await", !.turn = n]
           /\ owner' = inv.bot /\ speaker' = inv.bot /\ deadline' = FullDeadline
           /\ amiss' = IF owner = None THEN amiss ELSE amiss \cup {"overtaken"}
           /\ UNCHANGED chain
  <2>1. PICK n \in Ids : /\ turn[n].stage = "new"
                         /\ turn' = [turn EXCEPT ![n] = [bot |-> inv.bot, of |-> Current, stage |-> "setup"]]
                         /\ holder' = [holder EXCEPT ![inv.bot] = n]
                         /\ inv' = [inv EXCEPT !.at = "await", !.turn = n]
    BY <1>4 DEF Free
  <2>2. /\ owner' = inv.bot /\ speaker' = inv.bot /\ deadline' = FullDeadline
        /\ amiss' = (IF owner = None THEN amiss ELSE amiss \cup {"overtaken"})
        /\ UNCHANGED <<op, queue>>
    BY <1>4 DEF chain
  <2>3. turn \in [Ids -> Turns]
    BY <1>1 DEF TypeOK, Turns, Stages
  <2>4. /\ turn' \in [Ids -> Turns]
        /\ turn'[n].bot = inv.bot /\ turn'[n].stage = "setup"
        /\ \A m \in Ids : m # n => turn'[m] = turn[m]
    <3>1. Current \in Ops
      BY <1>1, SMT DEF TypeOK, Current
    <3>2. [bot |-> inv.bot, of |-> Current, stage |-> "setup"] \in Turns
      BY <1>2, <3>1, SMT DEF Turns, Stages
    <3> QED BY <2>1, <2>3, <3>2
  <2>5. inv' = [at |-> "await", bot |-> inv.bot, hop |-> inv.hop, turn |-> n]
    <3>1. "await" \in Places
      BY DEF Places
    <3> QED BY <1>2, <2>1, <3>1, PlaceFacts
  <2>6. /\ inv' \in Invocations
        /\ inv'.at = "await" /\ inv'.bot = inv.bot /\ inv'.turn = n
    BY <1>2, <2>5, SMT DEF Invocations, Places
  <2>7. deadline' \in Deadlines /\ deadline'.cards = 0
    BY <2>2, RoomsAssumption, SMT DEF FullDeadline, Deadlines
  <2>8. TypeOK'
    <3>1. holder' \in [Bots -> {None, 0} \cup Ids]
      BY <1>1, <1>2, <2>1 DEF TypeOK
    <3>2. {owner', speaker'} \subseteq Bots \cup {None} /\ amiss' \subseteq {"overtaken", "late", "grace", "stale"}
      BY <1>1, <1>2, <2>2
    <3> QED BY <1>1, <2>2, <2>4, <2>6, <2>7, <3>1, <3>2
            DEF TypeOK, Turns, Stages, Invocations, Places, Deadlines
  <2>9. Chained'
    BY <1>1, <2>2 DEF Inv, Chained
  <2>10. Invoked'
    BY <1>2, <2>4, <2>6 DEF Invoked
  <2>11. Timed'
    <3>1. \A m \in Ids : turn'[m].stage # "new" => turn'[m].bot \in Bots
      BY <1>2, <2>4 DEF Inv, Timed
    <3>2. watch.turn \in {0} \cup Ids /\ grace \subseteq Ids
      BY <1>1, SMT DEF TypeOK
    <3>3. watch'.turn # 0 => turn'[watch'.turn].stage \notin {"new", "setup"}
      BY <1>1, <2>1, <2>4, <3>2 DEF Inv, Timed
    <3>4. \A m \in grace' : turn'[m].stage \notin {"new", "setup"}
      BY <1>1, <2>1, <2>4, <3>2 DEF Inv, Timed
    <3> QED BY <3>1, <3>3, <3>4 DEF Timed
  <2>12. ASSUME amiss' = {} PROVE Held' /\ Carded'
    <3>1. owner = None
      BY <2>2, <2>12
    <3>2. \A m \in Ids : ~Claims(m)
      BY <1>1, <3>1, RoomsAssumption DEF Inv, Held, Timed, Claims
    <3>3. open = 0
      <4>1. ~(open > 0)
        BY <1>1, <3>2 DEF Inv, Carded, Live, Claims
      <4> QED BY <1>1, <4>1, SMT DEF TypeOK
    <3>4. Held'
      <4>1. \A m \in Ids : Claims(m)' => m = n
        BY <2>4, <3>2 DEF Claims
      <4>2. holder'[inv.bot] = n
        BY <1>1, <1>2, <2>1 DEF TypeOK
      <4> QED BY <2>2, <2>4, <4>1, <4>2 DEF Held
    <3>5. Carded'
      <4>1. ~(0 > 0)
        BY SMT
      <4> QED BY <1>1, <2>7, <3>3, <4>1 DEF Carded, Awaited
    <3> QED BY <3>4, <3>5
  <2> QED BY <2>8, <2>9, <2>10, <2>11, <2>12 DEF Inv
<1> QED BY <1>3, <1>4 DEF Claim

LEMMA InvSolo ==
  ASSUME Inv, NEW b \in Bots, SoloStart(b) \/ SoloEnd(b)
  PROVE  Inv'
<1>1. PICK h \in {None, 0} : holder' = [holder EXCEPT ![b] = h]
  BY DEF SoloStart, SoloEnd
<1>2. /\ UNCHANGED <<room, op, queue, inv, turn, owner, speaker, watch, grace, deadline, open, amiss>>
      /\ TypeOK /\ amiss = {} /\ holder[b] \in {None, 0}
  BY DEF SoloStart, SoloEnd, Busy, timers, chain, Inv
<1>3. TypeOK'
  <2>1. holder' \in [Bots -> {None, 0} \cup Ids]
    BY <1>1, <1>2 DEF TypeOK
  <2> QED BY <1>2, <2>1 DEF TypeOK
<1>4. Chained'
  BY <1>2 DEF Inv, Chained
<1>5. Held'
  <2>1. ASSUME NEW m \in Ids, Claims(m) PROVE holder'[turn[m].bot] = m /\ owner = turn[m].bot /\ speaker = owner
    <3>1. holder[turn[m].bot] = m /\ owner = turn[m].bot /\ speaker = owner /\ turn[m].bot \in Bots
      BY <1>2, <2>1 DEF Inv, Held, Timed, Claims
    <3>2. turn[m].bot # b
      BY <1>2, <3>1, IdFacts
    <3> QED BY <1>1, <1>2, <3>1, <3>2 DEF TypeOK
  <2> QED BY <1>2, <2>1 DEF Held, Claims
<1>6. Carded'
  BY <1>2 DEF Inv, Carded, Awaited, Live
<1>7. watch'.turn # 0 => turn'[watch'.turn].stage \notin {"new", "setup"}
  BY <1>2 DEF Inv, Timed
<1> QED BY <1>2, <1>3, <1>4, <1>5, <1>6, <1>7, InvMoved
-----------------------------------------------------------------------------
(* The theorems.                                                            *)

LEMMA InvStep == ASSUME Inv, [Next]_vars PROVE Inv'
<1>1. CASE Go
  BY <1>1, InvBeginOp, InvRespond, InvSkipped, InvClaim DEF Go
<1>2. CASE \E o \in Messages : Send(o)
  BY <1>2, InvSend
<1>3. CASE \E o \in Resumes, b \in Bots : Resume(o, b)
  BY <1>3, InvResume
<1>4. CASE \E n \in Ids : Dispatch(n) \/ DispatchFails(n) \/ Complete(n) \/ Die(n) \/ Expire(n) \/ Card(n)
  BY <1>4, InvDispatch, InvDispatchFails, InvComplete, InvDie, InvExpire, InvCard
<1>5. CASE Stall \/ TimePasses \/ DeadlineFires \/ Answer \/ StaleAnswer
  BY <1>5, InvStall, InvTimePasses, InvDeadlineFires, InvAnswer, InvStaleAnswer
<1>6. CASE Interrupt \/ DeleteRoom \/ \E b \in Bots : SoloStart(b) \/ SoloEnd(b)
  BY <1>6, InvInterrupt, InvDeleteRoom, InvSolo
<1>7. CASE UNCHANGED vars
  BY <1>7, InvStutter
<1> QED BY <1>1, <1>2, <1>3, <1>4, <1>5, <1>6, <1>7 DEF Next

LEMMA InvAlways == Spec => []Inv
<1>1. Inv /\ [Next]_vars => Inv'
  BY InvStep
<1> QED BY InvInit, <1>1, PTL DEF Spec

\* Every variable has its type: the chain holds operations of the room, a deadline never
\* counts more cards than can be open, a timer knows a turn.
THEOREM TypeCorrect == Spec => []TypeOK
<1>1. Inv => TypeOK
  BY DEF Inv
<1> QED BY InvAlways, <1>1, PTL

\* "One turn per bot at a time, across BOTH engines" (index.ts, the group turn engine):
\* for any members, messages and number of turns, where nothing went amiss, a process in
\* the room is the one the room names, its member is busy with nothing else, and the room
\* is not deleted under it.
THEOREM OneSpeakerTheorem == Spec => []OneSpeaker
<1>1. Inv => OneSpeaker
  <2> SUFFICES ASSUME Inv, amiss = {}, NEW n \in Ids, Live(n)
               PROVE  holder[turn[n].bot] = n /\ owner = turn[n].bot /\ speaker = turn[n].bot
                      /\ room = "here"
    BY DEF OneSpeaker
  <2>1. Claims(n)
    BY DEF Live, Claims
  <2>2. holder[turn[n].bot] = n /\ owner = turn[n].bot /\ speaker = owner
    BY <2>1 DEF Inv, Held
  <2>3. turn[n].bot \in Bots
    BY DEF Inv, Timed, Live
  <2>4. room # "gone"
    BY <2>2, <2>3, RoomsAssumption DEF Inv, Chained
  <2> QED BY <2>2, <2>4 DEF Inv, TypeOK
<1> QED BY InvAlways, <1>1, PTL

\* "Counts work, not wall time" (room-turn-timeout.ts): the deadline of the turn that is
\* awaited holds exactly while cards are open, however many a turn may have open and in
\* whatever order people answer them.
THEOREM CardsTheorem == Spec => []CardsHoldTheClock
<1>1. Inv => CardsHoldTheClock
  BY DEF Inv, Carded, CardsHoldTheClock
<1> QED BY InvAlways, <1>1, PTL

-----------------------------------------------------------------------------
(* Whom an operation has had speak.                                         *)

\* The operations that wait are each other's, and none of them is over or unknown.
Lined ==
  /\ \A i, j \in DOMAIN queue : queue[i] = queue[j] => i = j
  /\ \A i \in DOMAIN queue : op[queue[i]].state \in {"queued", "running"}

\* A turn is of an operation that is over, or of the one that runs, which remembers it.
Remembered ==
  /\ inv.at # "none" => op[Current].state = "running"
  /\ \A n \in Ids : turn[n].of # None =>
       \/ op[turn[n].of].state = "over"
       \/ inv.at # "none" /\ turn[n].of = Current /\ turn[n].bot \in op[Current].spoken

\* The member that is about to claim the room has not spoken for the operation.
Unheard ==
  inv.at = "apps" =>
    inv.bot \in op[Current].spoken /\ \A n \in Ids : turn[n].of = Current => turn[n].bot # inv.bot

Heard == Lined /\ Remembered /\ Unheard /\ SpeaksOnce

LEMMA HeardInit == Init => Heard
  BY SMT DEF Init, Heard, Lined, Remembered, Unheard, SpeaksOnce, NoInv

\* Steps that neither begin nor end an operation or a turn.
LEMMA HeardKept ==
  ASSUME Inv, Heard, queue' = queue,
         \A n \in Ids : turn'[n].bot = turn[n].bot /\ turn'[n].of = turn[n].of,
         \A o \in Ops : op'[o].state = op[o].state /\ op'[o].spoken = op[o].spoken,
         inv' = inv \/ (inv'.at = "next" /\ inv.at # "none")
  PROVE  Heard'
<1>1. queue \in Seq(Ops) /\ turn \in [Ids -> Turns] /\ (inv.at # "none" => queue # <<>>)
  BY DEF Inv, TypeOK, Turns, Stages, Chained
<1>2. (\A i \in DOMAIN queue : queue[i] \in Ops) /\ (inv.at # "none" => Current \in Ops)
  BY <1>1, SMT DEF Current
<1>3. \A n \in Ids : turn[n].of # None => turn[n].of \in Ops
  BY <1>1, SMT DEF Turns
<1>4. Current' = Current
  BY DEF Current
<1>5. Lined'
  BY <1>2 DEF Heard, Lined
<1>6. inv'.at # "none" => inv.at # "none"
  OBVIOUS
<1>7. Remembered'
  BY <1>2, <1>3, <1>4, <1>6 DEF Heard, Remembered
<1>8. Unheard'
  BY <1>2, <1>4 DEF Heard, Unheard
<1>9. SpeaksOnce'
  BY DEF Heard, SpeaksOnce
<1> QED BY <1>5, <1>7, <1>8, <1>9 DEF Heard

\* The end of an operation: it was the one that ran, or had no turn yet.
LEMMA HeardOver ==
  ASSUME Inv, Heard, queue # <<>>, NEW s \in {"new", "over"}, Over(s), s = "over" \/ inv.at = "none",
         \A n \in Ids : turn'[n].bot = turn[n].bot /\ turn'[n].of = turn[n].of
  PROVE  Heard'
<1>1. queue \in Seq(Ops) /\ op \in [Ops -> Operations] /\ turn \in [Ids -> Turns]
  BY DEF Inv, TypeOK, Operations, Todos, Turns, Stages
<1>2. PICK c \in Ops : c = Current /\ c = queue[1]
  BY <1>1, SMT DEF Current
<1>3. /\ op'[c].state = s /\ (\A o \in Ops : o # c => op'[o] = op[o])
      /\ queue' = Tail(queue) /\ inv'.at = "none"
  <2>1. /\ op' = [op EXCEPT ![c] = [state |-> s, todo |-> <<>>, spoken |-> {}, cancelled |-> FALSE]]
        /\ queue' = Tail(queue) /\ inv' = NoInv
    BY <1>2 DEF Over
  <2> QED BY <1>1, <2>1 DEF NoInv
<1>4. Lined'
  <2>1. \A i \in DOMAIN queue' : /\ i + 1 \in DOMAIN queue /\ queue'[i] = queue[i + 1] /\ i \in Nat
                                 /\ i + 1 # 1
    BY <1>1, <1>3, SMT
  <2>2. 1 \in DOMAIN queue /\ \A i \in DOMAIN queue : queue[i] \in Ops
    BY <1>1, SMT
  <2>3. \A i, j \in DOMAIN queue' : queue'[i] = queue'[j] => i = j
    <3>1. \A i, j \in Nat : i + 1 = j + 1 => i = j
      BY SMT
    <3> QED BY <2>1, <3>1 DEF Heard, Lined
  <2>4. \A i \in DOMAIN queue' : op'[queue'[i]].state \in {"queued", "running"}
    <3>1. \A i \in DOMAIN queue' : queue'[i] # c /\ queue'[i] \in Ops
      BY <1>2, <2>1, <2>2 DEF Heard, Lined
    <3> QED BY <1>3, <2>1, <3>1 DEF Heard, Lined
  <2> QED BY <2>3, <2>4 DEF Lined
<1>5. Remembered'
  <2> SUFFICES ASSUME NEW n \in Ids, turn'[n].of # None PROVE op'[turn'[n].of].state = "over"
    BY <1>3 DEF Remembered
  <2>1. turn[n].of \in Ops
    BY <1>1, SMT DEF Turns
  <2>2. CASE op[turn[n].of].state = "over"
    <3>1. 1 \in DOMAIN queue
      BY <1>1, SMT
    <3>2. turn[n].of # c
      BY <1>2, <2>2, <3>1 DEF Heard, Lined
    <3> QED BY <1>3, <2>1, <2>2, <3>2
  <2>3. CASE inv.at # "none" /\ turn[n].of = Current
    BY <1>2, <1>3, <2>3
  <2> QED BY <2>2, <2>3 DEF Heard, Remembered
<1>6. Unheard'
  BY <1>3 DEF Unheard
<1>7. SpeaksOnce'
  BY DEF Heard, SpeaksOnce
<1> QED BY <1>4, <1>5, <1>6, <1>7 DEF Heard

LEMMA HeardEnqueue ==
  ASSUME Inv, Heard, NEW o \in Ops, NEW todo, Enqueue(o, todo)
  PROVE  Heard'
<1>1. queue \in Seq(Ops) /\ op \in [Ops -> Operations] /\ turn \in [Ids -> Turns]
  BY DEF Inv, TypeOK, Operations, Todos, Turns, Stages
<1>2. /\ op[o].state = "new" /\ queue' = Append(queue, o) /\ inv' = inv /\ turn' = turn
      /\ op' = [op EXCEPT ![o] = [state |-> "queued", todo |-> todo, spoken |-> {}, cancelled |-> FALSE]]
  BY DEF Enqueue
<1>3. op'[o].state = "queued" /\ \A p \in Ops : p # o => op'[p] = op[p]
  BY <1>1, <1>2
<1>4. \A i \in DOMAIN queue : queue[i] \in Ops /\ queue[i] # o
  <2>1. \A i \in DOMAIN queue : queue[i] \in Ops
    BY <1>1, SMT
  <2> QED BY <1>2, <2>1 DEF Heard, Lined
<1>5. Lined'
  <2>1. \A i \in DOMAIN queue' : (i \in DOMAIN queue /\ queue'[i] = queue[i])
                                \/ (i = Len(queue) + 1 /\ queue'[i] = o)
    BY <1>1, <1>2, SMT
  <2>2. \A i, j \in DOMAIN queue' : queue'[i] = queue'[j] => i = j
    BY <1>4, <2>1 DEF Heard, Lined
  <2>3. \A i \in DOMAIN queue' : op'[queue'[i]].state \in {"queued", "running"}
    BY <1>3, <1>4, <2>1 DEF Heard, Lined
  <2> QED BY <2>2, <2>3 DEF Lined
<1>6. inv.at # "none" => Current' = Current /\ Current \in Ops /\ Current # o
  <2>1. ASSUME inv.at # "none" PROVE Current' = Current /\ Current \in Ops /\ Current = queue[1]
                                    /\ 1 \in DOMAIN queue
    <3>1. queue # <<>>
      BY <2>1 DEF Inv, Chained
    <3> QED BY <1>1, <1>2, <3>1, SMT DEF Current
  <2> QED BY <1>4, <2>1
<1>7. \A n \in Ids : turn[n].of # None => turn[n].of \in Ops /\ turn[n].of # o
  <2>1. \A n \in Ids : turn[n].of # None => turn[n].of \in Ops
    BY <1>1, SMT DEF Turns
  <2> QED BY <1>2, <1>6, <2>1 DEF Heard, Remembered
<1>8. Remembered'
  BY <1>2, <1>3, <1>6, <1>7 DEF Heard, Remembered
<1>9. Unheard'
  BY <1>2, <1>3, <1>6 DEF Heard, Unheard
<1>10. SpeaksOnce'
  BY <1>2 DEF Heard, SpeaksOnce
<1> QED BY <1>5, <1>8, <1>9, <1>10 DEF Heard

LEMMA HeardBeginOp == ASSUME Inv, Heard, BeginOp PROVE Heard'
<1>1. queue # <<>> /\ inv.at = "none" /\ UNCHANGED <<turn>>
  BY DEF BeginOp
<1>2. queue \in Seq(Ops) /\ op \in [Ops -> Operations] /\ turn \in [Ids -> Turns]
  BY DEF Inv, TypeOK, Operations, Todos, Turns, Stages
<1>3. PICK c \in Ops : c = Current /\ c = queue[1] /\ 1 \in DOMAIN queue
  BY <1>1, <1>2, SMT DEF Current
<1>4. ASSUME NEW s \in {"new", "over"}, Over(s) PROVE Heard'
  BY <1>1, <1>4, HeardOver
<1>5. CASE /\ op' = [op EXCEPT ![Current].state = "running"] /\ inv' = [NoInv EXCEPT !.at = "next"]
           /\ UNCHANGED queue
  <2>1. op'[c].state = "running" /\ (\A o \in Ops : o # c => op'[o] = op[o]) /\ Current' = Current
        /\ inv'.at = "next"
    <3>1. PICK e : e = [op[c] EXCEPT !.state = "running"]
      OBVIOUS
    <3>2. e.state = "running"
      BY <1>2, <3>1, SMT DEF Operations
    <3>3. op' = [op EXCEPT ![c] = e] /\ Current' = Current
      BY <1>3, <1>5, <3>1 DEF Current
    <3> QED BY <1>2, <1>5, <3>2, <3>3, NextFacts
  <2>2. \A i \in DOMAIN queue : queue[i] \in Ops
    BY <1>2, SMT
  <2>3. Lined'
    BY <1>5, <2>1, <2>2 DEF Heard, Lined
  <2>4. \A n \in Ids : turn[n].of # None => turn[n].of \in Ops /\ op[turn[n].of].state = "over"
    <3>1. \A n \in Ids : turn[n].of # None => turn[n].of \in Ops
      BY <1>2, SMT DEF Turns
    <3> QED BY <1>1, <3>1 DEF Heard, Remembered
  <2>5. op[c].state # "over"
    BY <1>3 DEF Heard, Lined
  <2>6. Remembered'
    BY <1>1, <1>3, <2>1, <2>4, <2>5 DEF Remembered
  <2>7. Unheard' /\ SpeaksOnce'
    BY <1>1, <2>1 DEF Heard, Unheard, SpeaksOnce
  <2> QED BY <2>3, <2>6, <2>7 DEF Heard
<1> QED BY <1>4, <1>5 DEF BeginOp

LEMMA HeardRespond == ASSUME Inv, Heard, Respond PROVE Heard'
<1>1. queue # <<>> /\ inv.at = "next" /\ turn' = turn
  BY DEF Inv, Chained, Respond
<1>2. queue \in Seq(Ops) /\ op \in [Ops -> Operations] /\ turn \in [Ids -> Turns] /\ inv \in Invocations
  BY DEF Inv, TypeOK, Operations, Todos, Turns, Stages, Invocations, Places
<1>3. PICK o \in Ops : o = Current
  BY <1>1, <1>2, SMT DEF Current
<1>4. CASE Over("over")
  BY <1>1, <1>4, HeardOver
<1>5. CASE LET todo == op[o].todo  b == todo[1].bot  asked == b \in op[o].spoken IN
           /\ op' = [op EXCEPT ![o].todo = Tail(todo), ![o].spoken = Spoken(o)]
           /\ inv' = IF asked \/ Busy(b) THEN inv
                     ELSE [inv EXCEPT !.at = "apps", !.bot = b, !.hop = todo[1].hop]
           /\ UNCHANGED queue
  <2>1. PICK b, h, T : b = op[o].todo[1].bot /\ h = op[o].todo[1].hop /\ T = Tail(op[o].todo)
    OBVIOUS
  <2>2. PICK S : S = Spoken(o) /\ S = op[o].spoken \cup {b}
    BY <2>1 DEF Spoken
  <2>3. op'[o].state = op[o].state /\ op'[o].spoken = S /\ \A p \in Ops : p # o => op'[p] = op[p]
    <3>1. PICK e : e = [op[o] EXCEPT !.todo = T]
      OBVIOUS
    <3>2. PICK f : f = [e EXCEPT !.spoken = S]
      OBVIOUS
    <3>3. f.state = op[o].state /\ f.spoken = S
      BY <1>2, <3>1, <3>2, SMT DEF Operations
    <3>4. op' = [op EXCEPT ![o] = f]
      BY <1>2, <1>5, <2>1, <2>2, <3>1, <3>2
    <3> QED BY <1>2, <3>3, <3>4
  <2>4. queue' = queue /\ Current' = Current
    BY <1>5 DEF Current
  <2>5. \/ inv' = inv
        \/ inv'.at = "apps" /\ inv'.bot = b /\ b \notin op[o].spoken
    <3>1. CASE inv' = [inv EXCEPT !.at = "apps", !.bot = b, !.hop = h] /\ b \notin op[o].spoken
      <4>1. "apps" \in Places
        BY DEF Places
      <4>2. inv' = [at |-> "apps", bot |-> b, hop |-> h, turn |-> inv.turn]
        BY <1>2, <3>1, <4>1, PlaceFacts
      <4> QED BY <3>1, <4>2
    <3> QED BY <1>5, <2>1, <3>1
  <2>6. \A i \in DOMAIN queue : queue[i] \in Ops
    BY <1>2, SMT
  <2>7. Lined'
    BY <2>3, <2>4, <2>6 DEF Heard, Lined
  <2>8. Remembered'
    <3>1. op[o].state = "running" /\ inv'.at # "none"
      BY <1>1, <1>3, <2>5 DEF Heard, Remembered
    <3>2. ASSUME NEW n \in Ids, turn[n].of # None
          PROVE  op'[turn[n].of].state = "over" \/ (turn[n].of = o /\ turn[n].bot \in op'[o].spoken)
      <4>1. turn[n].of \in Ops
        BY <1>2, <3>2, SMT DEF Turns
      <4>2. CASE op[turn[n].of].state = "over"
        BY <2>3, <3>1, <4>1, <4>2
      <4>3. CASE turn[n].of = o /\ turn[n].bot \in op[o].spoken
        BY <2>2, <2>3, <4>3
      <4> QED BY <1>3, <3>2, <4>2, <4>3 DEF Heard, Remembered
    <3> QED BY <1>1, <1>3, <2>3, <2>4, <3>1, <3>2 DEF Remembered
  <2>9. Unheard'
    <3>1. CASE inv' = inv
      BY <1>1, <3>1 DEF Unheard
    <3>2. CASE inv'.at = "apps" /\ inv'.bot = b /\ b \notin op[o].spoken
      <4>1. b \in op'[o].spoken
        BY <2>2, <2>3
      <4>2. \A n \in Ids : turn[n].of = o => turn[n].bot # b
        <5>1. o # None /\ op[o].state # "over"
          BY <1>1, <1>3, RoomsAssumption DEF Heard, Remembered, Ops
        <5> QED BY <1>3, <3>2, <5>1 DEF Heard, Remembered
      <4> QED BY <1>1, <1>3, <2>4, <3>2, <4>1, <4>2 DEF Unheard
    <3> QED BY <2>5, <3>1, <3>2
  <2>10. SpeaksOnce'
    BY <1>1 DEF Heard, SpeaksOnce
  <2> QED BY <2>7, <2>8, <2>9, <2>10 DEF Heard
<1> QED BY <1>3, <1>4, <1>5 DEF Respond

LEMMA HeardClaim == ASSUME Inv, Heard, Claim PROVE Heard'
<1>1. inv.at = "apps" /\ queue # <<>>
  BY DEF Claim, Inv, Chained
<1>2. queue \in Seq(Ops) /\ turn \in [Ids -> Turns] /\ inv \in Invocations
  BY DEF Inv, TypeOK, Turns, Stages, Invocations, Places
<1>3. CASE Over("over") /\ UNCHANGED turn
  BY <1>1, <1>3, HeardOver
<1>4. CASE \E n \in Free :
             /\ turn' = [turn EXCEPT ![n] = [bot |-> inv.bot, of |-> Current, stage |-> "setup"]]
             /\ inv' = [inv EXCEPT !.at = "await", !.turn = n]
             /\ UNCHANGED chain
  <2>1. PICK n \in Ids : /\ turn' = [turn EXCEPT ![n] = [bot |-> inv.bot, of |-> Current, stage |-> "setup"]]
                         /\ inv' = [inv EXCEPT !.at = "await", !.turn = n]
                         /\ op' = op /\ queue' = queue
    BY <1>4 DEF Free, chain
  <2>2. turn'[n].of = Current /\ turn'[n].bot = inv.bot /\ \A m \in Ids : m # n => turn'[m] = turn[m]
    BY <1>2, <2>1
  <2>3. inv'.at = "await" /\ Current' = Current
    <3>1. "await" \in Places
      BY DEF Places
    <3>2. inv' = [at |-> "await", bot |-> inv.bot, hop |-> inv.hop, turn |-> n]
      BY <1>2, <2>1, <3>1, PlaceFacts
    <3> QED BY <2>1, <3>2 DEF Current
  <2>4. Lined' /\ Unheard'
    BY <2>1, <2>3 DEF Heard, Lined, Unheard
  <2>5. Remembered'
    <3>1. inv.bot \in op[Current].spoken /\ op[Current].state = "running"
      BY <1>1 DEF Heard, Unheard, Remembered
    <3>2. ASSUME NEW m \in Ids, turn'[m].of # None
          PROVE  op[turn'[m].of].state = "over" \/ (turn'[m].of = Current /\ turn'[m].bot \in op[Current].spoken)
      <4>1. CASE m = n
        BY <2>2, <3>1, <4>1
      <4>2. CASE m # n
        BY <2>2, <3>2, <4>2 DEF Heard, Remembered
      <4> QED BY <4>1, <4>2
    <3> QED BY <2>1, <2>3, <3>1, <3>2 DEF Remembered
  <2>6. SpeaksOnce'
    <3> SUFFICES ASSUME NEW m \in Ids, NEW k \in Ids, turn'[m].of # None, turn'[m].of = turn'[k].of,
                        turn'[m].bot = turn'[k].bot, m # k
                 PROVE  FALSE
      BY DEF SpeaksOnce
    <3>1. \A j \in Ids : turn[j].of = Current => turn[j].bot # inv.bot
      BY <1>1 DEF Heard, Unheard
    <3>2. m # n /\ k # n
      BY <2>2, <3>1
    <3> QED BY <2>2, <3>2 DEF Heard, SpeaksOnce
  <2> QED BY <2>4, <2>5, <2>6 DEF Heard
<1> QED BY <1>3, <1>4 DEF Claim

\* A step of the turns: they stay the members' and the operations' they are.
LEMMA HeardTurns ==
  ASSUME Inv, Heard, NEW n \in Ids,
         Dispatch(n) \/ DispatchFails(n) \/ Complete(n) \/ Die(n) \/ Expire(n) \/ Card(n)
  PROVE  Heard'
<1>1. TypeOK /\ queue \in Seq(Ops) /\ op \in [Ops -> Operations] /\ {"running", "over"} \subseteq Stages
  BY DEF Inv, TypeOK, Operations, Todos, Stages
<1>2. ASSUME UNCHANGED <<queue, op>>, (\E s \in Stages : Stage(n, s)) \/ UNCHANGED turn \/ Told,
             inv' = inv \/ (inv'.at = "next" /\ inv.at # "none")
      PROVE  Heard'
  <2>1. \A m \in Ids : turn'[m].bot = turn[m].bot /\ turn'[m].of = turn[m].of
    BY <1>1, <1>2, StageFacts, ToldFacts
  <2> QED BY <1>2, <2>1, HeardKept
<1>3. CASE Dispatch(n)
  BY <1>1, <1>2, <1>3 DEF Dispatch, chain
<1>4. CASE DispatchFails(n)
  <2>1. UNCHANGED <<queue, op>> /\ Stage(n, "over")
        /\ (inv' = inv \/ (inv' = [NoInv EXCEPT !.at = "next"] /\ inv.at = "await"))
    BY <1>4 DEF DispatchFails, chain, Return, Awaited
  <2> QED BY <1>1, <1>2, <2>1, NextFacts
<1>5. CASE Complete(n)
  <2>1. Stage(n, "over")
    BY <1>5 DEF Complete
  <2>2. \A m \in Ids : turn'[m].bot = turn[m].bot /\ turn'[m].of = turn[m].of
    BY <1>1, <2>1, StageFacts
  <2>3. CASE ~Awaited
    BY <1>1, <1>2, <1>5, <2>1, <2>3 DEF Complete, chain
  <2>4. CASE Awaited
    <3>1. Settled /\ inv.at # "none" /\ queue # <<>>
      BY <1>5, <2>4 DEF Complete, Awaited, Inv, Chained
    <3>2. PICK o \in Ops : o = Current
      BY <1>1, <3>1, SMT DEF Current
    <3>3. PICK more : op' = [op EXCEPT ![o].todo = more \o @]
      BY <3>1, <3>2 DEF Settled
    <3>4. PICK T : T = more \o op[o].todo
      OBVIOUS
    <3>5. PICK e : e = [op[o] EXCEPT !.todo = T]
      OBVIOUS
    <3>6. e.state = op[o].state /\ e.spoken = op[o].spoken
      BY <1>1, <3>5, SMT DEF Operations
    <3>7. op' = [op EXCEPT ![o] = e]
      BY <3>3, <3>4, <3>5
    <3>8. \A p \in Ops : op'[p].state = op[p].state /\ op'[p].spoken = op[p].spoken
      BY <1>1, <3>6, <3>7
    <3>9. queue' = queue /\ inv'.at = "next"
      BY <3>1, NextFacts DEF Settled
    <3> QED BY <2>2, <3>1, <3>8, <3>9, HeardKept
  <2> QED BY <2>3, <2>4
<1>6. CASE Die(n)
  BY <1>1, <1>2, <1>6 DEF Die, chain
<1>7. CASE Expire(n)
  BY <1>2, <1>7 DEF Expire, Released, chain
<1>8. CASE Card(n)
  <2>1. CASE Armed /\ deadline.spent
    <3>1. Told /\ Over("over") /\ Awaited
      BY <1>8, <2>1 DEF Card, Fires, Armed
    <3>2. queue # <<>>
      BY <3>1 DEF Inv, Chained, Awaited
    <3>3. \A m \in Ids : turn'[m].bot = turn[m].bot /\ turn'[m].of = turn[m].of
      BY <1>1, <3>1, ToldFacts
    <3> QED BY <3>1, <3>2, <3>3, HeardOver
  <2>2. CASE ~(Armed /\ deadline.spent)
    BY <1>2, <1>8, <2>2 DEF Card, chain
  <2> QED BY <2>1, <2>2
<1> QED BY <1>3, <1>4, <1>5, <1>6, <1>7, <1>8

\* Timers and people.
LEMMA HeardTimers ==
  ASSUME Inv, Heard, Stall \/ TimePasses \/ DeadlineFires \/ Answer \/ StaleAnswer
  PROVE  Heard'
<1>1. TypeOK
  BY DEF Inv
<1>2. CASE Told /\ Awaited /\ Over("over")
  <2>1. queue # <<>>
    BY <1>2 DEF Inv, Chained, Awaited
  <2>2. \A m \in Ids : turn'[m].bot = turn[m].bot /\ turn'[m].of = turn[m].of
    BY <1>1, <1>2, ToldFacts
  <2> QED BY <1>2, <2>1, <2>2, HeardOver
<1>3. CASE Told /\ UNCHANGED <<inv, op, queue>>
  <2>1. \A m \in Ids : turn'[m].bot = turn[m].bot /\ turn'[m].of = turn[m].of
    BY <1>1, <1>3, ToldFacts
  <2> QED BY <1>3, <2>1, HeardKept
<1>4. CASE UNCHANGED <<turn, inv, op, queue>>
  BY <1>4, HeardKept
<1> QED BY <1>2, <1>3, <1>4 DEF Stall, TimePasses, DeadlineFires, Fires, Armed, Answer, StaleAnswer, chain

LEMMA HeardPeople ==
  ASSUME Inv, Heard, Interrupt \/ DeleteRoom \/ (\E b \in Bots : SoloStart(b) \/ SoloEnd(b))
  PROVE  Heard'
<1>1. TypeOK /\ op \in [Ops -> Operations]
  BY DEF Inv, TypeOK, Operations, Todos
<1>2. CASE Interrupt
  <2>1. /\ op' = [o \in Ops |-> IF op[o].state \in {"queued", "running"}
                                THEN [op[o] EXCEPT !.cancelled = TRUE] ELSE op[o]]
        /\ UNCHANGED <<inv, queue>> /\ (Told \/ UNCHANGED turn)
    BY <1>2 DEF Interrupt
  <2>2. \A o \in Ops : [op[o] EXCEPT !.cancelled = TRUE].state = op[o].state
                      /\ [op[o] EXCEPT !.cancelled = TRUE].spoken = op[o].spoken
    BY <1>1, SMT DEF Operations
  <2>3. \A o \in Ops : op'[o].state = op[o].state /\ op'[o].spoken = op[o].spoken
    BY <2>1, <2>2
  <2>4. \A m \in Ids : turn'[m].bot = turn[m].bot /\ turn'[m].of = turn[m].of
    BY <1>1, <2>1, ToldFacts
  <2> QED BY <2>1, <2>3, <2>4, HeardKept
<1>3. CASE DeleteRoom \/ (\E b \in Bots : SoloStart(b) \/ SoloEnd(b))
  BY <1>3, HeardKept DEF DeleteRoom, SoloStart, SoloEnd, chain
<1> QED BY <1>2, <1>3

LEMMA HeardStep == ASSUME Inv, Heard, [Next]_vars PROVE Heard'
<1>1. CASE Go
  <2>1. CASE Skipped
    <3>1. inv.at = "apps" /\ UNCHANGED <<turn, op, queue>> /\ inv'.at = "next"
      BY <2>1, NextFacts DEF Skipped, Return, chain
    <3> QED BY <3>1, HeardKept
  <2> QED BY <1>1, <2>1, HeardBeginOp, HeardRespond, HeardClaim DEF Go
<1>2. CASE (\E o \in Messages : Send(o)) \/ (\E o \in Resumes, b \in Bots : Resume(o, b))
  BY <1>2, HeardEnqueue DEF Send, Resume, Ops
<1>3. CASE \E n \in Ids : Dispatch(n) \/ DispatchFails(n) \/ Complete(n) \/ Die(n) \/ Expire(n) \/ Card(n)
  BY <1>3, HeardTurns
<1>4. CASE Stall \/ TimePasses \/ DeadlineFires \/ Answer \/ StaleAnswer
  BY <1>4, HeardTimers
<1>5. CASE Interrupt \/ DeleteRoom \/ \E b \in Bots : SoloStart(b) \/ SoloEnd(b)
  BY <1>5, HeardPeople
<1>6. CASE UNCHANGED vars
  BY <1>6, HeardKept DEF vars
<1> QED BY <1>1, <1>2, <1>3, <1>4, <1>5, <1>6 DEF Next

\* "Bots that already spoke for this user message ... must not run ... twice (once chained,
\* once as a direct responder)" (index.ts): for any members, messages and number of turns,
\* no two turns of one message or one resume are of the same member, whoever a reply
\* summons and whatever is stopped, skipped or put back in between.
THEOREM SpeaksOnceTheorem == Spec => []SpeaksOnce
<1>1. Heard => SpeaksOnce
  BY DEF Heard
<1>2. Inv /\ Heard /\ [Next]_vars => Heard'
  BY HeardStep
<1> QED BY InvAlways, HeardInit, <1>1, <1>2, PTL DEF Spec
=============================================================================

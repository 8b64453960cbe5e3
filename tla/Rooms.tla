-------------------------------- MODULE Rooms --------------------------------
(***************************************************************************)
(* The turns of one room (server/index.ts, "group turn engine").  A message *)
(* is an operation in the room's chain of promises; its responders speak    *)
(* one after the other, and a reply may summon teammates for one more hop.  *)
(* A turn ends by turn.completed, a failed dispatch, the stall watchdog or  *)
(* its own deadline (server/room-turn-timeout.ts).  Members also have 1:1   *)
(* turns.  Code between two awaits is one step, or, while inv.at = "next",  *)
(* several that nothing of the room comes between.                          *)
(***************************************************************************)
EXTENDS Naturals, Sequences

CONSTANTS Bots,
          Messages,  \* operations of messages
          Resumes,   \* operations that resume a speaker whose connector card was answered
          None,
          MaxTurns,  \* turns in the room
          MaxCards   \* cards a turn has open at a time

ASSUME RoomsAssumption ==
  /\ Messages \cap Resumes = {} /\ None \notin Bots \cup Nat \cup Messages \cup Resumes
  /\ {MaxTurns, MaxCards} \subseteq Nat

Ops == Messages \cup Resumes
Ids == 1..MaxTurns
MAX_GROUP_HOPS == 1

VARIABLES
  room,     \* the group: here or gone
  op,       \* operation -> its state, who has yet to speak, who was asked, cancelled
  queue,    \* groupQueues: the operations that are not over; the first runs
  inv,      \* the runGroupMemberTurn under way: where it is, for whom, at what hop
  turn,     \* turn -> its member, the operation it is of, and how far it is
  holder,   \* member -> what makes it busy: nothing (None), a turn of the room, or 0: a 1:1 turn
  owner,    \* group.busyBotId
  speaker,  \* groupSpeakers
  watch,    \* the watchdog's entry of the room's thread
  grace,    \* turns whose release timer is armed
  deadline, \* RoomTurnDeadline of the turn awaited
  open,     \* cards that are open
  amiss     \* history: what happened that the code does not foresee; the model ends there

vars == <<room, op, queue, inv, turn, holder, owner, speaker, watch, grace, deadline, open, amiss>>
claims == <<holder, owner, speaker>>
timers == <<watch, grace, deadline, open>>
chain == <<op, queue>>

TypeOK ==
  /\ room \in {"here", "gone"}
  /\ op \in [Ops -> [state : {"new", "queued", "running", "over"}, todo : Seq([bot : Bots, hop : 0..MAX_GROUP_HOPS]),
                     spoken : SUBSET Bots, cancelled : BOOLEAN]]
  /\ queue \in Seq(Ops)
  /\ inv \in [at : {"none", "next", "apps", "await"}, bot : Bots \cup {None},
              hop : 0..MAX_GROUP_HOPS, turn : {0} \cup Ids]
  /\ turn \in [Ids -> [bot : Bots \cup {None}, of : Ops \cup {None},
                       stage : {"new", "setup", "running", "stopping", "over"}]]
  /\ holder \in [Bots -> {None, 0} \cup Ids] /\ {owner, speaker} \subseteq Bots \cup {None}
  /\ watch \in [turn : {0} \cup Ids, parked : BOOLEAN] /\ grace \subseteq Ids
  /\ deadline \in [cards : 0..MaxCards, spent : BOOLEAN] /\ open \in 0..MaxCards
  /\ amiss \subseteq {"overtaken", "late", "grace", "stale"}

NoInv == [at |-> "none", bot |-> None, hop |-> 0, turn |-> 0]
Unwatched == [turn |-> 0, parked |-> FALSE]
FullDeadline == [cards |-> 0, spent |-> FALSE]

Init ==
  /\ room = "here" /\ queue = <<>> /\ inv = NoInv
  /\ op = [o \in Ops |-> [state |-> "new", todo |-> <<>>, spoken |-> {}, cancelled |-> FALSE]]
  /\ turn = [n \in Ids |-> [bot |-> None, of |-> None, stage |-> "new"]]
  /\ holder = [b \in Bots |-> None] /\ owner = None /\ speaker = None
  /\ watch = Unwatched /\ grace = {} /\ deadline = FullDeadline /\ open = 0 /\ amiss = {}

Busy(b) == holder[b] # None
Live(n) == turn[n].stage \in {"running", "stopping"}
\* groupIsWorking.
Working == owner # None \/ queue # <<>>
Quiet == inv.at # "next" /\ amiss = {}
Current == Head(queue)
Stage(n, s) == turn' = [turn EXCEPT ![n].stage = s]
\* adapter.interruptTurn, of what runs on the room's thread.
Told == turn' = [n \in Ids |-> IF turn[n].stage = "running"
                                 THEN [turn[n] EXCEPT !.stage = "stopping"] ELSE turn[n]]
-----------------------------------------------------------------------------
(* Operations.                                                              *)

\* Whom a message asks to speak, or a reply summons.
Asked(hop) == {<<>>} \cup {<<[bot |-> b, hop |-> hop]>> : b \in Bots}
  \cup {<<[bot |-> p[1], hop |-> hop], [bot |-> p[2], hop |-> hop]>> :
        p \in {q \in Bots \X Bots : q[1] # q[2]}}

Enqueue(o, todo) ==
  /\ Quiet /\ room = "here" /\ op[o].state = "new"
  /\ op' = [op EXCEPT ![o] = [state |-> "queued", todo |-> todo, spoken |-> {}, cancelled |-> FALSE]]
  /\ queue' = Append(queue, o)
  /\ UNCHANGED <<room, inv, turn, claims, timers, amiss>>

\* startGroupTurn.
Send(o) == \E todo \in Asked(0) \ {<<>>} : Enqueue(o, todo)

\* dispatchConnectorResume, and the drains that try a pending one again.
Resume(o, b) == ~Busy(b) /\ Enqueue(o, <<[bot |-> b, hop |-> 0]>>)

\* The end of an operation: the chain goes on.
Over(state) ==
  /\ op' = [op EXCEPT ![Current] = [state |-> state, todo |-> <<>>, spoken |-> {}, cancelled |-> FALSE]]
  /\ queue' = Tail(queue) /\ inv' = NoInv

\* A stopped speaker that still owns the room keeps messages out.  Resumes do not ask.
Barred(o) == o \in Messages /\ owner # None

BeginOp ==
  /\ Quiet /\ inv.at = "none" /\ queue # <<>>
  /\ LET o == Current IN
     \/ (op[o].cancelled \/ Barred(o)) /\ Over("over")
     \/ /\ ~op[o].cancelled /\ o \in Resumes /\ Busy(op[o].todo[1].bot) /\ Over("new")
     \/ /\ ~op[o].cancelled /\ ~Barred(o) /\ (o \in Resumes => ~Busy(op[o].todo[1].bot))
        /\ op' = [op EXCEPT ![o].state = "running"] /\ inv' = [NoInv EXCEPT !.at = "next"]
        /\ UNCHANGED queue
  /\ UNCHANGED <<room, turn, claims, timers, amiss>>

\* spoken, after spoken.add: the calls for the members that a reply summons share the set.
\* Mutated form: they get one of their own.
SpokenApart(o) == IF op[o].todo[1].hop = 0 THEN op[o].spoken \cup {op[o].todo[1].bot}
                                           ELSE op[o].spoken
Spoken(o) == op[o].spoken \cup {op[o].todo[1].bot}

\* To the next member: it is skipped if it was asked before, or is busy.
Respond ==
  /\ inv.at = "next"
  /\ LET o == Current  todo == op[o].todo IN
     \/ (op[o].cancelled \/ todo = <<>>) /\ Over("over")
     \/ /\ ~op[o].cancelled /\ todo # <<>>
        /\ LET b == todo[1].bot  asked == b \in op[o].spoken IN
           /\ op' = [op EXCEPT ![o].todo = Tail(todo), ![o].spoken = Spoken(o)]
           /\ inv' = IF asked \/ Busy(b) THEN inv
                     ELSE [inv EXCEPT !.at = "apps", !.bot = b, !.hop = todo[1].hop]
        /\ UNCHANGED queue
  /\ UNCHANGED <<room, turn, claims, timers, amiss>>

\* Back in the loop, or out of it.
Return == inv' = [NoInv EXCEPT !.at = "next"] /\ UNCHANGED chain

Free == {n \in Ids : turn[n].stage = "new"}

\* The apps or the folder are refused, or the member got busy: on to the next.
Skipped ==
  /\ Quiet /\ inv.at = "apps" /\ Return
  /\ UNCHANGED <<room, turn, claims, timers, amiss>>

\* After the await of the connected apps everything is asked again.  A Stop after that, in
\* the snapshot, finds no process: the turn is dispatched all the same.
Claim ==
  /\ Quiet /\ inv.at = "apps"
  /\ \/ op[Current].cancelled /\ Over("over") /\ UNCHANGED <<turn, claims, deadline, amiss>>
     \/ /\ ~op[Current].cancelled /\ ~Busy(inv.bot)
        /\ \E n \in Free :
           /\ \A m \in Free : n <= m
           /\ turn' = [turn EXCEPT ![n] = [bot |-> inv.bot, of |-> Current, stage |-> "setup"]]
           /\ holder' = [holder EXCEPT ![inv.bot] = n]
           /\ inv' = [inv EXCEPT !.at = "await", !.turn = n]
        /\ owner' = inv.bot /\ speaker' = inv.bot /\ deadline' = FullDeadline
        /\ amiss' = IF owner = None THEN amiss ELSE amiss \cup {"overtaken"}
        /\ UNCHANGED chain
  /\ UNCHANGED <<room, watch, grace, open>>
-----------------------------------------------------------------------------
(* The turn.  Awaited: its outcome is not known yet.                        *)

Awaited == inv.at = "await"

\* finish("settled"), and what the loop does then: a reply at hop 0 summons others.
\* (The fold has freed the member; the fallback is for a turn that is not the speaker's.)
Settled ==
  /\ \E more \in IF inv.hop < MAX_GROUP_HOPS THEN Asked(inv.hop + 1) ELSE {<<>>} :
       /\ \A i \in DOMAIN more : more[i].bot # inv.bot
       /\ op' = [op EXCEPT ![Current].todo = more \o @]
  /\ inv' = [NoInv EXCEPT !.at = "next"] /\ UNCHANGED queue

\* The fallback after the await, when nothing else gave the room back.
Fallback(b) ==
  IF owner = b THEN owner' = None /\ speaker' = None /\ holder' = [holder EXCEPT ![b] = None]
               ELSE UNCHANGED claims

\* The snapshot is taken: watch, then sendTurn.
Dispatch(n) ==
  /\ Quiet /\ turn[n].stage = "setup" /\ Stage(n, "running")
  /\ watch' = [turn |-> n, parked |-> FALSE]
  /\ UNCHANGED <<room, chain, inv, claims, grace, deadline, open, amiss>>

\* The snapshot or sendTurn throws.  If the deadline ended the wait before, nobody is
\* left to free the member.
DispatchFails(n) ==
  /\ Quiet /\ turn[n].stage = "setup" /\ Stage(n, "over") /\ watch' = Unwatched
  /\ IF Awaited /\ inv.turn = n
     THEN Fallback(inv.bot) /\ Return /\ UNCHANGED amiss
     ELSE amiss' = amiss \cup {"late"} /\ UNCHANGED <<claims, inv, chain>>
  /\ UNCHANGED <<room, grace, deadline, open>>

\* turn.completed: the watchdog, the fold, then the subscription of whoever awaits.
FoldFrees ==
  IF speaker # None /\ owner = speaker
  THEN owner' = None /\ speaker' = None /\ holder' = [holder EXCEPT ![speaker] = None]
  ELSE UNCHANGED claims

Complete(n) ==
  /\ Quiet /\ Live(n) /\ Stage(n, "over") /\ watch' = Unwatched /\ open' = 0
  /\ FoldFrees
  /\ IF Awaited THEN Settled ELSE UNCHANGED <<inv, chain>>
  /\ UNCHANGED <<room, grace, deadline, amiss>>

\* A stopped process goes without turn.completed, its cards withdrawn.
Die(n) ==
  /\ Quiet /\ turn[n].stage = "stopping" /\ open = 0 /\ Stage(n, "over")
  /\ UNCHANGED <<room, chain, inv, claims, timers, amiss>>

\* sweep: no event for stallMs.  The wait is over, the room stays claimed for 6 s.
Stall ==
  /\ Quiet /\ watch.turn # 0 /\ ~watch.parked /\ watch' = Unwatched
  /\ Told /\ grace' = grace \cup {watch.turn}
  /\ IF Awaited THEN Over("over") ELSE UNCHANGED <<inv, chain>>
  /\ UNCHANGED <<room, claims, deadline, open, amiss>>

\* The release timer does not know for which turn the member is busy, nor whether its
\* process is gone.  Mutated form: it does not know of rooms.
Released(n) ==
  /\ Quiet /\ n \in grace /\ grace' = grace \ {n}
  /\ LET b == turn[n].bot IN
     /\ holder' = [holder EXCEPT ![b] = None]
     /\ amiss' = IF holder[b] \in {None, n} /\ ~Live(n) THEN amiss ELSE amiss \cup {"grace"}
  /\ UNCHANGED <<room, chain, inv, turn, watch, deadline, open>>
ExpireSolo(n) == Released(n) /\ UNCHANGED <<owner, speaker>>
Expire(n) ==
  /\ Released(n)
  /\ IF owner = turn[n].bot /\ speaker = owner THEN owner' = None /\ speaker' = None
                                               ELSE UNCHANGED <<owner, speaker>>
-----------------------------------------------------------------------------
(* The deadline counts work: it holds while a card is open.                 *)

Armed == Awaited /\ deadline.cards = 0

\* fire: the wait is over, the process told to stop; the room stays claimed.  Mutated
\* form: it is given back at once.
FiresFreeing == Told /\ Over("over") /\ Fallback(inv.bot)
Fires == Told /\ Over("over") /\ UNCHANGED claims

TimePasses ==
  /\ Quiet /\ Armed /\ ~deadline.spent /\ deadline' = [deadline EXCEPT !.spent = TRUE]
  /\ UNCHANGED <<room, chain, inv, turn, claims, watch, grace, open, amiss>>

DeadlineFires ==
  /\ Quiet /\ Armed /\ deadline.spent /\ Fires
  /\ UNCHANGED <<room, timers, amiss>>

\* setWaitingOnHuman(false).  Mutated form: a flag instead of a count, as the watchdog's.
ResumedAtOnce == 0
Resumed == IF deadline.cards = 0 THEN 0 ELSE deadline.cards - 1

\* request.opened, of a late event loop also after the time was spent.
Card(n) ==
  /\ Quiet /\ turn[n].stage = "running" /\ open < MaxCards /\ open' = open + 1
  /\ watch' = [watch EXCEPT !.parked = watch.turn # 0]
  /\ IF Armed /\ deadline.spent THEN Fires /\ UNCHANGED deadline
     ELSE /\ deadline' = IF Awaited THEN [deadline EXCEPT !.cards = @ + 1] ELSE deadline
          /\ UNCHANGED <<turn, inv, chain, claims>>
  /\ UNCHANGED <<room, grace, amiss>>

\* request.resolved, of an open card; or of one that no longer is, of an earlier turn.
Resolved ==
  /\ watch' = [watch EXCEPT !.parked = FALSE]
  /\ deadline' = IF Awaited THEN [deadline EXCEPT !.cards = Resumed] ELSE deadline
Answer ==
  /\ Quiet /\ open > 0 /\ open' = open - 1 /\ Resolved
  /\ UNCHANGED <<room, chain, inv, turn, claims, grace, amiss>>
StaleAnswer ==
  /\ Quiet /\ \E n \in Ids : turn[n].stage = "over"
  /\ Resolved /\ amiss' = IF open = 0 THEN amiss ELSE amiss \cup {"stale"}
  /\ UNCHANGED <<room, chain, inv, turn, claims, grace, open>>
-----------------------------------------------------------------------------
(* People, and the members' own turns.                                      *)

\* POST /interrupt.
Interrupt ==
  /\ Quiet /\ op' = [o \in Ops |-> IF op[o].state \in {"queued", "running"}
                                   THEN [op[o] EXCEPT !.cancelled = TRUE] ELSE op[o]]
  /\ IF owner # None THEN Told ELSE UNCHANGED turn
  /\ UNCHANGED <<room, queue, inv, claims, timers, amiss>>

DeleteRoom ==
  /\ Quiet /\ room = "here" /\ ~Working /\ room' = "gone"
  /\ UNCHANGED <<chain, inv, turn, claims, timers, amiss>>

SoloStart(b) ==
  /\ amiss = {} /\ ~Busy(b) /\ holder' = [holder EXCEPT ![b] = 0]
  /\ UNCHANGED <<room, chain, inv, turn, owner, speaker, timers, amiss>>
SoloEnd(b) ==
  /\ amiss = {} /\ holder[b] = 0 /\ holder' = [holder EXCEPT ![b] = None]
  /\ UNCHANGED <<room, chain, inv, turn, owner, speaker, timers, amiss>>

Go == BeginOp \/ Respond \/ Skipped \/ Claim

Next ==
  \/ Go \/ \E o \in Messages : Send(o)
  \/ \E o \in Resumes, b \in Bots : Resume(o, b)
  \/ \E n \in Ids : Dispatch(n) \/ DispatchFails(n) \/ Complete(n) \/ Die(n) \/ Expire(n) \/ Card(n)
  \/ Stall \/ TimePasses \/ DeadlineFires \/ Answer \/ StaleAnswer
  \/ Interrupt \/ DeleteRoom \/ \E b \in Bots : SoloStart(b) \/ SoloEnd(b)

Spec == Init /\ [][Next]_vars

\* Promises are continued, setups end, a stopped process ends, people answer, timers run.
FairSpec ==
  /\ Spec /\ WF_vars(Go) /\ SF_vars(Stall) /\ SF_vars(TimePasses \/ DeadlineFires) /\ WF_vars(Answer)
  /\ WF_vars(\E n \in Ids : Dispatch(n) \/ DispatchFails(n)) /\ WF_vars(\E n \in Ids : Expire(n))
  /\ WF_vars(\E n \in Ids : turn[n].stage = "stopping" /\ (Complete(n) \/ Die(n)))
-----------------------------------------------------------------------------
(* What must hold, where nothing went amiss.                                *)

\* "One turn per bot at a time, across BOTH engines", "one speaker at a time": a process
\* in the room is the one the room names, its member is busy with nothing else, and the
\* room is not deleted under it.
OneSpeaker == amiss = {} =>
  \A n \in Ids : Live(n) =>
    /\ holder[turn[n].bot] = n /\ owner = turn[n].bot /\ speaker = turn[n].bot
    /\ room = "here"

\* "Bots that already spoke for this user message -- '@Scout ask @Pixel' must not run Pixel
\* twice (once chained, once as a direct responder)": of all the turns of one message, or of
\* one resume, two are never of one member, whoever was summoned, skipped, stopped or
\* requeued in between.
SpeaksOnce == \A m, n \in Ids :
  turn[m].of # None /\ turn[m].of = turn[n].of /\ turn[m].bot = turn[n].bot => m = n

\* "Counts work, not wall time": the deadline holds exactly while cards are open, however
\* many and in whatever order they are answered.  Else it would stop a turn under an
\* open card, or never.
CardsHoldTheClock == Awaited /\ amiss = {} => deadline.cards = open

\* A room that works comes to rest: no turn, timer or chain keeps it working for ever.
RoomRests == Working ~> ~Working \/ amiss # {}
=============================================================================

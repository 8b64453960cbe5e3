------------------------------ MODULE SteerQueue ------------------------------
(***************************************************************************)
(* Queue-and-steer for busy 1:1 operators: server/steer-queue.ts, the send *)
(* and cancel routes and the turn lifecycle of server/index.ts that decide *)
(* when a message the user typed is queued, lands in the transcript and is *)
(* run.                                                                    *)
(*                                                                         *)
(* Node runs one synchronous segment at a time, so an action is a segment. *)
(* A drain pass is split at each durable write (a crash may separate them) *)
(* and at its await; while a pass owns the thread ("scan") nothing else    *)
(* runs.  The await of run() is pending for a few microtasks only, because *)
(* startTurn resolves without I/O: turns can settle in it (a dispatch that *)
(* fails at once), HTTP handlers cannot.                                   *)
(***************************************************************************)
EXTENDS Integers, Sequences, SequencesExt

CONSTANTS Bots, Threads, Sends,
          Owner,        \* the operator each thread (run) belongs to
          Target,       \* the thread each client send is addressed to
          None,         \* no turn; no thread
          Gate,         \* busy on a peer-approval card with no turn behind it
          PeerGates,    \* whether delegations may open such a card
          DiskMayFail,  \* whether writeFileAtomic of steer-queue.json may fail
          MaxCrashes, MaxRetakes

ASSUME SteerAssumption ==
  /\ Owner \in [Threads -> Bots]
  /\ Target \in [Sends -> Threads]
  /\ None \notin Threads /\ Gate \notin Threads /\ None # Gate
  /\ PeerGates \in BOOLEAN /\ DiskMayFail \in BOOLEAN
  /\ MaxCrashes \in Nat /\ MaxRetakes \in Nat
  /\ \A b \in Bots : \E t \in Threads : Owner[t] = b

VARIABLES
  tasks,      \* threads that exist; an operator exists while it owns one
  active,     \* bot.threadId, the run the composer shows
  turn,       \* what keeps the bot busy: a thread, Gate, or None when idle
  routine,    \* bots whose turn is a routine's run
  queue,      \* queues: thread -> waiting sends (<<>> is an absent entry)
  order,      \* insertion order of the queues Map
  disk,       \* steer-queue.json
  transcript, \* thread -> user lines, durable
  steering,   \* sends whose handler awaits adapter.steer()
  accepted,   \* sends a client holds a 202 receipt for
  cancelled,  \* sends whose cancellation was answered ok
  scan,       \* the drain pass that owns the JS thread, or NoScan
  held,       \* thread -> the pass awaiting run() on it, or NoPass
  ran,        \* history: turns started with the send in this process life
  crashes, retakes

vars == <<tasks, active, turn, routine, queue, order, disk, transcript, steering,
          accepted, cancelled, scan, held, ran, crashes, retakes>>
client == <<steering, accepted, cancelled>>
bounds == <<crashes, retakes>>
-----------------------------------------------------------------------------
Alive(b)    == \E t \in tasks : Owner[t] = b
Landed(s)   == s \in ToSet(transcript[Target[s]])
Waiting(s)  == s \in ToSet(queue[Target[s]])

NoScan     == [on |-> FALSE, seen |-> {}, at |-> None, n |-> 1]
Pass(seen) == [on |-> TRUE, seen |-> seen, at |-> None, n |-> 1]
NoPass     == [on |-> FALSE, seen |-> {}, items |-> <<>>]
Draining      == {t \in Threads : held[t].on}

Free == ~scan.on

\* Mutated form: run() awaits real I/O, so handlers run in its window.
HttpMayRunDuringRun == Free
HttpMayRun          == Free /\ Draining = {}

\* persistQueues: the snapshot on disk after a change of the map.
Saves(q, o)  == disk' = [queue |-> q, order |-> o]
SaveFails    == DiskMayFail /\ UNCHANGED disk

\* What SelectSeq selects from o: those of S (a recursion that proofs can unfold).
Among(o, S) ==
  LET f[i \in 0..Len(o)] == IF i = 0 THEN <<>>
                            ELSE IF o[i] \in S THEN Append(f[i - 1], o[i]) ELSE f[i - 1]
  IN  f[Len(o)]

\* A rejected persist of a deleted key puts the entry back, at the Map's end.
Without(o, gone) == Among(o, Threads \ gone)
PutBack(o, gone) == Without(o, gone) \o Among(o, gone)

TurnsTyped ==
  /\ tasks \subseteq Threads
  /\ active \in [Bots -> Threads]
  /\ turn \in [Bots -> Threads \cup {None, Gate}]
  /\ routine \subseteq Bots /\ ran \in [Sends -> Nat]
QueuesTyped ==
  /\ queue \in [Threads -> Seq(Sends)]
  /\ disk.queue \in [Threads -> Seq(Sends)]
  /\ transcript \in [Threads -> Seq(Sends)]
ClientsTyped ==
  steering \subseteq Sends /\ accepted \subseteq Sends /\ cancelled \subseteq Sends
Passes  == [on : BOOLEAN, seen : SUBSET Threads, at : Threads \cup {None}, n : Nat \ {0}]
Waiters == [on : BOOLEAN, seen : SUBSET Threads, items : Seq(Sends)]
PassesTyped == scan \in Passes /\ held \in [Threads -> Waiters]
BoundsTyped == crashes \in 0..MaxCrashes /\ retakes \in 0..MaxRetakes

TypeOK ==
  TurnsTyped /\ QueuesTyped /\ ClientsTyped /\ PassesTyped /\ BoundsTyped

Init ==
  /\ tasks = Threads
  /\ active \in {f \in [Bots -> Threads] : \A b \in Bots : Owner[f[b]] = b}
  /\ turn = [b \in Bots |-> None] /\ routine = {}
  /\ queue = [t \in Threads |-> <<>>] /\ order = <<>>
  /\ disk = [queue |-> queue, order |-> order]
  /\ transcript = [t \in Threads |-> <<>>]
  /\ steering = {} /\ accepted = {} /\ cancelled = {}
  /\ scan = NoScan /\ held = [t \in Threads |-> NoPass]
  /\ ran = [s \in Sends |-> 0]
  /\ crashes = 0 /\ retakes = 0
-----------------------------------------------------------------------------
(* The send route.                                                         *)

\* startTurn on an idle bot: it returns before it does any I/O.
TurnStarts(b, t, ss) ==
  /\ turn' = [turn EXCEPT ![b] = t] /\ routine' = routine \ {b}
  /\ ran' = [s \in Sends |-> IF s \in ss THEN ran[s] + 1 ELSE ran[s]]

\* The bot becomes idle.
Idles(b) == turn' = [turn EXCEPT ![b] = None] /\ routine' = routine \ {b}

\* The 202 reaches the client, or is lost and the client sends again.
Receipt(s) == accepted' \in {accepted, accepted \cup {s}}

\* A send not yet known to the server, addressed to the active run.
Addressable(s) == LET t == Target[s] IN t \in tasks /\ active[Owner[t]] = t
NewSend(s) ==
  /\ HttpMayRun /\ s \notin accepted \cup steering
  /\ Addressable(s) /\ ~Landed(s) /\ ~Waiting(s)

SendToIdle(s) == LET t == Target[s] IN
  /\ NewSend(s) /\ turn[Owner[t]] = None
  /\ transcript' = [transcript EXCEPT ![t] = Append(@, s)]
  /\ TurnStarts(Owner[t], t, {s})
  /\ Receipt(s)
  /\ UNCHANGED <<tasks, active, queue, order, disk, steering, cancelled, scan,
                 held, bounds>>

SendToBusy(s) ==
  /\ NewSend(s) /\ turn[Owner[Target[s]]] # None
  /\ steering' = steering \cup {s}
  /\ UNCHANGED <<tasks, active, turn, routine, queue, order, disk, transcript, accepted,
                 cancelled, scan, held, ran, bounds>>

\* A retry of a send that landed or waits gets its canonical receipt back.
Replay(s) ==
  /\ HttpMayRun /\ s \notin accepted \cup steering
  /\ Target[s] \in tasks /\ (Landed(s) \/ Waiting(s))
  /\ accepted' = accepted \cup {s}
  /\ UNCHANGED <<tasks, active, turn, routine, queue, order, disk, transcript, steering,
                 cancelled, scan, held, ran, bounds>>

\* steer() answered.  Every ownership fact is read again before it is used.
SteerAnswered(s) == HttpMayRun /\ s \in steering /\ steering' = steering \ {s}

SteerRefused(s) ==
  /\ SteerAnswered(s)
  /\ ~Addressable(s) \/ turn[Owner[Target[s]]] = None
  /\ UNCHANGED <<tasks, active, turn, routine, queue, order, disk, transcript, accepted,
                 cancelled, scan, held, ran, bounds>>

SteerRecorded(s) == LET t == Target[s] IN
  /\ SteerAnswered(s) /\ Addressable(s) /\ turn[Owner[t]] # None
  /\ transcript' = [transcript EXCEPT ![t] = Append(@, s)]
  /\ Receipt(s)
  /\ UNCHANGED <<tasks, active, turn, routine, queue, order, disk, cancelled, scan, held,
                 ran, bounds>>

SteerFallsToTurn(s) == LET t == Target[s] IN
  /\ SteerAnswered(s) /\ Addressable(s) /\ turn[Owner[t]] = None
  /\ transcript' = [transcript EXCEPT ![t] = Append(@, s)]
  /\ TurnStarts(Owner[t], t, {s})
  /\ Receipt(s)
  /\ UNCHANGED <<tasks, active, queue, order, disk, cancelled, scan, held,
                 bounds>>

\* queueSteeredMessage: push, persist, take the push back if that throws.
SteerFallsToQueue(s) == LET t == Target[s] IN
  /\ SteerAnswered(s) /\ Addressable(s) /\ turn[Owner[t]] # None
  /\ \/ /\ queue' = [queue EXCEPT ![t] = Append(@, s)]
        /\ order' = IF queue[t] = <<>> THEN Append(order, t) ELSE order
        /\ Saves(queue', order')
        /\ Receipt(s)
     \/ SaveFails /\ UNCHANGED <<queue, order, accepted>>
  /\ UNCHANGED <<tasks, active, turn, routine, transcript, cancelled, scan, held, ran,
                 bounds>>
-----------------------------------------------------------------------------
(* Cancellation and deletion.                                              *)

\* cancelSteeredMessage: the entry loses s, whose queue id is unique.
Cancellable(s) == HttpMayRun /\ s \in accepted /\ Waiting(s) /\ Alive(Owner[Target[s]])
EntryLoses(s) == LET t == Target[s] IN
  \E i \in DOMAIN queue[t] :
    queue[t][i] = s /\ queue' = [queue EXCEPT ![t] = RemoveAt(@, i)]
OrderAfter(s, q) == IF q[Target[s]] = <<>> THEN Without(order, {Target[s]}) ELSE order

\* Mutated form: the entry stays in the file.
CancelInMemory(s) ==
  /\ Cancellable(s) /\ EntryLoses(s) /\ cancelled' = cancelled \cup {s}
  /\ order' = OrderAfter(s, queue')
  /\ UNCHANGED <<tasks, active, turn, routine, disk, transcript, steering, accepted,
                 scan, held, ran, bounds>>
Cancel(s) ==
  /\ Cancellable(s)
  /\ \/ /\ EntryLoses(s)
        /\ cancelled' = cancelled \cup {s}
        /\ order' = OrderAfter(s, queue')
        /\ Saves(queue', order')
     \/ /\ SaveFails /\ UNCHANGED <<queue, cancelled>>
        /\ order' = IF Len(queue[Target[s]]) = 1 THEN PutBack(order, {Target[s]})
                    ELSE order
  /\ UNCHANGED <<tasks, active, turn, routine, transcript, steering, accepted, scan,
                 held, ran, bounds>>

\* discardSteeredMessagesFor{Thread,Bot}: delete the keys, persist, undo.
Discards(gone) ==
  LET full == {t \in gone : queue[t] # <<>>} IN
  \/ /\ full = {} /\ UNCHANGED <<queue, order, disk>>
  \/ /\ full # {}
     /\ queue' = [t \in Threads |-> IF t \in gone THEN <<>> ELSE queue[t]]
     /\ order' = Without(order, gone)
     /\ Saves(queue', order')
DiscardFails(gone) ==
  /\ \E t \in gone : queue[t] # <<>>
  /\ SaveFails /\ order' = PutBack(order, gone) /\ UNCHANGED queue

\* DELETE /tasks/:id removes the run first, then its queue; it is refused for
\* the active run of a busy bot and for the run of a routine.
RunActive(t) == LET b == Owner[t] IN
  turn[b] # None /\ (active[b] = t \/ (turn[b] = t /\ b \in routine))
DeleteTask(t) == LET b == Owner[t] IN
  /\ HttpMayRun /\ t \in tasks /\ ~RunActive(t)
  /\ \E u \in tasks \ {t} :
       /\ Owner[u] = b
       /\ active' = [active EXCEPT ![b] = IF @ = t THEN u ELSE @]
  /\ tasks' = tasks \ {t}
  /\ Discards({t}) \/ DiscardFails({t})
  /\ UNCHANGED <<turn, routine, transcript, client, scan, held, ran, bounds>>

\* DELETE /bots/:id discards the queues first: a failure keeps the bot.
DeleteBot(b) == LET own == {t \in Threads : Owner[t] = b} IN
  /\ HttpMayRun /\ Alive(b)
  /\ \/ /\ Discards(own) /\ tasks' = tasks \ own
        /\ Idles(b)
     \/ DiscardFails(own) /\ UNCHANGED <<tasks, turn, routine>>
  /\ UNCHANGED <<active, transcript, client, scan, held, ran, bounds>>

\* Switching runs is refused while busy, except onto a waiting routine's run.
SwitchTask(b, t) ==
  /\ HttpMayRun /\ t \in tasks /\ Owner[t] = b /\ active[b] # t
  /\ turn[b] = None \/ (turn[b] = t /\ b \in routine)
  /\ active' = [active EXCEPT ![b] = t]
  /\ UNCHANGED <<tasks, turn, routine, queue, order, disk, transcript, client, scan,
                 held, ran, bounds>>
-----------------------------------------------------------------------------
(* Turns of the bot that no queued or typed message started, and settling. *)

\* A delegation, room, card continuation or routine takes an idle bot; a
\* routine runs in a run of its own, beside the active one.
Takes(b, t) == turn' = [turn EXCEPT ![b] = t] /\
  (routine' = routine \ {b} \/ (t \in Threads \ {active[b]} /\ routine' = routine \cup {b}))
OtherTurn(b, t) ==
  /\ HttpMayRun /\ turn[b] = None /\ t \in tasks /\ Owner[t] = b
  /\ Takes(b, t)
  /\ UNCHANGED <<tasks, active, queue, order, disk, transcript, client, scan,
                 held, ran, bounds>>

\* turn.completed, a failed dispatch or the stall grace timer: the fold marks
\* the bot idle and the drain starts in the same segment.  Mutated form: not.
SettleSilently(b) ==
  /\ Free /\ turn[b] \in Threads /\ Idles(b)
  /\ UNCHANGED <<tasks, active, queue, order, disk, transcript, client, scan,
                 held, ran, bounds>>
Settle(b) ==
  /\ Free /\ turn[b] \in Threads /\ Idles(b)
  /\ scan' = Pass({})
  /\ UNCHANGED <<tasks, active, queue, order, disk, transcript, client, held,
                 ran, bounds>>

\* turn.completed on a run that was deleted: the fold finds no operator for it
\* and returns; the bot stays busy, the drain runs.
SettleUnheard(b) ==
  /\ Free /\ turn[b] \in Threads \ tasks
  /\ scan' = Pass({})
  /\ UNCHANGED <<tasks, active, turn, routine, queue, order, disk, transcript, client,
                 held, ran, bounds>>

\* Subscribers ahead of the steer drain may hand the idle bot new work, or
\* open a peer-approval card on it, before the pass looks.
SettleRetaken(b, x) ==
  /\ Free /\ turn[b] \in tasks /\ retakes < MaxRetakes
  /\ (x = Gate /\ PeerGates) \/ (x \in tasks /\ Owner[x] = b)
  /\ Takes(b, x)
  /\ scan' = Pass({}) /\ retakes' = retakes + 1
  /\ UNCHANGED <<tasks, active, queue, order, disk, transcript, client, held,
                 ran, crashes>>

\* resumeActivityAfterSettlement: idle again, and nobody drains.
GateCloses(b) ==
  /\ Free /\ turn[b] = Gate /\ Idles(b)
  /\ UNCHANGED <<tasks, active, queue, order, disk, transcript, client, scan,
                 held, ran, bounds>>

\* reloadProviders settles every busy bot, then drains once.
ReloadProviders ==
  /\ HttpMayRun
  /\ turn' = [b \in Bots |-> None] /\ routine' = {}
  /\ scan' = Pass({})
  /\ UNCHANGED <<tasks, active, queue, order, disk, transcript, client, held,
                 ran, bounds>>
-----------------------------------------------------------------------------
(* drainSteeredMessages.                                                   *)

Orphan(t) == t \notin tasks

\* Mutated form: the pass does not skip a thread another pass is draining.
VisitableAlways(t) == t \notin scan.seen /\ (Orphan(t) \/ turn[Owner[t]] = None)
Visitable(t) ==
  /\ t \notin scan.seen \cup Draining
  /\ Orphan(t) \/ turn[Owner[t]] = None

\* The next entry the pass acts on, and everything it has then gone past.
Scanning == scan.on /\ scan.at = None
Upcoming(t) == \E i \in DOMAIN order :
  order[i] = t /\ Visitable(t) /\ \A j \in 1..(i-1) : ~Visitable(order[j])
Passed(t) == scan.seen \cup {u \in Threads :
  \E i, j \in DOMAIN order : j <= i /\ order[i] = t /\ order[j] = u}

\* Deletes t's entry and persists; a failed write leaves memory ahead of disk.
DropEntry(t, seen) ==
  /\ queue' = [queue EXCEPT ![t] = <<>>]
  /\ order' = Without(order, {t})
  /\ \/ Saves(queue', order') /\ scan' = Pass(seen)
     \/ SaveFails /\ scan' = NoScan

DrainOrphan(t) ==
  /\ Scanning /\ Upcoming(t) /\ Orphan(t)
  /\ DropEntry(t, Passed(t))
  /\ UNCHANGED <<tasks, active, turn, routine, transcript, client, held, ran, bounds>>

DrainTake(t) ==
  /\ Scanning /\ Upcoming(t) /\ ~Orphan(t)
  /\ scan' = [on |-> TRUE, seen |-> Passed(t), at |-> t, n |-> 1]
  /\ UNCHANGED <<tasks, active, turn, routine, queue, order, disk, transcript, client,
                 held, ran, bounds>>

\* Mutated forms: append without the queueId lookup; from the newest back.
DrainAppendBlind == LET t == scan.at IN
  /\ scan.on /\ t # None /\ scan.n <= Len(queue[t])
  /\ transcript' = [transcript EXCEPT ![t] = Append(@, queue[t][scan.n])]
  /\ scan' = [scan EXCEPT !.n = @ + 1]
  /\ UNCHANGED <<tasks, active, turn, routine, queue, order, disk, client, held, ran,
                 bounds>>
DrainAppendReversed == LET t == scan.at
                           s == queue[t][Len(queue[t]) + 1 - scan.n] IN
  /\ scan.on /\ t # None /\ scan.n <= Len(queue[t])
  /\ transcript' = [transcript EXCEPT ![t] = IF Landed(s) THEN @ ELSE Append(@, s)]
  /\ scan' = [scan EXCEPT !.n = @ + 1]
  /\ UNCHANGED <<tasks, active, turn, routine, queue, order, disk, client, held, ran,
                 bounds>>
DrainAppend == LET t == scan.at  s == queue[t][scan.n] IN
  /\ scan.on /\ t # None /\ scan.n <= Len(queue[t])
  /\ transcript' = [transcript EXCEPT ![t] = IF Landed(s) THEN @ ELSE Append(@, s)]
  /\ scan' = [scan EXCEPT !.n = @ + 1]
  /\ UNCHANGED <<tasks, active, turn, routine, queue, order, disk, client, held, ran,
                 bounds>>

\* run(): startTurn on every line of the entry, or an error chip if it throws.
DrainRun == LET t == scan.at IN
  /\ scan.on /\ t # None /\ scan.n > Len(queue[t])
  /\ held' = [held EXCEPT ![t] =
                [on |-> TRUE, seen |-> scan.seen, items |-> queue[t]]]
  /\ scan' = NoScan
  /\ TurnStarts(Owner[t], t, ToSet(queue[t])) \/ UNCHANGED <<turn, routine, ran>>
  /\ UNCHANGED <<tasks, active, queue, order, disk, transcript, client, bounds>>

\* run() resolved: drop the entry if it is still the one that ran, go on.
DrainResume(t) ==
  /\ Free /\ held[t].on
  /\ held' = [held EXCEPT ![t] = NoPass]
  /\ IF queue[t] # <<>> /\ IsPrefix(held[t].items, queue[t])
       THEN DropEntry(t, held[t].seen)
       ELSE scan' = Pass(held[t].seen) /\ UNCHANGED <<queue, order, disk>>
  /\ UNCHANGED <<tasks, active, turn, routine, transcript, client, ran, bounds>>

DrainEnds ==
  /\ Scanning /\ ~\E t \in Threads : Upcoming(t)
  /\ scan' = NoScan
  /\ UNCHANGED <<tasks, active, turn, routine, queue, order, disk, transcript, client,
                 held, ran, bounds>>
-----------------------------------------------------------------------------
\* The process dies between any two steps; the next one loads the queue, has
\* every bot idle and drains once it listens.  Mutated form: it does not drain.
RestartQuietly ==
  /\ crashes < MaxCrashes /\ crashes' = crashes + 1
  /\ turn' = [b \in Bots |-> None] /\ routine' = {}
  /\ queue' = disk.queue /\ order' = disk.order
  /\ steering' = {} /\ held' = [t \in Threads |-> NoPass]
  /\ scan' = NoScan /\ ran' = [s \in Sends |-> 0]
  /\ UNCHANGED <<tasks, active, disk, transcript, accepted, cancelled, retakes>>
Restart ==
  /\ crashes < MaxCrashes /\ crashes' = crashes + 1
  /\ turn' = [b \in Bots |-> None] /\ routine' = {}
  /\ queue' = disk.queue /\ order' = disk.order
  /\ steering' = {} /\ held' = [t \in Threads |-> NoPass]
  /\ scan' = Pass({}) /\ ran' = [s \in Sends |-> 0]
  /\ UNCHANGED <<tasks, active, disk, transcript, accepted, cancelled, retakes>>

Drain == \/ \E t \in Threads : DrainOrphan(t) \/ DrainTake(t) \/ DrainResume(t)
         \/ DrainAppend \/ DrainRun \/ DrainEnds
Answer(s) == SteerRefused(s) \/ SteerRecorded(s) \/ SteerFallsToTurn(s)
             \/ SteerFallsToQueue(s)

Next ==
  \/ \E s \in Sends : \/ SendToIdle(s) \/ SendToBusy(s) \/ Replay(s)
                      \/ SteerRefused(s) \/ SteerRecorded(s)
                      \/ SteerFallsToTurn(s) \/ SteerFallsToQueue(s)
                      \/ Cancel(s)
  \/ \E t \in Threads : DeleteTask(t)
  \/ \E b \in Bots : DeleteBot(b) \/ Settle(b) \/ SettleUnheard(b) \/ GateCloses(b)
  \/ \E b \in Bots, t \in Threads : SwitchTask(b, t) \/ OtherTurn(b, t)
  \/ \E b \in Bots, x \in Threads \cup {Gate} : SettleRetaken(b, x)
  \/ ReloadProviders \/ Restart
  \/ \E t \in Threads : DrainOrphan(t) \/ DrainTake(t) \/ DrainResume(t)
  \/ DrainAppend \/ DrainRun \/ DrainEnds

Spec == Init /\ [][Next]_vars

\* The event loop runs what is ready.  Every turn ends, by its provider or by
\* the watchdog, and every card is answered, by a human or its 15-minute timer;
\* both need a free JS thread, which a loop serving its events in order grants
\* each of them in time: strong fairness.
FairSpec ==
  /\ Spec
  /\ WF_vars(Drain)
  /\ \A b \in Bots : SF_vars(Settle(b)) /\ SF_vars(GateCloses(b))
-----------------------------------------------------------------------------
(* What must hold.                                                         *)

Gone(t) == t \notin tasks

\* A message the user was told is accepted is in the transcript, or waits both
\* in memory and on disk, until its run is deleted or the user cancels it -
\* across crashes, failed writes and drains.  (During a drain step the entry
\* may already be off one of the two, but then its line has landed.)
NothingLost == \A s \in accepted \ cancelled :
  \/ Landed(s) \/ Gone(Target[s])
  \/ Waiting(s) /\ s \in ToSet(disk.queue[Target[s]])

\* Retries, replays, steers, drains and recovery append one line per send.
OnceInTranscript == \A t \in Threads : IsInjective(transcript[t])

\* A cancellation that was answered ok survives a crash: no later drain, of
\* this process or the next, can run the text.  (A line that a crashed drain
\* had appended before the user cancelled it stays in the transcript.)
CancelledStaysGone == \A s \in cancelled :
  ~Waiting(s) /\ s \notin ToSet(disk.queue[Target[s]])

\* "A settle racing another settle can never fire the same queue twice": one
\* process life starts at most one turn with a message.
FiredOnce == \A s \in Sends : ran[s] <= 1

\* Queued messages land in the order they were accepted, whatever part of the
\* entry a crashed drain had already appended.
LandsInOrder == \A t \in tasks : \A i, j \in DOMAIN queue[t] :
  i < j /\ Landed(queue[t][j]) =>
    \E k, l \in DOMAIN transcript[t] :
      k < l /\ transcript[t][k] = queue[t][i] /\ transcript[t][l] = queue[t][j]

\* Between segments, no idle operator has a waiting message: whatever freed it
\* also drained it.
IdleIsDrained == Free /\ Draining = {} =>
  \A t \in tasks : queue[t] # <<>> => turn[Owner[t]] # None

\* A waiting message lands, or is cancelled, or its run is deleted.
QueuedLands == \A s \in Sends :
  (Waiting(s) ~> (Landed(s) \/ s \in cancelled \/ Gone(Target[s])))

-----------------------------------------------------------------------------
(* Why NothingLost, OnceInTranscript, CancelledStaysGone and FiredOnce     *)
(* hold: each part below is what one step of the code relies on.           *)

\* A send is only ever in the entry and the transcript of its own thread.
Homed == \A t \in Threads :
  \A s \in ToSet(queue[t]) \cup ToSet(disk.queue[t]) \cup ToSet(transcript[t]) :
    Target[s] = t

\* What memory holds is on disk; a send is in an entry once.
MemoryOnDisk == \A t \in Threads :
  /\ ToSet(queue[t]) \subseteq ToSet(disk.queue[t])
  /\ IsInjective(queue[t]) /\ IsInjective(disk.queue[t])

\* Between taking an entry and running it, the pass has landed all before n.
ScanLanded == scan.on /\ scan.at # None =>
  /\ ~held[scan.at].on /\ scan.n >= 1
  /\ \A i \in 1..Len(queue[scan.at]) : i < scan.n => Landed(queue[scan.at][i])

\* While run() is awaited the entry stays as it was taken, all of it landed.
HeldLanded == \A t \in Threads : held[t].on =>
  held[t].items = queue[t] /\ ToSet(queue[t]) \subseteq ToSet(transcript[t])

\* A send in steer() has no receipt, no line and no place in a queue.
SteeringFresh == \A s \in steering : ~Landed(s) /\ ~Waiting(s) /\ s \notin accepted

\* A send that started a turn has landed, and waits only until run() resolves.
RanLanded == \A s \in Sends :
  ran[s] >= 1 => Landed(s) /\ (Waiting(s) => held[Target[s]].on)

CancelledHadReceipt == cancelled \subseteq accepted

\* The inductive invariant.
IInv ==
  /\ TypeOK /\ Homed /\ MemoryOnDisk /\ ScanLanded /\ HeldLanded
  /\ SteeringFresh /\ RanLanded /\ CancelledHadReceipt
  /\ NothingLost /\ OnceInTranscript /\ CancelledStaysGone /\ FiredOnce

\* "This run is active. Stop it first.": a run is not deleted under the turn
\* that works in it.
RunningIsKept == \A b \in Bots :
  Alive(b) /\ turn[b] \in Threads => turn[b] \in tasks
=============================================================================

------------------------------ MODULE Delegations ------------------------------
(***************************************************************************)
(* Handing work to a peer: server/delegations.ts (queue, drain, retries,   *)
(* receipts), server/peer-approval.ts (the card that may gate a handoff)   *)
(* and the turn.completed subscribers of server/index.ts that drive them.  *)
(*                                                                         *)
(* A drain is an async function over a snapshot of its thread's queue.  It *)
(* waits for real only on an approval card; its other awaits are           *)
(* microtasks, in which other drains may step but no provider event, card  *)
(* answer or request is served (Quiet).                                    *)
(***************************************************************************)
EXTENDS Integers, Sequences, SequencesExt

CONSTANTS Bots, Threads, Handoffs,
          Owner,      \* the operator each thread belongs to
          Home,       \* bot.threadId, where a delegated turn runs
          Source, To, \* a handoff's source thread and target operator
          None,
          Room,       \* the thread of a crew room, which no operator owns
          MaxQueued,  \* MAX_QUEUED_PER_THREAD
          MaxBusy,    \* MAX_BUSY_ATTEMPTS
          Gates,      \* whether approvePeerComms may be on at drain time
          Rooms,      \* whether operators also work in rooms
          SilentEnds, \* whether turns end without turn.completed
          MaxCrashes

Outcomes == {"done", "failed", "denied", "busy_gave_up", "dropped"}

ASSUME DelegationsAssumption ==
  /\ Owner \in [Threads -> Bots] /\ Home \in [Bots -> Threads]
  /\ \A b \in Bots : Owner[Home[b]] = b
  /\ Source \in [Handoffs -> Threads] /\ To \in [Handoffs -> Bots]
  /\ \A h \in Handoffs : To[h] # Owner[Source[h]]
  /\ None \notin Threads \cup Handoffs \cup Outcomes /\ Room \notin Threads /\ Room # None
  /\ MaxQueued \in Nat \ {0} /\ MaxBusy \in Nat \ {0, 1} /\ MaxCrashes \in Nat
  /\ Gates \in BOOLEAN /\ Rooms \in BOOLEAN /\ SilentEnds \in BOOLEAN

VARIABLES
  turn,     \* the thread an operator's provider turn runs on, Room or None
  activity, \* bot.activity; an operator is busy unless it is idle
  pending,  \* pendingDelegations: source thread -> handoffs, saved on change
  attempts, \* item.attempts, saved with the queue
  drain,    \* thread -> its running drain
  redrain,  \* queuedRedrains
  resume,   \* thread -> the activity its open card resumes
  watch,    \* delegationWatch: target thread -> the handoff its turn runs
  receipt,  \* handoff -> its durable receipt, or None
  queued,   \* history: handoffs that were queued
  fresh,    \* history: handoffs whose queueing turn still runs
  runs,     \* history: turns started for a handoff
  lost,     \* history: handoffs that a crash cut out of a discard, without a receipt
  crashes

vars == <<turn, activity, pending, attempts, drain, redrain, resume, watch,
          receipt, queued, fresh, runs, lost, crashes>>
history == <<queued, fresh, lost, crashes>>

\* start: about to process its first item, in the call that started it; next:
\* about to process Head(todo); gate: awaits its card; allowed, denied: the card
\* was answered; ack: Head(todo) is terminal; off: not draining.
Phases   == {"off", "start", "next", "gate", "allowed", "denied", "ack"}
NoDrain  == [phase |-> "off", todo |-> <<>>, snapshot |-> {}]
Drains   == [phase : Phases, todo : Seq(Handoffs), snapshot : SUBSET Handoffs]

TypeOK ==
  /\ turn \in [Bots -> Threads \cup {Room, None}]
  /\ activity \in [Bots -> {"idle", "working", "waiting-on-you"}]
  /\ pending \in [Threads -> Seq(Handoffs)]
  /\ attempts \in [Handoffs -> 0..(MaxBusy - 1)]
  /\ drain \in [Threads -> Drains]
  /\ redrain \subseteq Threads
  /\ resume \in [Threads -> {"idle", "working"}]
  /\ watch \in [Threads -> Handoffs \cup {None}]
  /\ receipt \in [Handoffs -> Outcomes \cup {None}]
  /\ queued \subseteq Handoffs /\ fresh \subseteq queued /\ lost \subseteq Handoffs
  /\ runs \in [Handoffs -> Nat]
  /\ crashes \in 0..MaxCrashes

Init ==
  /\ turn = [b \in Bots |-> None] /\ activity = [b \in Bots |-> "idle"]
  /\ pending = [t \in Threads |-> <<>>] /\ attempts = [h \in Handoffs |-> 0]
  /\ drain = [t \in Threads |-> NoDrain] /\ redrain = {}
  /\ resume = [t \in Threads |-> "idle"] /\ watch = [t \in Threads |-> None]
  /\ receipt = [h \in Handoffs |-> None]
  /\ queued = {} /\ fresh = {} /\ lost = {} /\ runs = [h \in Handoffs |-> 0]
  /\ crashes = 0
-----------------------------------------------------------------------------
Busy(b)     == activity[b] # "idle"
Draining(t) == drain[t].phase # "off"
GateOpen(t) == drain[t].phase = "gate"
Quiet       == \A t \in Threads : drain[t].phase \in {"off", "gate"}
Current(t)  == Head(drain[t].todo)
Starting    == \E t \in Threads : drain[t].phase = "start"

\* drainDelegations for each thread of ts, over the queues q: a drain that is
\* already running is asked to look again when it ends.
NewDrain(q) == [phase |-> "start", todo |-> q, snapshot |-> ToSet(q)]
Request(ts, q) ==
  /\ drain' = [t \in Threads |-> IF t \in ts /\ ~Draining(t) /\ q[t] # <<>>
                                   THEN NewDrain(q[t]) ELSE drain[t]]
  /\ redrain' = redrain \cup {t \in ts : Draining(t)}

\* threadsWaitingOn
WaitingOn(b) == {t \in Threads :
  \E h \in ToSet(pending[t]) : To[h] = b /\ attempts[h] > 0}

\* finalizeDelegationWatch and discardDelegations, as receipts.
Finalized(t, outcome) == [h \in Handoffs |->
  IF watch[t] = h THEN outcome ELSE receipt[h]]
Unwatch(t) == watch' = [watch EXCEPT ![t] = None]
-----------------------------------------------------------------------------
(* Turns.                                                                  *)

\* A user, a routine or a room starts a turn on an idle operator; so does the
\* steer drain, whose steps interleave with those of the drains here.
StartTurn(b, t) ==
  /\ ~Starting /\ ~Busy(b)
  /\ (t \in Threads /\ Owner[t] = b) \/ (t = Room /\ Rooms)
  /\ turn' = [turn EXCEPT ![b] = t] /\ activity' = [activity EXCEPT ![b] = "working"]
  /\ UNCHANGED <<pending, attempts, drain, redrain, resume, watch, receipt, runs,
                 history>>

\* delegate_bot, called by the turn that runs on the source thread.
Queue(h) == LET t == Source[h] IN
  /\ Quiet /\ h \notin queued /\ turn[Owner[t]] = t
  /\ Len(pending[t]) < MaxQueued
  /\ pending' = [pending EXCEPT ![t] = Append(@, h)]
  /\ queued' = queued \cup {h} /\ fresh' = fresh \cup {h}
  /\ UNCHANGED <<turn, activity, attempts, drain, redrain, resume, watch, receipt,
                 runs, lost, crashes>>

\* What ends with a turn of b, with it the freshness of what it queued.
Ended(b) ==
  /\ turn' = [turn EXCEPT ![b] = None] /\ activity' = [activity EXCEPT ![b] = "idle"]
  /\ fresh' = {h \in fresh : Owner[Source[h]] # b}

\* turn.completed in its subscribers' order: the fold idles the operator and
\* settles the watch, the source's queue is drained (or dropped when the turn
\* failed or was stopped), and those waiting on the operator are drained.
\* Mutated forms: no retry for those; nobody writes the peer's receipt; what is
\* dropped stays queued.
CompleteNoRetry(b, ok) == LET t == turn[b] IN
  /\ Quiet /\ t \in Threads /\ Ended(b) /\ Unwatch(t)
  /\ IF ok
       THEN /\ receipt' = Finalized(t, "done") /\ UNCHANGED pending
            /\ Request({t}, pending)
       ELSE /\ receipt' = [h \in Handoffs |-> IF h \in ToSet(pending[t])
                             THEN "dropped" ELSE Finalized(t, "failed")[h]]
            /\ pending' = [pending EXCEPT ![t] = <<>>]
            /\ UNCHANGED <<drain, redrain>>
  /\ UNCHANGED <<attempts, resume, queued, runs, lost, crashes>>
Complete(b, ok) == LET t == turn[b] IN
  /\ Quiet /\ t \in Threads /\ Ended(b) /\ Unwatch(t)
  /\ IF ok
       THEN /\ receipt' = Finalized(t, "done") /\ UNCHANGED pending
            /\ Request({t} \cup WaitingOn(b), pending)
       ELSE /\ receipt' = [h \in Handoffs |-> IF h \in ToSet(pending[t])
                             THEN "dropped" ELSE Finalized(t, "failed")[h]]
            /\ pending' = [pending EXCEPT ![t] = <<>>]
            /\ Request(WaitingOn(b) \ {t}, pending)
  /\ UNCHANGED <<attempts, resume, queued, runs, lost, crashes>>

\* A room turn settles on the room's thread, which store.botByThread does not
\* know: nothing is drained.
CompleteRoom(b) ==
  /\ Quiet /\ turn[b] = Room /\ Ended(b)
  /\ UNCHANGED <<pending, attempts, drain, redrain, resume, watch, receipt, queued,
                 runs, lost, crashes>>

\* A failed dispatch or the stall watchdog: idle, the watch settled, and no
\* turn.completed, so no drain and no discard.  Mutated form: the watch stays.
EndSilentlyWatched(b) ==
  /\ SilentEnds /\ Quiet /\ turn[b] \in Threads /\ Ended(b)
  /\ UNCHANGED <<pending, attempts, drain, redrain, resume, watch, receipt, queued,
                 runs, lost, crashes>>
EndSilently(b) == LET t == turn[b] IN
  /\ SilentEnds /\ Quiet /\ t \in Threads /\ Ended(b)
  /\ receipt' = Finalized(t, "failed") /\ Unwatch(t)
  /\ UNCHANGED <<pending, attempts, drain, redrain, resume, queued, runs, lost, crashes>>
-----------------------------------------------------------------------------
(* The drain.                                                              *)

Advance(t)  == [drain EXCEPT ![t].phase = "next", ![t].todo = Tail(@)]
Enter(t, p) == [drain EXCEPT ![t].phase = p]

\* The target is busy: the handoff stays queued for a retry, or gives up.  The
\* last increment, which the file need not hold when the process dies, is left
\* out: what gave up never reads it.
FoundBusy(t) == LET h == Current(t) IN
  /\ IF attempts[h] + 1 < MaxBusy
       THEN /\ attempts' = [attempts EXCEPT ![h] = @ + 1]
            /\ drain' = Advance(t) /\ UNCHANGED receipt
       ELSE /\ drain' = Enter(t, "ack") /\ UNCHANGED attempts
            /\ receipt' = [receipt EXCEPT ![h] = "busy_gave_up"]
  /\ UNCHANGED <<turn, activity, pending, redrain, resume, watch, runs, history>>

\* runDelegatedTurn: the watch is set before startTurn, which rejects on a busy
\* target, and whose rejection consumes the watch.
Run(t) == LET h == Current(t)  b == To[h]  home == Home[b] IN
  /\ drain' = Enter(t, "ack")
  /\ \/ /\ ~Busy(b)
        /\ watch' = [watch EXCEPT ![home] = h]
        /\ turn' = [turn EXCEPT ![b] = home]
        /\ activity' = [activity EXCEPT ![b] = "working"]
        /\ runs' = [runs EXCEPT ![h] = @ + 1] /\ UNCHANGED receipt
     \/ /\ Busy(b) \/ SilentEnds
        /\ Unwatch(home)
        /\ receipt' = [receipt EXCEPT ![h] = "failed"]
        /\ UNCHANGED <<turn, activity, runs>>
  /\ UNCHANGED <<pending, attempts, redrain, resume, history>>

\* requestPeerApproval: the source waits on you, and resumes what it did; a
\* second card of an already waiting source is taken to come from a turn.
OpenGate(t) == LET b == Owner[t] IN
  /\ Gates
  /\ drain' = Enter(t, "gate")
  /\ resume' = [resume EXCEPT ![t] = IF activity[b] = "waiting-on-you" THEN "working"
                                     ELSE activity[b]]
  /\ activity' = [activity EXCEPT ![b] = "waiting-on-you"]
  /\ UNCHANGED <<turn, pending, attempts, redrain, watch, receipt, runs, history>>

\* processOne, up to its first await.
Process(t) ==
  /\ drain[t].phase = "start" \/ (drain[t].phase = "next" /\ ~Starting)
  /\ drain[t].todo # <<>>
  /\ IF Busy(To[Current(t)]) THEN FoundBusy(t) ELSE OpenGate(t) \/ Run(t)

\* The user, the 15-minute timer or an interrupt answers the card.
Answer(t, verdict) == LET b == Owner[t] IN
  /\ Quiet /\ GateOpen(t) /\ verdict \in {"allowed", "denied"}
  /\ drain' = Enter(t, verdict)
  /\ activity' = [activity EXCEPT ![b] = IF @ = "waiting-on-you" THEN resume[t] ELSE @]
  /\ UNCHANGED <<turn, pending, attempts, redrain, resume, watch, receipt, runs,
                 history>>

\* After an allow everything is read again.  Mutated form: it is not.
AllowedStale(t) == ~Starting /\ drain[t].phase = "allowed" /\ Run(t)
Allowed(t) ==
  /\ ~Starting /\ drain[t].phase = "allowed"
  /\ IF Busy(To[Current(t)]) THEN FoundBusy(t) ELSE Run(t)

Denied(t) ==
  /\ ~Starting /\ drain[t].phase = "denied" /\ drain' = Enter(t, "ack")
  /\ receipt' = [receipt EXCEPT ![Current(t)] = "denied"]
  /\ UNCHANGED <<turn, activity, pending, attempts, redrain, resume, watch, runs,
                 history>>

\* acknowledgeDelegation, by id: the queue may have changed meanwhile.
\* Mutated forms: it takes the first of the queue, whatever that is; it leaves a
\* queue alone that got something new.
AcknowledgeFirst(t) ==
  /\ ~Starting /\ drain[t].phase = "ack" /\ drain' = Advance(t)
  /\ pending' = [pending EXCEPT ![t] = IF @ = <<>> THEN @ ELSE Tail(@)]
  /\ UNCHANGED <<turn, activity, attempts, redrain, resume, watch, receipt, runs,
                 history>>
AcknowledgeUnlessNew(t) ==
  /\ ~Starting /\ drain[t].phase = "ack" /\ drain' = Advance(t)
  /\ pending' = [pending EXCEPT ![t] = IF ToSet(@) \subseteq drain[t].snapshot
                   THEN SelectSeq(@, LAMBDA h : h # Current(t)) ELSE @]
  /\ UNCHANGED <<turn, activity, attempts, redrain, resume, watch, receipt, runs,
                 history>>
Acknowledge(t) ==
  /\ ~Starting /\ drain[t].phase = "ack" /\ drain' = Advance(t)
  /\ pending' = [pending EXCEPT ![t] = RemoveFirst(@, Current(t))]
  /\ UNCHANGED <<turn, activity, attempts, redrain, resume, watch, receipt, runs,
                 history>>

\* The end of a drain: look again if asked to, or if there is something new.
\* Mutated form: requests made meanwhile are forgotten.
FinishForgets(t) ==
  /\ ~Starting /\ drain[t].phase = "next" /\ drain[t].todo = <<>>
  /\ drain' = [drain EXCEPT ![t] = NoDrain] /\ redrain' = redrain \ {t}
  /\ UNCHANGED <<turn, activity, pending, attempts, resume, watch, receipt, runs,
                 history>>
Finish(t) ==
  /\ ~Starting /\ drain[t].phase = "next" /\ drain[t].todo = <<>>
  /\ LET again == t \in redrain \/ ToSet(pending[t]) \ drain[t].snapshot # {} IN
       drain' = [drain EXCEPT ![t] = IF again /\ pending[t] # <<>>
                                       THEN NewDrain(pending[t]) ELSE NoDrain]
  /\ redrain' = redrain \ {t}
  /\ UNCHANGED <<turn, activity, pending, attempts, resume, watch, receipt, runs,
                 history>>
-----------------------------------------------------------------------------
\* reloadProviders settles every busy operator; only its Home watch is settled.
Reload ==
  /\ SilentEnds /\ Quiet /\ \E b \in Bots : Busy(b)
  /\ turn' = [b \in Bots |-> None] /\ activity' = [b \in Bots |-> "idle"]
  /\ fresh' = {}
  /\ receipt' = [h \in Handoffs |->
       IF \E b \in Bots : Busy(b) /\ watch[Home[b]] = h THEN "failed" ELSE receipt[h]]
  /\ watch' = [t \in Threads |-> IF \E b \in Bots : Busy(b) /\ Home[b] = t THEN None
                                 ELSE watch[t]]
  /\ UNCHANGED <<pending, attempts, drain, redrain, resume, queued, runs, lost, crashes>>

\* A crash, with the queues q in the file; the next process drains them.
Reborn(q) ==
  /\ crashes < MaxCrashes /\ crashes' = crashes + 1
  /\ turn' = [b \in Bots |-> None] /\ activity' = [b \in Bots |-> "idle"]
  /\ pending' = q
  /\ drain' = [t \in Threads |-> IF q[t] = <<>> THEN NoDrain ELSE NewDrain(q[t])]
  /\ redrain' = {} /\ watch' = [t \in Threads |-> None]
  /\ fresh' = {}
  /\ UNCHANGED <<attempts, resume, queued, runs>>

\* Between two handlers.
Restart == Reborn(pending) /\ UNCHANGED <<receipt, lost>>

\* Inside Complete(b, FALSE), before the emptied queue reaches the file.
CutBefore(b) == LET t == turn[b] IN
  /\ Quiet /\ t \in Threads /\ Reborn(pending)
  /\ receipt' = Finalized(t, "failed") /\ UNCHANGED lost

\* discardDelegations saves the emptied queue, then writes a receipt for each handoff: a
\* crash after n of them leaves the others nowhere.
CutShort(b, n) == LET t == turn[b] IN
  /\ Quiet /\ t \in Threads /\ n < Len(pending[t])
  /\ LET told == {pending[t][i] : i \in 1..n} IN
     /\ receipt' = [h \in Handoffs |-> IF h \in told THEN "dropped" ELSE Finalized(t, "failed")[h]]
     /\ lost' = lost \cup (ToSet(pending[t]) \ told)
  /\ Reborn([pending EXCEPT ![t] = <<>>])

\* Inside Reload, after some of the operators were settled.
CutReload == \E settled \in SUBSET {b \in Bots : Busy(b)} :
  /\ SilentEnds /\ Quiet /\ Reborn(pending) /\ UNCHANGED lost
  /\ receipt' = [h \in Handoffs |->
       IF \E b \in settled : watch[Home[b]] = h THEN "failed" ELSE receipt[h]]

Crash ==
  \/ Restart \/ CutReload
  \/ \E b \in Bots : CutBefore(b) \/ \E n \in 0..MaxQueued : CutShort(b, n)

DrainStep(t) == Process(t) \/ Allowed(t) \/ Denied(t) \/ Acknowledge(t) \/ Finish(t)

Next ==
  \/ \E b \in Bots, t \in Threads \cup {Room} : StartTurn(b, t)
  \/ \E h \in Handoffs : Queue(h)
  \/ \E b \in Bots, ok \in BOOLEAN : Complete(b, ok)
  \/ \E b \in Bots : CompleteRoom(b) \/ EndSilently(b)
  \/ \E t \in Threads, verdict \in {"allowed", "denied"} : Answer(t, verdict)
  \/ \E t \in Threads : \/ Process(t) \/ Allowed(t) \/ Denied(t)
                        \/ Acknowledge(t) \/ Finish(t)
  \/ Reload \/ Crash

Spec == Init /\ [][Next]_vars

\* Microtasks run; every turn ends, by its provider or the watchdog; every card
\* is answered, by a human or its timer.
FairSpec ==
  /\ Spec
  /\ \A t \in Threads : WF_vars(DrainStep(t))
  /\ \A b \in Bots : SF_vars(\E ok \in BOOLEAN : Complete(b, ok)) /\ SF_vars(CompleteRoom(b))
  /\ \A t \in Threads : SF_vars(\E verdict \in {"allowed", "denied"} : Answer(t, verdict))
-----------------------------------------------------------------------------
(* What must hold.                                                         *)

Watched(h) == \E t \in Threads : watch[t] = h
Pending(h) == h \in ToSet(pending[Source[h]])

\* A handoff that was not run has a place in the file or a receipt, whatever crashes; but
\* for those a crash in the midst of discardDelegations took off the queue unreported.
NeverForgotten == \A h \in queued :
  Pending(h) \/ runs[h] > 0 \/ receipt[h] # None \/ h \in lost

\* A handoff runs once, and once more at most for each crash that hits between
\* its start and its acknowledgement.
RunsOnce == \A h \in Handoffs : runs[h] <= 1 + crashes

\* A handoff that waited for its target is retried when the target is free.
RequeuedIsRetried == Quiet =>
  \A h \in queued : Pending(h) /\ attempts[h] > 0 =>
    Busy(To[h]) \/ Draining(Source[h])

\* A handoff fails only after it ran: none is started on a busy peer.
OnlyRunsFail == \A h \in Handoffs : receipt[h] = "failed" => runs[h] > 0

\* What check_delegation says of a handoff.
Status == [h \in Handoffs |->
  IF receipt[h] # None THEN receipt[h] ELSE IF Watched(h) THEN "running"
  ELSE IF Pending(h) THEN "queued" ELSE "new"]
Lifecycle == INSTANCE HandoffLifecycle WITH
  Target <- To, status <- Status, Provisional <- {"dropped"}

\* While the process lives, queueing, drains, cards and settling turns implement
\* the lifecycle.
ImplementsLifecycle == Lifecycle!Init /\ [][crashes' = 0 => Lifecycle!Move]_Status

\* Every queued handoff gets its receipt.
HandoffEnds == \A h \in Handoffs : (h \in queued) ~> (receipt[h] # None)

\* "Draining them early would start the peer before the delegator finished."
FreshWaitsForSource == \A t \in Threads : watch[t] \notin fresh

\* "A turn that failed or was interrupted drops its queue rather than firing
\* it later."
DroppedNeverRuns == \A t \in Threads :
  watch[t] # None => receipt[watch[t]] # "dropped"
=============================================================================

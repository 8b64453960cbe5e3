------------------------------- MODULE Routines -------------------------------
(***************************************************************************)
(* Cadences and webhooks of one operator: the scheduler of                 *)
(* server/routines.ts, the confirmation cards of routine-requests.ts and   *)
(* the deliveries of webhooks.ts, that write three files: routines.json,   *)
(* webhooks.json and the transcript.  A handler is synchronous between two *)
(* writes: only a crash comes between its steps.                           *)
(***************************************************************************)
EXTENDS Naturals, Sequences, FiniteSets

CONSTANTS Cards, Deliveries, None,
          CardActs,   \* what operators propose
          MaxDue,     \* occurrences of the cadence that come
          MaxRuns,    \* runs in all: fewer than MAX_RUNS, so that none is evicted
          MaxRevs,    \* changes of the cadence, beside its occurrences
          MaxPending, \* MAX_PENDING_RUNS of a webhook
          MaxFaults,  \* crashes of the server, reloads of its providers, stalls of turns
          MaxFails    \* writes that fail

\* What asks for a run: an occurrence, a request of a person (in the calendar, or by
\* confirming a card) or a delivery.
Causes == ({"due"} \X (1..MaxDue)) \cup ({"ask"} \X Cards) \cup ({"hook"} \X Deliveries)

ASSUME RoutinesAssumption ==
  /\ CardActs \subseteq {"run_now", "pause", "resume", "delete"} /\ None \notin Causes
  /\ {MaxDue, MaxRuns, MaxRevs, MaxPending, MaxFaults, MaxFails} \subseteq Nat

VARIABLES
  mem,     \* RoutineManager: the cadence, its runs, the receipts of applied cards
  disk,    \* routines.json
  hook,    \* WebhookManager: the webhook and its deliveries
  hookdisk,\* webhooks.json
  card,    \* confirmation cards, in the transcript
  turn,    \* the turn that makes the operator busy, every turn at work, release timers
  bot,     \* the operator: here or gone
  call,    \* the synchronous handler under way, and where it is
  server, clock,
  ledger,  \* history: turns begun, card actions committed
  limits   \* how often the bounded events happened

vars == <<mem, disk, hook, hookdisk, card, turn, bot, call, server, clock, ledger, limits>>
files == <<mem, disk, hook, hookdisk>>

Status == {"none", "queued", "running", "ended", "cancelled", "missed"}
Acts == {"run_now", "pause", "resume", "delete"}
\* A turn that the watchdog gave up is "stopping"; grace: its release timer is armed; lost:
\* its provider was replaced, nobody hears it; orphans (history): runs that nothing ends.
Stages == {"none", "setup", "run", "stopping"}
TurnBook == [of : Causes \cup {None}, at : [Causes -> Stages],
             grace : SUBSET Causes, lost : SUBSET Causes, orphans : SUBSET Causes]
Steps == {"idle", "pass", "start", "settle", "forget", "enqueue", "finish", "hooks", "drop"}

Book == [state : {"on", "off", "gone"}, next : 0..(MaxDue + 1), rev : Nat,
         run : [Causes -> Status], order : Seq(Causes), receipts : SUBSET Cards]
Hooks == [state : {"on", "off", "gone"}, got : [Deliveries -> {"none", "pending", "done"}]]

TypeOK ==
  /\ mem \in Book /\ disk \in Book /\ hook \in Hooks /\ hookdisk \in Hooks
  /\ card \in [Cards -> [state : {"none", "open", "allow", "deny"}, act : Acts, rev : Nat]]
  /\ turn \in TurnBook
  /\ bot \in {"here", "gone"} /\ server \in {"up", "down"} /\ clock \in 0..MaxDue
  /\ call \in [at : Steps, of : Causes \cup Cards \cup Deliveries \cup {None}, n : Nat]
  /\ ledger \in [began : [Causes -> Nat], applied : [Cards -> Nat]]
  /\ limits \in [fault : 0..MaxFaults, fail : 0..MaxFails,
                 rev : Nat]

Idle == [at |-> "idle", of |-> None, n |-> 0]
NoTurn == [of |-> None, at |-> [c \in Causes |-> "none"], grace |-> {}, lost |-> {}, orphans |-> {}]

Init ==
  /\ mem = [state |-> "on", next |-> 1, rev |-> 0, run |-> [c \in Causes |-> "none"],
            order |-> <<>>, receipts |-> {}]
  /\ disk = mem /\ hook = [state |-> "on", got |-> [d \in Deliveries |-> "none"]]
  /\ hookdisk = hook /\ turn = NoTurn /\ bot = "here" /\ call = Idle
  /\ card = [q \in Cards |-> [state |-> "none", act |-> "run_now", rev |-> 0]]
  /\ server = "up" /\ clock = 0
  /\ ledger = [began |-> [c \in Causes |-> 0], applied |-> [q \in Cards |-> 0]]
  /\ limits = [fault |-> 0, fail |-> 0, rev |-> 0]
-----------------------------------------------------------------------------
(* Files.  save writes the whole of memory; commitMutation restores memory  *)
(* when that throws, the other operations leave it ahead of the file.       *)

Faults == limits.fault < MaxFaults /\ limits' = [limits EXCEPT !.fault = @ + 1]
CanFail == limits.fail < MaxFails
Fails == limits' = [limits EXCEPT !.fail = @ + 1]
Goto(at, of, n) == call' = [at |-> at, of |-> of, n |-> n]
Ready == server = "up" /\ call = Idle

Saved(m)  == mem' = m /\ disk' = m
Unsaved(m) == CanFail /\ mem' = m /\ UNCHANGED disk
Unwritten == UNCHANGED <<mem, disk>>

\* A change of the cadence stamps updatedAt, which cards are compared with.
CanStamp == limits.rev < MaxRevs + Cardinality({n \in 1..MaxDue : mem.run[<<"due", n>>] # "none"})
Stamped(m) == [m EXCEPT !.rev = limits.rev + 1]
Stamps == limits' = [limits EXCEPT !.rev = @ + 1]
FailsStamped == limits' = [limits EXCEPT !.fail = @ + 1, !.rev = @ + 1]

Pushed(m, c, status) == [m EXCEPT !.run[c] = status, !.order = Append(@, c)]
Marked(m, which, status) ==
  [m EXCEPT !.run = [c \in Causes |-> IF c \in which THEN status ELSE @[c]]]
Active(c) == mem.run[c] = "running"
Queued(c) == mem.run[c] = "queued"
OfCadence(c) == c[1] # "hook"
\* The end of a run's turn.  Mutated form: of one that was cancelled, too.
EndedAnyway(c) == [mem EXCEPT !.run[c] = "ended"]
Ended(c) == [mem EXCEPT !.run[c] = IF @ = "running" THEN "ended" ELSE @]
-----------------------------------------------------------------------------
(* tick: what is due is queued, then the queue is visited, newest first.    *)

\* An occurrence more than 12 hours late is only recorded.  Mutated form: the cadence
\* does not move on.
NotAdvanced(m) == Stamped(m)
Advanced(m) == Stamped([m EXCEPT !.next = clock + 1])

CanPush == Len(mem.order) < MaxRuns

Due == mem.state = "on" /\ mem.next \in 1..clock /\ CanPush

TickDue ==
  /\ Ready /\ Due
  /\ \E status \in {"queued", "missed"} :
       LET m == Advanced(Pushed(mem, <<"due", mem.next>>, status)) IN
       \/ Saved(m) /\ Goto("pass", None, Len(m.order)) /\ Stamps
       \/ Unsaved(m) /\ UNCHANGED call /\ FailsStamped
  /\ UNCHANGED <<hook, hookdisk, card, turn, bot, server, clock, ledger>>

TickQueue ==
  /\ Ready /\ ~Due /\ turn.of = None /\ \E c \in Causes : Queued(c)
  /\ Goto("pass", None, Len(mem.order))
  /\ UNCHANGED <<files, card, turn, bot, server, clock, ledger, limits>>

\* runtimeBotState says "missing".
Missing == bot = "gone"

\* A run whose "running" could not be saved runs nowhere.
Orphaned(c) == turn' = [turn EXCEPT !.orphans = @ \cup {c}]

\* One run of the copied list.  Nothing but its own steps runs before the pass ends; a
\* write that fails ends it (as an unhandled rejection: under plain Node that is a Crash).
Visit ==
  /\ call.at = "pass"
  /\ LET upcoming == {i \in 1..call.n : Queued(mem.order[i])} IN
     \/ /\ upcoming = {} \/ turn.of # None
        /\ call' = Idle /\ UNCHANGED <<mem, disk, limits, turn>>
     \/ /\ turn.of = None
        /\ \E i \in upcoming :
             /\ \A k \in upcoming : k <= i
             /\ LET c == mem.order[i]
                    m == [mem EXCEPT !.run[c] = IF Missing THEN "ended" ELSE "running"] IN
                \/ /\ Saved(m) /\ UNCHANGED <<limits, turn>>
                   /\ IF Missing THEN Goto("pass", None, i - 1) ELSE Goto("start", c, i - 1)
                \/ Unsaved(m) /\ Fails /\ Orphaned(c) /\ call' = Idle
  /\ UNCHANGED <<hook, hookdisk, card, bot, server, clock, ledger>>

\* startTurn: it reserves the operator, or throws and failThread ends the run.
Begin ==
  /\ call.at = "start"
  /\ LET c == call.of IN
     \/ /\ turn' = [turn EXCEPT !.of = c, !.at[c] = "setup"] /\ Goto("pass", None, call.n)
        /\ ledger' = [ledger EXCEPT !.began[c] = @ + 1] /\ UNCHANGED <<mem, disk, limits>>
     \/ /\ UNCHANGED <<turn, ledger>>
        /\ \/ Saved(Ended(c)) /\ Goto("pass", None, call.n) /\ UNCHANGED limits
           \/ Unsaved(Ended(c)) /\ Fails /\ call' = Idle
  /\ UNCHANGED <<hook, hookdisk, card, bot, server, clock>>
-----------------------------------------------------------------------------
(* The turns of runs.  The operator may have been made idle under one: it   *)
(* goes on, and what ends it makes the operator idle whoever's it is then.  *)

\* Stop does not reach a turn that is being set up: it starts even if its run was
\* cancelled meanwhile, or the operator made idle.
SetupEnds(c) ==
  /\ Ready /\ turn.at[c] = "setup" /\ turn' = [turn EXCEPT !.at[c] = "run"]
  /\ UNCHANGED <<files, card, bot, call, server, clock, ledger, limits>>

\* What ends a run writes it down, if it still runs.
EndSaved(c) ==
  /\ UNCHANGED limits
  /\ (Ended(c) = mem /\ Unwritten) \/ (Ended(c) # mem /\ Saved(Ended(c)))
EndUnsaved(c) == Ended(c) # mem /\ Unsaved(Ended(c)) /\ Fails

\* The turn is over, and the operator idle.
OverAndIdle(c) == turn' = [turn EXCEPT !.of = None, !.at[c] = "none", !.lost = @ \ {c}]

\* The dispatch fails: the operator is idle before onDispatchError ends the run.
SetupFails(c) ==
  /\ Ready /\ turn.at[c] = "setup" /\ OverAndIdle(c)
  /\ EndSaved(c) \/ EndUnsaved(c)
  /\ UNCHANGED <<hook, hookdisk, card, bot, call, server, clock, ledger>>

AtWork(c) == turn.at[c] \in {"run", "stopping"}

\* turn.completed: handleRuntimeEvent comes first in the fold; if its save throws, the
\* bus drops the listener's exception and nobody makes the operator idle.
TurnEnds(c) ==
  /\ Ready /\ AtWork(c) /\ c \notin turn.lost
  /\ \/ EndSaved(c) /\ OverAndIdle(c)
     \/ EndUnsaved(c) /\ turn' = [turn EXCEPT !.at[c] = "none"]
  /\ UNCHANGED <<hook, hookdisk, card, bot, call, server, clock, ledger>>

\* onStall, for a turn of which nothing is heard: it is interrupted, the timer armed.
Stall(c) ==
  /\ Ready /\ turn.at[c] = "run" /\ Faults
  /\ turn' = [turn EXCEPT !.at[c] = "stopping", !.grace = @ \cup {c}]
  /\ UNCHANGED <<files, card, bot, call, server, clock, ledger>>

\* The release timer makes the operator idle, whatever it is busy with by now.  Nothing
\* ends the run.
Release(c) ==
  /\ Ready /\ c \in turn.grace /\ turn' = [turn EXCEPT !.of = None, !.grace = @ \ {c}]
  /\ UNCHANGED <<files, card, bot, call, server, clock, ledger, limits>>

\* A process that was interrupted, or that nobody hears, goes without turn.completed.
Dies(c) ==
  /\ Ready /\ (turn.at[c] = "stopping" \/ (turn.at[c] = "run" /\ c \in turn.lost))
  /\ turn' = [turn EXCEPT !.at[c] = "none", !.lost = @ \ {c},
                         !.orphans = @ \cup {d \in {c} : Active(d)}]
  /\ UNCHANGED <<files, card, bot, call, server, clock, ledger, limits>>

\* reloadProviders settles the operator.  Its processes are killed without turn.completed;
\* a turn that is being set up goes on, with the provider it has.
ReloadProviders ==
  /\ Ready /\ Faults
  /\ turn.of # None \/ \E c \in Causes : turn.at[c] # "none"
  /\ LET killed == {c \in Causes : AtWork(c) /\ c \notin turn.lost} IN
     turn' = [turn EXCEPT !.of = None, !.at = [c \in Causes |-> IF c \in killed THEN "none" ELSE @[c]],
                          !.lost = @ \cup {c \in Causes : turn.at[c] = "setup"}, !.orphans = @ \cup {c \in killed : Active(c)}]
  /\ UNCHANGED <<files, card, bot, call, server, clock, ledger>>
-----------------------------------------------------------------------------
(* Calendar routes.                                                         *)

\* What update and remove do to the runs of the cadence that have not started.
Dropped(m) == Marked(m, {c \in Causes : OfCadence(c) /\ m.run[c] = "queued"}, "cancelled")

\* Every next state of the cadence that a person or a card asks for.
Applied(m, act, c) ==
  CASE act = "run_now" -> Pushed(m, c, "queued")
    [] act = "pause"   -> Dropped(Stamped([m EXCEPT !.state = "off", !.next = 0]))
    [] act = "resume"  -> Stamped([m EXCEPT !.state = "on", !.next = clock + 1])
    [] act = "delete"  -> Dropped([m EXCEPT !.state = "gone", !.next = 0])

\* update refuses for an operator that is gone.
Stamping(act) ==
  IF act \in {"pause", "resume"} THEN bot = "here" /\ CanStamp /\ Stamps ELSE UNCHANGED limits

\* runNow, update and remove: all of it reaches the file, or none.  (An edit that
\* changes nothing else moves the next occurrence, as resume does.)
Calendar(act, q) ==
  /\ Ready /\ mem.state # "gone"
  /\ act = "run_now" => CanPush /\ mem.run[<<"ask", q>>] = "none" /\ card[q].state = "none"
  /\ Saved(Applied(mem, act, <<"ask", q>>)) /\ Stamping(act)
  /\ UNCHANGED <<hook, hookdisk, card, turn, bot, call, server, clock, ledger>>

\* cancelRun.  The interrupt that follows changes nothing here: the turn ends when
\* it ends.
Cancel(c) ==
  /\ Ready /\ mem.run[c] \in {"queued", "running"}
  /\ LET m == [mem EXCEPT !.run[c] = "cancelled"] IN
     (Saved(m) /\ UNCHANGED limits) \/ (Unsaved(m) /\ Fails)
  /\ UNCHANGED <<hook, hookdisk, card, turn, bot, call, server, clock, ledger>>

\* DELETE of the operator: RoutineManager.disableForBot, WebhookManager.disableForBot,
\* then the operator itself.
DropCadence ==
  /\ Ready /\ bot # "gone" /\ CanStamp
  /\ LET off == IF mem.state = "on" THEN Stamped([mem EXCEPT !.state = "off", !.next = 0]) ELSE mem
         m == Marked(off, {c \in Causes : mem.run[c] \in {"queued", "running"}}, "cancelled") IN
     \/ (IF m = mem THEN Unwritten ELSE Saved(m)) /\ Goto("drop", None, 0) /\ Stamps
     \/ m # mem /\ Unsaved(m) /\ FailsStamped /\ UNCHANGED call
  /\ UNCHANGED <<hook, hookdisk, card, turn, bot, server, clock, ledger>>

DropHook ==
  /\ call.at = "drop" /\ call' = Idle
  /\ hook' = [hook EXCEPT !.state = IF @ = "on" THEN "off" ELSE @]
  /\ \/ hookdisk' = hook' /\ bot' = "gone" /\ UNCHANGED limits
     \/ CanFail /\ Fails /\ UNCHANGED <<hookdisk, bot>>
  /\ UNCHANGED <<mem, disk, card, turn, server, clock, ledger>>
-----------------------------------------------------------------------------
(* Confirmation cards.                                                      *)

\* propose: the card remembers the revision it shows.
Propose(q, act) ==
  /\ Ready /\ bot # "gone" /\ mem.state # "gone" /\ card[q].state = "none"
  /\ mem.run[<<"ask", q>>] = "none"
  /\ card' = [card EXCEPT ![q] = [state |-> "open", act |-> act, rev |-> mem.rev]]
  /\ UNCHANGED <<files, turn, bot, call, server, clock, ledger, limits>>

\* The revision of a settled card is not read again.
Settles(q, answer) == card' = [card EXCEPT ![q].state = answer, ![q].rev = 0]

\* resolve.  A receipt settles the card as applied, whatever the click says.
Recover(q) ==
  /\ Ready /\ card[q].state = "open" /\ q \in mem.receipts
  /\ Goto("settle", q, 0)
  /\ UNCHANGED <<files, card, turn, bot, server, clock, ledger, limits>>

Deny(q) ==
  /\ Ready /\ card[q].state = "open" /\ q \notin mem.receipts
  /\ Settles(q, "deny")
  /\ UNCHANGED <<files, turn, bot, call, server, clock, ledger, limits>>

\* The mutation of the cadence and the receipt reach the file in one write.  Mutated
\* form: without the receipt.
ReceiptLost(m, q) == m
Receipted(m, q) == [m EXCEPT !.receipts = @ \cup {q}]

Allow(q) ==
  /\ Ready /\ card[q].state = "open" /\ q \notin mem.receipts
  /\ mem.state # "gone" /\ card[q].rev = mem.rev /\ (card[q].act = "run_now" => CanPush)
  /\ Saved(Receipted(Applied(mem, card[q].act, <<"ask", q>>), q)) /\ Stamping(card[q].act)
  /\ Goto("settle", q, 0) /\ ledger' = [ledger EXCEPT !.applied[q] = @ + 1]
  /\ UNCHANGED <<hook, hookdisk, card, turn, bot, server, clock>>

\* settleApplied: the transcript, then the receipt goes.  If the transcript's write
\* fails the card is held open; a receipt that stays is redundant.
Settle ==
  /\ call.at = "settle"
  /\ \/ Settles(call.of, "allow") /\ Goto("forget", call.of, 0) /\ UNCHANGED limits
     \/ CanFail /\ Fails /\ call' = Idle /\ UNCHANGED card
  /\ UNCHANGED <<files, turn, bot, server, clock, ledger>>

Forget ==
  /\ call.at = "forget" /\ call' = Idle
  /\ \/ Saved([mem EXCEPT !.receipts = @ \ {call.of}]) /\ UNCHANGED limits
     \/ CanFail /\ Fails /\ UNCHANGED <<mem, disk>>
  /\ UNCHANGED <<hook, hookdisk, card, turn, bot, server, clock, ledger>>

\* A second answer to a settled card, whose receipt may have stayed.
AnswerAgain(q) ==
  /\ Ready /\ card[q].state \in {"allow", "deny"} /\ q \in mem.receipts
  /\ Saved([mem EXCEPT !.receipts = @ \ {q}])
  /\ UNCHANGED <<hook, hookdisk, card, turn, bot, call, server, clock, ledger, limits>>
-----------------------------------------------------------------------------
(* Webhooks: the intent, the run, then the receipt of the delivery.         *)

PendingRuns == {d \in Deliveries : mem.run[<<"hook", d>>] \in {"queued", "running"}}

\* The run of a delivery is looked for by the delivery's id.  Mutated form: its intent
\* counts as its run.
KnownByIntent(c) == hook.got[c[2]] # "none"
Known(c) == mem.run[c] # "none"

\* receive, of a first copy or one that repeats a pending delivery.  A committed one is
\* answered as a duplicate.
Receive(d) ==
  /\ Ready /\ hook.state = "on" /\ bot # "gone" /\ (Known(<<"hook", d>>) \/ CanPush)
  /\ \/ /\ hook.got[d] = "none"
        /\ Cardinality(PendingRuns) < MaxPending
        /\ hook' = [hook EXCEPT !.got[d] = "pending"] /\ hookdisk' = hook'
        /\ Goto("enqueue", d, 0)
     \/ /\ hook.got[d] = "pending" /\ Goto("enqueue", d, 0)
        /\ UNCHANGED <<hook, hookdisk>>
  /\ UNCHANGED <<mem, disk, card, turn, bot, server, clock, ledger, limits>>

\* enqueueWebhook: a run that is there is returned as it is.
Enqueue ==
  /\ call.at = "enqueue"
  /\ LET c == <<"hook", call.of>> IN
     \/ Known(c) /\ Goto("finish", call.of, 0) /\ UNCHANGED <<mem, disk, limits>>
     \/ ~Known(c) /\ Saved(Pushed(mem, c, "queued")) /\ Goto("finish", call.of, 0) /\ UNCHANGED limits
     \/ ~Known(c) /\ Unsaved(Pushed(mem, c, "queued")) /\ Fails /\ call' = Idle
  /\ UNCHANGED <<hook, hookdisk, card, turn, bot, server, clock, ledger>>

\* finalizeReceipt; when its save throws, the rejected attempt is saved with the rest.
Finish ==
  /\ call.at = "finish" /\ call' = Idle
  /\ hook' = [hook EXCEPT !.got[call.of] = "done"]
  /\ \/ hookdisk' = hook' /\ UNCHANGED limits
     \/ CanFail /\ Fails /\ hookdisk' \in {hookdisk, hook'}
  /\ UNCHANGED <<mem, disk, card, turn, bot, server, clock, ledger>>

\* save of WebhookManager: when it throws, memory is ahead of the file.
WritesHooks == (hookdisk' = hook' /\ UNCHANGED limits) \/ (CanFail /\ Fails /\ UNCHANGED hookdisk)

\* update and remove: cancelQueued writes the other file first, if a delivery waits there.
SetHook(state) ==
  /\ Ready /\ hook.state # "gone" /\ hook.state # state
  /\ hook' = [hook EXCEPT !.state = state,
                          !.got = IF state = "gone" THEN [d \in Deliveries |-> "none"] ELSE @]
  /\ LET m == IF state = "on" THEN mem
              ELSE Marked(mem, {c \in Causes : ~OfCadence(c) /\ mem.run[c] = "queued"}, "cancelled") IN
     \/ m = mem /\ Unwritten /\ WritesHooks /\ UNCHANGED call
     \/ m # mem /\ Saved(m) /\ Goto("hooks", None, 0) /\ UNCHANGED <<hookdisk, limits>>
     \/ m # mem /\ Unsaved(m) /\ Fails /\ UNCHANGED <<hookdisk, call>>
  /\ UNCHANGED <<card, turn, bot, server, clock, ledger>>

SaveHook ==
  /\ call.at = "hooks" /\ call' = Idle /\ UNCHANGED hook /\ WritesHooks
  /\ UNCHANGED <<mem, disk, card, turn, bot, server, clock, ledger>>
-----------------------------------------------------------------------------
(* Time, crashes and restarts.                                              *)

Clock ==
  /\ clock < MaxDue /\ clock' = clock + 1
  /\ UNCHANGED <<files, card, turn, bot, call, server, ledger, limits>>

Crash ==
  /\ server = "up" /\ server' = "down" /\ Faults
  /\ mem' = disk /\ hook' = hookdisk /\ turn' = NoTurn /\ call' = Idle
  /\ UNCHANGED <<disk, hookdisk, card, bot, clock, ledger>>

\* Runs the file says no process of the last life finished.  Mutated form: none is.
LapsedNever(c) == FALSE
Lapsed(c) == disk.run[c] = "running"

\* The constructor ends the runs no process owns any more; then the receipts of cards
\* that are not open are dropped.  A write that fails ends the boot.
Start ==
  /\ server = "down"
  /\ LET ended == Marked(disk, {c \in Causes : Lapsed(c)}, "ended")
         m == [ended EXCEPT !.receipts = {q \in @ : card[q].state = "open"}] IN
     \/ Saved(m) /\ server' = "up" /\ UNCHANGED limits
     \/ /\ m # disk /\ CanFail /\ Fails /\ UNCHANGED server
        /\ disk' \in {disk, ended} /\ mem' = disk'
  /\ UNCHANGED <<hook, hookdisk, card, turn, bot, call, clock, ledger>>
-----------------------------------------------------------------------------
Handler == Begin \/ Visit \/ Settle \/ Forget \/ Enqueue \/ Finish \/ SaveHook \/ DropHook
Tick == TickDue \/ TickQueue
Setup == \E c \in Causes : SetupEnds(c) \/ SetupFails(c)

Next ==
  \/ Handler \/ Tick \/ Setup \/ ReloadProviders
  \/ \E c \in Causes : TurnEnds(c) \/ Stall(c) \/ Release(c) \/ Dies(c)
  \/ \E act \in Acts, q \in Cards : Calendar(act, q)
  \/ \E c \in Causes : Cancel(c)
  \/ DropCadence
  \/ \E q \in Cards, act \in CardActs : Propose(q, act)
  \/ \E q \in Cards : Recover(q) \/ Deny(q) \/ Allow(q) \/ AnswerAgain(q)
  \/ \E d \in Deliveries : Receive(d)
  \/ \E state \in {"on", "off", "gone"} : SetHook(state)
  \/ Clock \/ Crash \/ Start

Spec == Init /\ [][Next]_vars

\* Handlers finish, the interval of start() and the events of a turn get their place in
\* the event loop, timers run, a server is restarted; and, assumed, every turn comes to an
\* end, heard or not: RunsEnd fails even so.
FairSpec ==
  /\ Spec /\ WF_vars(Handler) /\ WF_vars(Start) /\ SF_vars(Tick) /\ SF_vars(Setup)
  /\ SF_vars(\E c \in Causes : TurnEnds(c) \/ Dies(c)) /\ SF_vars(\E c \in Causes : Release(c))
-----------------------------------------------------------------------------
(* What must hold.                                                          *)

\* No occurrence, request, card or delivery is given to the operator twice, across
\* crashes, failed writes, repeated deliveries and second clicks.
RunsOnce == \A c \in Causes : ledger.began[c] <= 1

\* "... gives webhook runs the same durable receipts": a delivery whose receipt is
\* committed has its run in the file.
AcceptedIsKept == \A d \in Deliveries :
  hookdisk.got[d] = "done" => disk.run[<<"hook", d>>] # "none"

\* What was answered holds, whatever crashes: an allowed "run now" has its run, and an
\* accepted delivery has, if no write failed.
AnswersHold ==
  /\ limits.fail = 0 => AcceptedIsKept
  /\ \A q \in Cards : card[q].state = "allow" /\ card[q].act = "run_now" => disk.run[<<"ask", q>>] # "none"

\* A receipt of a run in the file never changes its mind: a run that was cancelled, or
\* ended, or missed, is not taken up again, by a restart either.
ReceiptsAreFinal == [][\A c \in Causes :
  disk.run[c] \in {"ended", "cancelled", "missed"} => disk'.run[c] = disk.run[c]]_vars

\* A card tells the truth: allowed, its action was committed exactly once; denied or
\* never answered, not at all, but for a receipt that will settle it.
CardsAreHonest == \A q \in Cards :
  /\ card[q].state = "allow" => ledger.applied[q] = 1
  /\ card[q].state = "deny" => ledger.applied[q] = 0
  /\ card[q].state = "open" => ledger.applied[q] = IF q \in disk.receipts THEN 1 ELSE 0

\* A run that counts as running has its turn at work, also when the operator is idle or
\* busy with another; but for an orphan: its turn was killed by a reload, or went silently
\* after a stall or a reload, or its "running" was never saved.
RunningHasTurn ==
  server = "up" => \A c \in Causes : Active(c) =>
    \/ call.of = c \/ turn.at[c] \in {"setup", "run", "stopping"} \/ c \in turn.orphans

\* "Settle anything still marked busy": a run that was started ends.
RunsEnd == \A c \in Causes : Active(c) ~> ~Active(c)
===============================================================================

-------------------------------- MODULE Turns --------------------------------
(***************************************************************************)
(* The life of a 1:1 turn in server/index.ts: startTurn reserves the       *)
(* operator, its background half sets the turn up and dispatches it to a   *)
(* provider adapter, and one of turn.completed, a failed dispatch, the     *)
(* stall watchdog (server/turn-watchdog.ts) or a provider reload releases   *)
(* the operator.  Beside them: the project-folder lease a turn holds        *)
(* against a checkpoint restore (server/checkpoints.ts), for operators that *)
(* share one project folder.                                               *)
(***************************************************************************)
EXTENDS Naturals

CONSTANTS Bots, Threads, Turns,
          Owner,      \* the operator each thread belongs to
          None,
          Interrupts, \* whether users stop turns
          Restores,   \* whether users restore checkpoints
          Wedges,     \* whether a provider may fall silent
          StopsFast,  \* whether a stopped process is gone within the grace period
          MaxReloads

ASSUME TurnsAssumption ==
  /\ Owner \in [Threads -> Bots] /\ None \notin Threads \cup Turns
  /\ {Interrupts, Restores, Wedges, StopsFast} \subseteq BOOLEAN /\ MaxReloads \in Nat

VARIABLES
  busy,      \* bot.busy
  stage,     \* turn -> how far it is
  thread,    \* turn -> the thread it runs on, or None
  fleet,     \* turn -> the provider fleet its adapter belongs to
  watch,     \* watchdog.turns: none, heard from, or parked on a human
  grace,     \* threads with an armed release timer
  lease,     \* checkpointTurnWorkspaceLeases: thread -> the turn that claimed it
  restore,   \* operator -> its restore: none, claimed (checkpointRestoreLeases) or git
  current,   \* the fleet the registry holds
  reloading, \* between disposeAll and the settling of what it left busy
  stopped    \* history: turns the user stopped

vars == <<busy, stage, thread, fleet, watch, grace, lease, restore, current, reloading,
          stopped>>
registry == <<current, reloading>>

Stages == {"new", "setup", "running", "stopping", "over"}

TypeOK ==
  /\ busy \in [Bots -> BOOLEAN] /\ stage \in [Turns -> Stages]
  /\ thread \in [Turns -> Threads \cup {None}] /\ fleet \in [Turns -> 0..MaxReloads]
  /\ watch \in [Threads -> {"none", "heard", "parked"}]
  /\ grace \subseteq Threads /\ lease \in [Threads -> Turns \cup {None}]
  /\ restore \in [Bots -> {"none", "claimed", "git"}]
  /\ current \in 0..MaxReloads /\ reloading \in BOOLEAN /\ stopped \subseteq Turns
  /\ \A n \in Turns : (stage[n] = "new") <=> (thread[n] = None)
  /\ \A t \in Threads : lease[t] # None => thread[lease[t]] = t

Init ==
  /\ busy = [b \in Bots |-> FALSE] /\ stage = [n \in Turns |-> "new"]
  /\ thread = [n \in Turns |-> None] /\ fleet = [n \in Turns |-> 0]
  /\ watch = [t \in Threads |-> "none"] /\ grace = {}
  /\ lease = [t \in Threads |-> None] /\ restore = [b \in Bots |-> "none"]
  /\ current = 0 /\ reloading = FALSE /\ stopped = {}
-----------------------------------------------------------------------------
\* A turn whose process exists; and whose events the bus delivers: its adapter
\* is of the registry's fleet, and the bus is attached to that.
Live(n)  == stage[n] \in {"running", "stopping"}
Heard(n) == fleet[n] = current /\ ~reloading
On(n, t) == thread[n] = t
Bot(n)   == Owner[thread[n]]
Restoring == \E b \in Bots : restore[b] = "git"

\* What a turn of thread t takes, and what its end, however found, gives back.
Release(t)  == lease' = [lease EXCEPT ![t] = None]
Unwatch(t)  == watch' = [watch EXCEPT ![t] = "none"]
Idle(b)     == busy' = [busy EXCEPT ![b] = FALSE]

\* adapter.interruptTurn: it returns when the process has been told to stop.
\* It knows only turns it runs; a turn still being set up is not told.
Stopped(t) == [n \in Turns |-> IF On(n, t) /\ stage[n] = "running" /\ fleet[n] = current
                                 THEN "stopping" ELSE stage[n]]
-----------------------------------------------------------------------------
(* Starting.                                                               *)

\* startTurn, up to its background half.  The provider may be one that a
\* reload in progress has created and not yet attached.  Mutated forms: it does
\* not ask whether the operator is busy, or the folder is being restored.
Reserve(n, t) ==
  /\ stage[n] = "new" /\ lease[t] = None
  /\ busy' = [busy EXCEPT ![Owner[t]] = TRUE] /\ stage' = [stage EXCEPT ![n] = "setup"]
  /\ thread' = [thread EXCEPT ![n] = t] /\ fleet' = [fleet EXCEPT ![n] = current]
  /\ lease' = [lease EXCEPT ![t] = n]
  /\ UNCHANGED <<watch, grace, restore, registry, stopped>>
StartAnyway(n, t)   == restore[Owner[t]] = "none" /\ ~Restoring /\ Reserve(n, t)
StartInRestore(n, t) == ~busy[Owner[t]] /\ restore[Owner[t]] = "none" /\ Reserve(n, t)
Start(n, t) ==
  /\ ~busy[Owner[t]] /\ restore[Owner[t]] = "none" /\ ~Restoring
  /\ Reserve(n, t)

\* Everything the background half awaits is done: watch, then sendTurn.
Dispatch(n) ==
  /\ stage[n] = "setup"
  /\ ~\E m \in Turns : Live(m) /\ On(m, thread[n]) /\ fleet[m] = fleet[n]
  /\ stage' = [stage EXCEPT ![n] = "running"]
  /\ watch' = [watch EXCEPT ![thread[n]] = "heard"]
  /\ UNCHANGED <<busy, thread, fleet, grace, lease, restore, registry, stopped>>

\* The setup throws, or sendTurn does: the catch of the background half.
DispatchFails(n) ==
  /\ stage[n] = "setup" /\ stage' = [stage EXCEPT ![n] = "over"]
  /\ Release(thread[n]) /\ Unwatch(thread[n]) /\ Idle(Bot(n))
  /\ UNCHANGED <<thread, fleet, grace, restore, registry, stopped>>
-----------------------------------------------------------------------------
(* Running.                                                                *)

\* An event of a turn: the watchdog's clock restarts; request.opened parks it,
\* request.resolved restarts it, and any other leaves a parked one parked.
Event(n, w) == LET t == thread[n] IN
  /\ Live(n) /\ Heard(n) /\ watch[t] # "none"
  /\ w \in {"heard", "parked"} /\ watch' = [watch EXCEPT ![t] = w]
  /\ UNCHANGED <<busy, stage, thread, fleet, grace, lease, restore, registry, stopped>>

\* turn.completed, through the watchdog's subscriber and the fold; or the exit
\* of a process nobody hears.
Complete(n) == LET t == thread[n] IN
  /\ Live(n) /\ stage' = [stage EXCEPT ![n] = "over"]
  /\ IF Heard(n) THEN Unwatch(t) /\ Idle(Owner[t]) /\ Release(t)
                 ELSE UNCHANGED <<watch, busy, lease>>
  /\ UNCHANGED <<thread, fleet, grace, restore, registry, stopped>>

\* POST /interrupt: the process is told to stop, and the lease is released.
\* Mutated form: the operator is, too.
StoppedByUser(t) == stopped' = stopped \cup {n \in Turns : On(n, t)}
InterruptIdles(t) ==
  /\ Interrupts /\ stage' = Stopped(t) /\ Release(t) /\ Idle(Owner[t]) /\ StoppedByUser(t)
  /\ UNCHANGED <<thread, fleet, watch, grace, restore, registry>>
Interrupt(t) ==
  /\ Interrupts /\ stage' = Stopped(t) /\ Release(t) /\ StoppedByUser(t)
  /\ UNCHANGED <<busy, thread, fleet, watch, grace, restore, registry>>

\* stallMs pass without an event, and sweep finds it: the thread is forgotten,
\* its turn stopped and the release timer armed.  Mutated form: no timer.
Silent(t) == watch[t] = "heard" /\ (Wedges \/ ~\E n \in Turns : Live(n) /\ On(n, t) /\ Heard(n))
StallOnly(t) ==
  /\ Silent(t) /\ Unwatch(t) /\ stage' = Stopped(t)
  /\ UNCHANGED <<busy, thread, fleet, grace, lease, restore, registry, stopped>>
Stall(t) ==
  /\ Silent(t) /\ Unwatch(t) /\ stage' = Stopped(t)
  /\ grace' = grace \cup {t}
  /\ UNCHANGED <<busy, thread, fleet, lease, restore, registry, stopped>>

\* The release timer, which nothing disarms.
Expire(t) ==
  /\ t \in grace /\ grace' = grace \ {t}
  /\ StopsFast => ~\E n \in Turns : On(n, t) /\ stage[n] = "stopping"
  /\ Release(t) /\ Idle(Owner[t])
  /\ UNCHANGED <<stage, thread, fleet, watch, restore, registry, stopped>>
-----------------------------------------------------------------------------
(* Restoring a checkpoint, and reloading the providers.                    *)

\* The route claims the operator; the restore then claims the folder, which
\* must be free, or is refused.
RestoreClaims(b) ==
  /\ Restores /\ ~busy[b] /\ restore[b] = "none"
  /\ restore' = [restore EXCEPT ![b] = "claimed"]
  /\ UNCHANGED <<busy, stage, thread, fleet, watch, grace, lease, registry, stopped>>
RestoreBegins(b) ==
  /\ restore[b] = "claimed"
  /\ restore' = [restore EXCEPT ![b] =
       IF Restoring \/ \E t \in Threads : lease[t] # None THEN "none" ELSE "git"]
  /\ UNCHANGED <<busy, stage, thread, fleet, watch, grace, lease, registry, stopped>>
RestoreEnds(b) ==
  /\ restore[b] = "git" /\ restore' = [restore EXCEPT ![b] = "none"]
  /\ UNCHANGED <<busy, stage, thread, fleet, watch, grace, lease, registry, stopped>>

\* reloadProviders: the bus is detached, every adapter told to stop, and the
\* registry filled anew; at its end everything still busy is settled.
ReloadBegins ==
  /\ current < MaxReloads /\ ~reloading /\ reloading' = TRUE /\ current' = current + 1
  /\ stage' = [n \in Turns |-> IF stage[n] = "running" /\ fleet[n] = current
                              THEN "stopping" ELSE stage[n]]
  /\ UNCHANGED <<busy, thread, fleet, watch, grace, lease, restore, stopped>>
ReloadEnds ==
  /\ reloading /\ reloading' = FALSE
  /\ lease' = [t \in Threads |-> IF busy[Owner[t]] THEN None ELSE lease[t]]
  /\ busy' = [b \in Bots |-> FALSE]
  /\ UNCHANGED <<stage, thread, fleet, watch, grace, restore, current, stopped>>

Next ==
  \/ \E n \in Turns, t \in Threads : Start(n, t)
  \/ \E n \in Turns : Dispatch(n) \/ DispatchFails(n) \/ Complete(n)
  \/ \E n \in Turns, w \in {"heard", "parked"} : Event(n, w)
  \/ \E t \in Threads : Interrupt(t) \/ Stall(t) \/ Expire(t)
  \/ \E b \in Bots : RestoreClaims(b) \/ RestoreBegins(b) \/ RestoreEnds(b)
  \/ ReloadBegins \/ ReloadEnds

Spec == Init /\ [][Next]_vars

\* Setups end, by their own timeouts; a turn that does not end falls silent, and
\* a card is answered or times out; sweeps, timers and reloads run.
FairSpec ==
  /\ Spec
  /\ \A n \in Turns : WF_vars(Dispatch(n) \/ DispatchFails(n)) /\ WF_vars(Event(n, "heard"))
  /\ \A t \in Threads : SF_vars(Stall(t)) /\ WF_vars(Expire(t))
  /\ WF_vars(ReloadEnds)
-----------------------------------------------------------------------------
(* What must hold.                                                         *)

\* "... so another turn cannot overlap the process we are stopping": one
\* provider process per operator, on whatever threads.
OneProcess == \A m, n \in Turns : Live(m) /\ Live(n) /\ Bot(m) = Bot(n) => m = n

\* An operator whose process is still heard from is not handed out: "one turn
\* per bot at a time", and a reload settles "killed turns" only.
LiveIsBusy == \A n \in Turns : Live(n) /\ Heard(n) => busy[Bot(n)]

\* A reload "kills any in-flight turns".
OldFleetIsStopped == ~reloading =>
  \A n \in Turns : stage[n] = "running" => fleet[n] = current

\* Git rewrites the folder only while no process works in it: "every claim must
\* release before restore can begin".  (Stop releases the claim of a turn when
\* its process has been told, or has yet to be made, not when it is gone.)
RestoreAlone == Restoring => \A n \in Turns : Live(n) => n \in stopped

\* "... a wedged CLI left its bot busy forever": no operator stays busy for ever,
\* and no claim on the folder stands for ever.  (A reload may kill a turn whose
\* operator it takes for idle, and leave its claim.)
WedgedIsFreed ==
  /\ \A b \in Bots : busy[b] ~> ~busy[b]
  /\ \A t \in Threads : lease[t] # None ~> lease[t] = None \/ current > 0
=============================================================================

------------------------------- MODULE LocalVm -------------------------------
(***************************************************************************)
(* One Local VM desktop and the turns that mount it: the lease of           *)
(* server/local-vm-lease.ts, the timer of server/local-vm-idle.ts, and the  *)
(* lifecycle routes and maps of server/index.ts between them.  The turns    *)
(* are those of Turns; each of its actions is extended with what its code   *)
(* does to the desktop.  Reloads and restores are left out.  Shared mode    *)
(* has one desktop for all operators; a desktop of its own is the instance  *)
(* with one operator.                                                       *)
(***************************************************************************)
EXTENDS Turns

CONSTANTS
  MaxLong,    \* leases that lapse under an open card
  MaxOps,     \* lifecycle requests
  MaxFails,   \* container commands that fail
  MaxBlind,   \* inspections that fail, which the code takes for a missing container
  MaxRestarts

Requests == {"pull", "run", "start", "stop", "remove"}

ASSUME LocalVmAssumption ==
  /\ {MaxLong, MaxOps, MaxFails, MaxBlind, MaxRestarts} \subseteq Nat
  /\ None \notin [thread : Threads, bot : Bots, old : BOOLEAN] \cup Requests \cup {"idle"}

VARIABLES
  record,  \* the lease: a thread, its operator, whether ttlMs passed since a touch; or None
  targets, \* the keys of localVmThreadTargets
  active,  \* localVmActiveThreads: the thread that claimed the desktop last, or None
  mount,   \* turn -> whether it has claimed the desktop, and found it ready
  work,    \* the request or idle stop that holds localVmLifecycleBusy or localVmImageBusy
  desktop, \* the container
  timer,   \* whether the idle timer is armed
  count    \* how often the bounded events happened

maps == <<record, targets, active>>
machine == <<work, desktop, timer, count>>
vm == <<maps, mount, machine>>
vmvars == <<vars, vm>>

VmTypeOK ==
  /\ TypeOK
  /\ record \in [thread : Threads, bot : Bots, old : BOOLEAN] \cup {None}
  /\ targets \subseteq Threads /\ active \in Threads \cup {None}
  /\ mount \in [Turns -> {"none", "claimed", "ready"}]
  /\ work \in Requests \cup {"idle", None} /\ desktop \in {"missing", "stopped", "running"}
  /\ timer \in BOOLEAN
  /\ count \in [ops : 0..MaxOps, fails : 0..MaxFails, blind : 0..MaxBlind, restarts : 0..MaxRestarts,
               long : 0..MaxLong]

VmInit ==
  /\ Init /\ record = None /\ targets = {} /\ active = None
  /\ mount = [n \in Turns |-> "none"] /\ work = None /\ desktop = "missing" /\ timer = FALSE
  /\ count = [ops |-> 0, fails |-> 0, blind |-> 0, restarts |-> 0, long |-> 0]
-----------------------------------------------------------------------------
(* The lease and the maps.                                                 *)

\* LocalVmLease.current, which also forgets a record that is no longer good.
Current ==
  IF record # None /\ (record.old \/ ~busy[record.bot]) THEN None ELSE record

\* claim: what is current must be of the same thread, if anything is.  Mutated
\* form: the answer is not looked at.
MayClaimUnread(t) == TRUE
MayClaim(t) == Current # None => Current.thread = t

\* touch: it renews a record of the thread, and revives none.
Touched == IF record # None /\ record.old THEN None ELSE record

Listed(t) == t \in targets
List(t) == targets' = targets \cup {t}

\* releaseLocalVmThread, where the lease's record is r.
ReleaseThread(t, r) ==
  IF Listed(t)
    THEN /\ record' = IF r # None /\ r.thread = t THEN None ELSE r
         /\ active' = IF active = t THEN None ELSE active
         /\ targets' = targets \ {t}
    ELSE UNCHANGED maps
-----------------------------------------------------------------------------
(* The turns of Turns, with what their code does to the desktop.           *)

Reserves == (\E n \in Turns, t \in Threads : Start(n, t)) /\ UNCHANGED vm

\* The background half claims the desktop before its first await.  Mutated
\* form: it does not look at the lifecycle requests.
Mounts(n) == LET t == thread[n] IN
  /\ stage[n] = "setup" /\ mount[n] = "none" /\ MayClaim(t)
  /\ record' = [thread |-> t, bot |-> Owner[t], old |-> FALSE] /\ List(t) /\ active' = t
  /\ mount' = [mount EXCEPT ![n] = "claimed"] /\ timer' = TRUE
  /\ UNCHANGED <<vars, work, desktop, count>>
ClaimAnyway(n) == Mounts(n)
Claim(n) == work = None /\ Mounts(n)

\* ... finds it ready, or throws: DispatchFails.
Inspect(n) ==
  /\ stage[n] = "setup" /\ mount[n] = "claimed" /\ desktop = "running"
  /\ mount' = [mount EXCEPT ![n] = "ready"] /\ UNCHANGED <<vars, maps, machine>>

Dispatches(n) == mount[n] = "ready" /\ Dispatch(n) /\ UNCHANGED vm

\* A claim refused, a desktop that is not ready, or any other failure.
Fails(n) ==
  /\ DispatchFails(n) /\ ReleaseThread(thread[n], record) /\ UNCHANGED <<mount, machine>>

\* The first lines of the fold, for every event, also one of a turn the
\* watchdog has given up.
Hears(n) == LET t == thread[n] IN
  /\ \/ \E w \in {"heard", "parked"} : Event(n, w)
     \/ Live(n) /\ Heard(n) /\ watch[t] = "none" /\ UNCHANGED vars
  /\ IF Listed(t) THEN record' = Touched /\ timer' = TRUE ELSE UNCHANGED <<record, timer>>
  /\ UNCHANGED <<targets, active, mount, work, desktop, count>>

\* turn.completed, or an exit nobody hears.  Mutated form: the lease is left to
\* its owner's idleness.
EndsLeased(n) == LET t == thread[n] IN
  /\ Complete(n)
  /\ IF Heard(n) /\ Listed(t)
       THEN active' = (IF active = t THEN None ELSE active) /\ timer' = TRUE ELSE UNCHANGED <<active, timer>>
  /\ UNCHANGED <<record, targets, mount, work, desktop, count>>
Ends(n) == LET t == thread[n] IN
  /\ Complete(n)
  /\ IF Heard(n) THEN ReleaseThread(t, Touched) /\ timer' = (timer \/ Listed(t))
                 ELSE UNCHANGED <<maps, timer>>
  /\ UNCHANGED <<mount, work, desktop, count>>

\* Stop, the watchdog and its release timer leave the desktop alone.
Others == (\E t \in Threads : Interrupt(t) \/ Stall(t) \/ Expire(t)) /\ UNCHANGED vm
-----------------------------------------------------------------------------
(* The desktop's own life.                                                 *)

\* A lifecycle route up to its await: it takes the flag of the desktop, and of the
\* image for pull.
Request(a) ==
  /\ count.ops < MaxOps /\ work = None
  /\ a \in {"run", "stop", "remove"} => Current = None
  /\ record' = Current /\ work' = a /\ count' = [count EXCEPT !.ops = @ + 1]
  /\ UNCHANGED <<vars, targets, active, mount, desktop, timer>>

\* containerComputerAction: run needs no container, stop a running one, and
\* start is always refused.
Works(a) ==
  \/ a = "run" /\ desktop = "missing" /\ desktop' = "running"
  \/ a = "stop" /\ desktop = "running" /\ desktop' = "stopped"
  \/ a = "remove" /\ desktop' = "missing"
  \/ a = "pull" /\ UNCHANGED desktop
Impossible(a) ==
  a = "start" \/ (a = "run" /\ desktop # "missing") \/ (a = "stop" /\ desktop # "running")

Spends(kind, most) == count[kind] < most /\ count' = [count EXCEPT ![kind] = @ + 1]

\* It succeeds: the timer is touched after run, cancelled after stop and remove;
\* or it throws; or it takes the desktop for missing, and removes nothing.
Answered ==
  /\ work \in Requests /\ work' = None
  /\ \/ Works(work) /\ UNCHANGED count
        /\ timer' = (work = "run" \/ (timer /\ work = "pull"))
     \/ Impossible(work) /\ UNCHANGED <<desktop, timer, count>>
     \/ Spends("fails", MaxFails) /\ UNCHANGED <<desktop, timer>>
     \/ work = "remove" /\ Spends("blind", MaxBlind) /\ timer' = FALSE /\ UNCHANGED desktop
  /\ UNCHANGED <<vars, maps, mount>>

\* A screenshot for the panel.
Look == timer' = TRUE /\ UNCHANGED <<vars, maps, mount, work, desktop, count>>

\* Nothing was heard of thread t for longer than a turn may be silent.
Quiet(t) ==
  /\ \A n \in Turns : On(n, t) => stage[n] # "setup"
  /\ watch[t] # "heard" /\ t \notin grace

\* ttlMs pass without a touch; under an open card, which the watchdog does not
\* limit, too.
Lapse ==
  /\ record # None /\ ~record.old /\ Quiet(record.thread)
  /\ record' = [record EXCEPT !.old = TRUE]
  /\ IF watch[record.thread] = "parked" THEN Spends("long", MaxLong) ELSE UNCHANGED count
  /\ UNCHANGED <<vars, targets, active, mount, work, desktop, timer>>

\* idleMs pass without a touch, and expire finds nobody busy (else it arms the
\* timer again, which changes nothing here).  Mutated form: it asks the lease.
Silence == timer /\ (record # None => record.old) /\ \A t \in Threads : Listed(t) => Quiet(t)
IdleStops == work' = "idle" /\ timer' = FALSE /\ UNCHANGED <<vars, maps, mount, desktop, count>>
IdleFires == Silence /\ work = None /\ active = None /\ IdleStops

\* suspend: the desktop is removed if it runs; when that fails the timer is
\* armed again.  Mutated form: it is not.
IdleEndsOnce ==
  /\ work = "idle" /\ work' = None
  /\ \/ desktop' = (IF desktop = "running" THEN "missing" ELSE desktop) /\ UNCHANGED count
     \/ desktop = "running" /\ Spends("fails", MaxFails) /\ UNCHANGED desktop
  /\ UNCHANGED <<vars, maps, mount, timer>>
IdleEnds ==
  /\ work = "idle" /\ work' = None
  /\ \/ desktop' = (IF desktop = "running" THEN "missing" ELSE desktop) /\ UNCHANGED <<timer, count>>
     \/ desktop = "running" /\ Spends("fails", MaxFails) /\ timer' = TRUE /\ UNCHANGED desktop
     \/ desktop = "running" /\ Spends("blind", MaxBlind) /\ UNCHANGED <<timer, desktop>>
  /\ UNCHANGED <<vars, maps, mount>>

\* The server dies and is started again: what it remembered and its providers
\* are gone, and a desktop that runs gets a timer.
Restarts ==
  /\ Spends("restarts", MaxRestarts)
  /\ busy' = [b \in Bots |-> FALSE] /\ watch' = [t \in Threads |-> "none"] /\ grace' = {}
  /\ stage' = [n \in Turns |-> IF stage[n] = "new" THEN "new" ELSE "over"]
  /\ lease' = [t \in Threads |-> None] /\ restore' = [b \in Bots |-> "none"]
  /\ record' = None /\ targets' = {} /\ active' = None /\ work' = None
  /\ UNCHANGED desktop \/ (work \in Requests /\ Works(work)) \/ (work = "idle" /\ Works("remove"))
  /\ timer' = (desktop' = "running")
  /\ UNCHANGED <<thread, fleet, registry, stopped, mount>>
-----------------------------------------------------------------------------
VmNext ==
  \/ Reserves \/ Others \/ Answered \/ Look \/ Lapse \/ IdleFires \/ IdleEnds
  \/ Restarts
  \/ \E n \in Turns : Claim(n) \/ Inspect(n) \/ Dispatches(n) \/ Fails(n) \/ Hears(n) \/ Ends(n)
  \/ \E a \in Requests : Request(a)

VmSpec == VmInit /\ [][VmNext]_vmvars

\* Setups end, and sweeps, timers and container commands do; a card is answered.
VmFairSpec ==
  /\ VmSpec
  /\ \A n \in Turns : /\ WF_vmvars(Dispatches(n) \/ Fails(n))
                      /\ WF_vmvars(Hears(n) /\ watch'[thread[n]] = "heard")
  /\ \A t \in Threads : SF_vmvars(Stall(t) /\ UNCHANGED vm) /\ WF_vmvars(Expire(t) /\ UNCHANGED vm)
  /\ WF_vmvars(Answered)
  /\ WF_vmvars(Lapse) /\ WF_vmvars(IdleFires) /\ WF_vmvars(IdleEnds)

\* ... and so does every process, or it is heard to.
VmEndingSpec == VmFairSpec /\ \A n \in Turns : WF_vmvars(Ends(n))
-----------------------------------------------------------------------------
(* What must hold.                                                         *)

\* "Each desktop remains a strict singleton": one process drives it at a time,
\* unless a card was open for longer than the lease lives.
OneDriver == count.long = 0 => \A m, n \in Turns : Live(m) /\ Live(n) => m = n

\* "... neither side can enter while the other is between inspection and
\* mutation": while a process drives the desktop it is up, and nobody creates,
\* stops or removes it, with the same exception.
DesktopStays == count.long = 0 => \A n \in Turns :
  Live(n) => desktop = "running" /\ work \notin {"run", "stop", "remove", "idle"}

\* "This Local VM is already being used by another turn": the lease that
\* refuses a turn, or a request, is that of a turn that is not over.
LeaseHasUser == Current # None => \E n \in Turns :
  On(n, Current.thread) /\ mount[n] # "none" /\ stage[n] # "over"

\* The "cost/resource backstop": a desktop does not run for ever, unless an
\* inspection failed.
Reclaimed == desktop = "running" ~> desktop # "running" \/ count.blind > 0
=============================================================================

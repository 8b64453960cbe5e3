----------------------------- MODULE TurnsProofs -----------------------------
(* For any operators, threads and turns: types; and, as long as no provider    *)
(* falls silent and the providers are not reloaded, one process per operator,   *)
(* which is busy with it, a folder that Git has for itself, and a desktop that  *)
(* one process drives and nobody takes away.                                    *)
EXTENDS LocalVm, TLAPS

\* A turn that has been started and is not over.
AtWork(n) == stage[n] \in {"setup", "running", "stopping"}

\* One fleet, which everything belongs to, and no release timer.
Calm == current = 0 /\ ~reloading /\ grace = {} /\ \A n \in Turns : fleet[n] = 0

\* A turn at work has its operator to itself, and the folder's claim until the user
\* stops it; the watchdog watches processes only.
WorkIsBusy    == \A n \in Turns : AtWork(n) => busy[Bot(n)]
OneAtWork     == \A m, n \in Turns : AtWork(m) /\ AtWork(n) /\ Bot(m) = Bot(n) => m = n
WorkIsClaimed == \A n \in Turns : AtWork(n) => (lease[thread[n]] = n \/ n \in stopped)
WatchIsLive   == \A t \in Threads : watch[t] # "none" => \E n \in Turns : Live(n) /\ On(n, t)

\* While Git works, the user has stopped whatever is at work.
Alone == Restoring => \A n \in Turns : AtWork(n) => n \in stopped

Together == TypeOK /\ Calm /\ WorkIsBusy /\ OneAtWork /\ WorkIsClaimed /\ WatchIsLive /\ Alone
-----------------------------------------------------------------------------
(* Type correctness.                                                       *)

LEMMA TypeInit == Init => TypeOK
<1> SUFFICES ASSUME Init PROVE TypeOK
  OBVIOUS
<1>1. busy \in [Bots -> BOOLEAN] /\ reloading \in BOOLEAN
  BY Zenon DEF Init
<1>2. /\ fleet \in [Turns -> 0..MaxReloads] /\ current \in 0..MaxReloads
      /\ stage \in [Turns -> Stages]
  BY TurnsAssumption, SMT DEF Init, Stages
<1>3. /\ thread \in [Turns -> Threads \cup {None}] /\ lease \in [Threads -> Turns \cup {None}]
      /\ watch \in [Threads -> {"none", "heard", "parked"}] /\ grace \subseteq Threads
      /\ restore \in [Bots -> {"none", "claimed", "git"}] /\ stopped \subseteq Turns
      /\ \A n \in Turns : (stage[n] = "new") <=> (thread[n] = None)
      /\ \A t \in Threads : lease[t] # None => thread[lease[t]] = t
  BY SMT DEF Init
<1> QED BY <1>1, <1>2, <1>3 DEF TypeOK

\* What every step does to the flags, the claims and the clocks keeps their types.
LEMMA GivenBack ==
  ASSUME NEW t \in Threads, NEW b \in Bots
  PROVE  /\ busy \in [Bots -> BOOLEAN] /\ Idle(b) => busy' \in [Bots -> BOOLEAN]
         /\ lease \in [Threads -> Turns \cup {None}] /\ Release(t)
              => lease' \in [Threads -> Turns \cup {None}]
         /\ watch \in [Threads -> {"none", "heard", "parked"}] /\ Unwatch(t)
              => watch' \in [Threads -> {"none", "heard", "parked"}]
<1>1. busy \in [Bots -> BOOLEAN] /\ Idle(b) => busy' \in [Bots -> BOOLEAN]
  BY SMT DEF Idle
<1>2. lease \in [Threads -> Turns \cup {None}] /\ Release(t)
        => lease' \in [Threads -> Turns \cup {None}]
  BY SMT DEF Release
<1>3. watch \in [Threads -> {"none", "heard", "parked"}] /\ Unwatch(t)
        => watch' \in [Threads -> {"none", "heard", "parked"}]
  BY SMT DEF Unwatch
<1> QED BY <1>1, <1>2, <1>3

\* Telling a thread's turns to stop keeps the stages, and starts or forgets none.
LEMMA StoppedType ==
  ASSUME TypeOK, NEW t, stage' = Stopped(t)
  PROVE  stage' \in [Turns -> Stages] /\ \A n \in Turns : stage'[n] = "new" <=> stage[n] = "new"
  BY SMT DEF TypeOK, Stopped, Stages

LEMMA TypeStep == TypeOK /\ [Next]_vars => TypeOK'
<1> SUFFICES ASSUME TypeOK, [Next]_vars PROVE TypeOK'
  OBVIOUS
<1> USE TurnsAssumption DEF TypeOK, Stages, registry
<1>1. ASSUME NEW n \in Turns, NEW t \in Threads, Start(n, t) PROVE TypeOK'
  BY <1>1, SMT DEF Start, Reserve
<1>2. ASSUME NEW n \in Turns, Dispatch(n) PROVE TypeOK'
  BY <1>2, SMT DEF Dispatch
<1>3. ASSUME NEW n \in Turns, DispatchFails(n) PROVE TypeOK'
<2>1. thread[n] \in Threads /\ Bot(n) \in Bots
  BY <1>3, SMT DEF DispatchFails, Bot
<2>2. /\ busy' \in [Bots -> BOOLEAN] /\ lease' \in [Threads -> Turns \cup {None}]
      /\ watch' \in [Threads -> {"none", "heard", "parked"}]
  BY <1>3, <2>1, GivenBack, Zenon DEF DispatchFails
<2>3. \A t \in Threads : lease'[t] # None => lease'[t] = lease[t]
  BY <1>3, <2>1, SMT DEF DispatchFails, Release
<2> QED BY <1>3, <2>2, <2>3, SMT DEF DispatchFails
<1>4. ASSUME NEW n \in Turns, NEW w \in {"heard", "parked"}, Event(n, w) PROVE TypeOK'
<2>1. thread[n] \in Threads
  BY <1>4, SMT DEF Event, Live
<2> QED BY <1>4, <2>1, SMT DEF Event
<1>5. ASSUME NEW n \in Turns, Complete(n) PROVE TypeOK'
<2>1. thread[n] \in Threads /\ Owner[thread[n]] \in Bots
  BY <1>5, SMT DEF Complete, Live
<2>2. /\ busy' \in [Bots -> BOOLEAN] /\ lease' \in [Threads -> Turns \cup {None}]
      /\ watch' \in [Threads -> {"none", "heard", "parked"}]
  BY <1>5, <2>1, GivenBack, Zenon DEF Complete
<2>3. \A t \in Threads : lease'[t] # None => lease'[t] = lease[t]
  BY <1>5, <2>1, SMT DEF Complete, Release
<2> QED BY <1>5, <2>2, <2>3, SMT DEF Complete, Live
<1>6. ASSUME NEW t \in Threads, Interrupt(t) PROVE TypeOK'
  BY <1>6, StoppedType, SMT DEF Interrupt, Release, StoppedByUser
<1>7. ASSUME NEW t \in Threads, Stall(t) PROVE TypeOK'
  BY <1>7, StoppedType, SMT DEF Stall, Unwatch
<1>8. ASSUME NEW t \in Threads, Expire(t) PROVE TypeOK'
  BY <1>8, SMT DEF Expire, Release, Idle
<1>9. ASSUME NEW b \in Bots, RestoreClaims(b) \/ RestoreBegins(b) \/ RestoreEnds(b) PROVE TypeOK'
  BY <1>9, SMT DEF RestoreClaims, RestoreBegins, RestoreEnds
<1>10. CASE ReloadBegins
  BY <1>10, SMT DEF ReloadBegins
<1>11. CASE ReloadEnds
<2>1. busy' \in [Bots -> BOOLEAN]
  BY <1>11, Zenon DEF ReloadEnds
<2>2. lease' \in [Threads -> Turns \cup {None}]
      /\ \A t \in Threads : lease'[t] # None => lease'[t] = lease[t]
<3>1. \A t \in Threads : lease'[t] \in {None, lease[t]}
  BY <1>11, Zenon DEF ReloadEnds
<3>2. \A t \in Threads : lease[t] \in Turns \cup {None}
  OBVIOUS
<3>3. lease' = [t \in Threads |-> lease'[t]]
  BY <1>11, Zenon DEF ReloadEnds
<3> QED BY <3>1, <3>2, <3>3, SMT
<2>3. /\ reloading' \in BOOLEAN
      /\ UNCHANGED <<stage, thread, fleet, watch, grace, restore, current, stopped>>
  BY <1>11, Zenon DEF ReloadEnds
<2> QED BY <2>1, <2>2, <2>3, Zenon
<1>12. CASE UNCHANGED vars
  BY <1>12, SMT DEF vars
<1> HIDE DEF TypeOK, Stages, registry
<1> QED BY <1>1, <1>2, <1>3, <1>4, <1>5, <1>6, <1>7, <1>8, <1>9, <1>10, <1>11, <1>12, Zenon DEF Next

\* Every step of turns, stops, stalls, restores and reloads keeps every variable in its
\* type, a claim with the turn that made it, and a thread with every turn that began.
THEOREM TypeCorrect == Spec => []TypeOK
  BY TypeInit, TypeStep, PTL DEF Spec
-----------------------------------------------------------------------------
(* One process per operator, when no provider falls silent or is reloaded.   *)

LEMMA TogetherInit == Init => Together
<1> SUFFICES ASSUME Init PROVE Together
  OBVIOUS
<1>1. Calm /\ \A n \in Turns : ~AtWork(n)
  BY SMT DEF Init, Calm, AtWork
<1>2. (\A t \in Threads : watch[t] = "none") /\ ~Restoring
  BY SMT DEF Init, Restoring
<1> QED BY <1>1, <1>2, TypeInit
        DEF Together, WorkIsBusy, OneAtWork, WorkIsClaimed, WatchIsLive, Alone

LEMMA TogetherStart ==
  ASSUME Together, TypeOK', NEW n \in Turns, NEW t \in Threads, Start(n, t)
  PROVE  Together'
<1> USE TurnsAssumption DEF Together, TypeOK
<1>1. /\ Owner[t] \in Bots /\ ~busy[Owner[t]] /\ lease[t] = None /\ ~Restoring
      /\ \A b \in Bots : busy'[b] <=> (busy[b] \/ b = Owner[t])
      /\ UNCHANGED <<watch, grace, restore, registry, stopped>>
  BY SMT DEF Start, Reserve
<1>2. /\ ~AtWork(n) /\ ~Live(n) /\ thread'[n] = t /\ \A m \in Turns \ {n} : thread'[m] = thread[m]
      /\ \A m \in Turns : AtWork(m)' <=> (AtWork(m) \/ m = n)
      /\ \A m \in Turns : (Live(m)' <=> Live(m)) /\ (AtWork(m) => thread[m] \in Threads)
  BY SMT DEF Start, Reserve, AtWork, Live, Stages
<1>3. Calm'
  BY <1>1, SMT DEF Calm, Start, Reserve, registry
<1>4. WorkIsBusy'
  BY <1>1, <1>2, SMT DEF WorkIsBusy, Bot
<1>5. OneAtWork'
  BY <1>1, <1>2, SMT DEF OneAtWork, WorkIsBusy, Bot
<1>6. WorkIsClaimed'
  BY <1>1, <1>2, SMT DEF WorkIsClaimed, Start, Reserve
<1>7. WatchIsLive'
  BY <1>1, <1>2, SMT DEF WatchIsLive, On
<1>8. Alone'
  BY <1>1, SMT DEF Alone, Restoring
<1> QED BY <1>3, <1>4, <1>5, <1>6, <1>7, <1>8

LEMMA TogetherDispatch ==
  ASSUME Together, TypeOK', NEW n \in Turns, Dispatch(n)
  PROVE  Together'
<1> USE TurnsAssumption DEF Together, TypeOK
<1>1. /\ thread[n] \in Threads /\ Live(n)'
      /\ \A m \in Turns : (AtWork(m)' <=> AtWork(m)) /\ (Live(m) => Live(m)')
      /\ \A t \in Threads : watch'[t] = watch[t] \/ t = thread[n]
      /\ UNCHANGED <<busy, thread, fleet, grace, lease, restore, registry, stopped>>
  BY SMT DEF Dispatch, AtWork, Live
<1>2. Calm'
  BY <1>1, SMT DEF Calm, registry
<1>3. WorkIsBusy' /\ OneAtWork' /\ WorkIsClaimed'
  BY <1>1, SMT DEF WorkIsBusy, OneAtWork, WorkIsClaimed, Bot
<1>4. WatchIsLive'
  BY <1>1, SMT DEF WatchIsLive, On
<1>5. Alone'
  BY <1>1, SMT DEF Alone, Restoring
<1> QED BY <1>2, <1>3, <1>4, <1>5

\* However the end of a turn is found, what it took is given back.
LEMMA TogetherEnds ==
  ASSUME Together, TypeOK', NEW n \in Turns, AtWork(n), stage' = [stage EXCEPT ![n] = "over"],
         Unwatch(thread[n]), Idle(Bot(n)), Release(thread[n]),
         UNCHANGED <<thread, fleet, grace, restore, registry, stopped>>
  PROVE  Together'
<1> USE TurnsAssumption DEF Together, TypeOK
<1>1. /\ thread[n] \in Threads /\ Bot(n) \in Bots /\ ~AtWork(n)'
      /\ \A m \in Turns \ {n} : (AtWork(m)' <=> AtWork(m)) /\ (Live(m) => Live(m)')
      /\ \A m \in Turns : AtWork(m) => thread[m] \in Threads /\ Bot(m) \in Bots
      /\ \A m \in Turns : Live(m) => AtWork(m)
  BY SMT DEF AtWork, Live, Bot
<1>2. /\ watch'[thread[n]] = "none" /\ \A t \in Threads \ {thread[n]} : watch'[t] = watch[t]
      /\ \A t \in Threads \ {thread[n]} : lease'[t] = lease[t]
  BY <1>1, SMT DEF Unwatch, Release
<1>3. \A b \in Bots \ {Bot(n)} : busy'[b] <=> busy[b]
  BY <1>1, SMT DEF Idle
<1>4. \A m \in Turns \ {n} : AtWork(m) => Bot(m) # Bot(n) /\ thread[m] # thread[n]
  BY <1>1, SMT DEF OneAtWork, Bot
<1>5. Calm'
  BY SMT DEF Calm, registry
<1>6. WorkIsBusy'
  BY <1>1, <1>3, <1>4, SMT DEF WorkIsBusy, Bot
<1>7. OneAtWork'
  BY <1>1, SMT DEF OneAtWork, Bot
<1>8. WorkIsClaimed'
  BY <1>1, <1>2, <1>4, SMT DEF WorkIsClaimed
<1>9. WatchIsLive'
  BY <1>1, <1>2, SMT DEF WatchIsLive, On
<1>10. Alone'
  BY <1>1, SMT DEF Alone, Restoring
<1> QED BY <1>5, <1>6, <1>7, <1>8, <1>9, <1>10

LEMMA TogetherInterrupt ==
  ASSUME Together, TypeOK', NEW t \in Threads, Interrupt(t)
  PROVE  Together'
<1> USE TurnsAssumption DEF Together, TypeOK
<1>1. /\ \A m \in Turns : (AtWork(m)' <=> AtWork(m)) /\ (Live(m)' <=> Live(m))
      /\ UNCHANGED <<busy, thread, fleet, watch, grace, restore, registry>>
  BY SMT DEF Interrupt, Stopped, AtWork, Live
<1>2. /\ \A u \in Threads \ {t} : lease'[u] = lease[u]
      /\ stopped \subseteq stopped' /\ \A m \in Turns : thread[m] = t => m \in stopped'
  BY SMT DEF Interrupt, Release, StoppedByUser, On
<1>3. Calm'
  BY <1>1, SMT DEF Calm, registry
<1>4. WorkIsBusy' /\ OneAtWork' /\ WatchIsLive'
  BY <1>1, SMT DEF WorkIsBusy, OneAtWork, WatchIsLive, Bot, On
<1>5. \A m \in Turns : AtWork(m) => thread[m] \in Threads
  BY SMT DEF AtWork
<1>6. WorkIsClaimed'
  BY <1>1, <1>2, <1>5, SMT DEF WorkIsClaimed
<1>7. Alone'
  BY <1>1, <1>2, SMT DEF Alone, Restoring
<1> QED BY <1>3, <1>4, <1>6, <1>7

\* Restores, and events, touch no turn.
LEMMA TogetherBeside ==
  ASSUME Together, TypeOK', UNCHANGED <<busy, stage, thread, fleet, grace, lease, registry, stopped>>,
         \A t \in Threads : watch[t] = "none" => watch'[t] = "none",
         Restoring' => Restoring \/ \A t \in Threads : lease[t] = None
  PROVE  Together'
<1> USE TurnsAssumption DEF Together, TypeOK
<1>1. Calm'
  BY SMT DEF Calm, registry
<1>2. WorkIsBusy' /\ OneAtWork' /\ WorkIsClaimed' /\ WatchIsLive'
  BY SMT DEF WorkIsBusy, OneAtWork, WorkIsClaimed, WatchIsLive, Bot, On, Live, AtWork
<1>3. Alone'
<2>1. \A m \in Turns : AtWork(m) => thread[m] \in Threads
  BY SMT DEF AtWork
<2> QED BY <2>1, SMT DEF Alone, WorkIsClaimed, AtWork
<1> QED BY <1>1, <1>2, <1>3

LEMMA TogetherStep ==
  ASSUME Together, TypeOK', [Next]_vars, ~Wedges, MaxReloads = 0
  PROVE  Together'
<1>1. ASSUME NEW n \in Turns, NEW t \in Threads, Start(n, t) PROVE Together'
  BY <1>1, TogetherStart
<1>2. ASSUME NEW n \in Turns, Dispatch(n) PROVE Together'
  BY <1>2, TogetherDispatch
<1>3. ASSUME NEW n \in Turns, DispatchFails(n) PROVE Together'
  BY <1>3, TogetherEnds, Zenon DEF DispatchFails, AtWork
<1>4. ASSUME NEW n \in Turns, Complete(n) PROVE Together'
<2>1. AtWork(n) /\ Heard(n)
  BY <1>4, SMT DEF Together, Calm, Complete, Live, AtWork, Heard
<2> QED BY <1>4, <2>1, TogetherEnds, Zenon DEF Complete, Bot
<1>5. ASSUME NEW n \in Turns, NEW w \in {"heard", "parked"}, Event(n, w) PROVE Together'
<2>1. \A t \in Threads : watch[t] = "none" => watch'[t] = "none"
  BY <1>5, SMT DEF Event, Together, TypeOK
<2>2. Restoring' <=> Restoring
  BY <1>5, SMT DEF Event, Restoring
<2> QED BY <1>5, <2>1, <2>2, TogetherBeside, Zenon DEF Event
<1>6. ASSUME NEW t \in Threads, Interrupt(t) PROVE Together'
  BY <1>6, TogetherInterrupt
<1>7. ASSUME NEW t \in Threads, Stall(t) PROVE FALSE
  BY <1>7, SMT DEF Stall, Silent, Together, Calm, WatchIsLive, Heard
<1>8. ASSUME NEW t \in Threads, Expire(t) PROVE FALSE
  BY <1>8, SMT DEF Expire, Together, Calm
<1>9. ASSUME NEW b \in Bots, RestoreClaims(b) \/ RestoreBegins(b) \/ RestoreEnds(b)
      PROVE  Together'
<2>1. Restoring' => Restoring \/ \A t \in Threads : lease[t] = None
  BY <1>9, SMT DEF RestoreClaims, RestoreBegins, RestoreEnds, Restoring, Together, TypeOK
<2>2. UNCHANGED <<busy, stage, thread, fleet, watch, grace, lease, registry, stopped>>
  BY <1>9, Zenon DEF RestoreClaims, RestoreBegins, RestoreEnds
<2> QED BY <2>1, <2>2, TogetherBeside
<1>10. CASE ReloadBegins \/ ReloadEnds
  BY <1>10, SMT DEF ReloadBegins, ReloadEnds, Together, Calm
<1>11. CASE UNCHANGED vars
  BY <1>11, TogetherBeside, SMT DEF vars, Restoring, registry
<1> QED BY <1>1, <1>2, <1>3, <1>4, <1>5, <1>6, <1>7, <1>8, <1>9, <1>10, <1>11, Zenon DEF Next

LEMMA TogetherAlways ==
  ASSUME ~Wedges, MaxReloads = 0
  PROVE  Spec => []Together
<1>1. Together /\ [Next]_vars => Together'
  BY TypeStep, TogetherStep DEF Together
<1> QED BY <1>1, TogetherInit, PTL DEF Spec

\* Without silent providers and reloads, whatever is started, stopped or restored and in
\* whatever order, an operator has one provider process at a time, on whatever threads.
THEOREM OneProcessEach ==
  ASSUME ~Wedges, MaxReloads = 0
  PROVE  Spec => []OneProcess
<1>1. Together => OneProcess
  BY SMT DEF Together, OneAtWork, OneProcess, Live, AtWork
<1> QED BY <1>1, TogetherAlways, PTL

\* Then no operator is handed out while its process is heard from: a stop by the user
\* leaves it busy until its turn has ended.
THEOREM HeardIsBusy ==
  ASSUME ~Wedges, MaxReloads = 0
  PROVE  Spec => []LiveIsBusy
<1>1. Together => LiveIsBusy
  BY SMT DEF Together, WorkIsBusy, LiveIsBusy, Live, AtWork
<1> QED BY <1>1, TogetherAlways, PTL

\* And the claims on the folder keep Git and the processes apart, but for the turns the
\* user has stopped.
THEOREM GitWorksAlone ==
  ASSUME ~Wedges, MaxReloads = 0
  PROVE  Spec => []RestoreAlone
<1>1. Together => RestoreAlone
  BY SMT DEF Together, Alone, RestoreAlone, Live, AtWork
<1> QED BY <1>1, TogetherAlways, PTL
-----------------------------------------------------------------------------
(* The Local VM: one process drives the desktop, and nobody takes it away.   *)

Records == [thread : Threads, bot : Bots, old : BOOLEAN]
Counts  == [ops : 0..MaxOps, fails : 0..MaxFails, blind : 0..MaxBlind, restarts : 0..MaxRestarts,
            long : 0..MaxLong]

\* A turn at work that has claimed the desktop, and the lease it took.
Mounted(n)   == AtWork(n) /\ mount[n] # "none"
LeaseOf(n)   == [thread |-> thread[n], bot |-> Bot(n), old |-> FALSE]
Takes(a)     == a \in {"run", "stop", "remove", "idle"}

\* A turn claims after it has started, and before it runs; the watchdog knows who runs.
MountsInOrder == \A n \in Turns : (stage[n] = "new" => mount[n] = "none") /\ (Live(n) => mount[n] = "ready")
LiveIsWatched == \A n \in Turns : Live(n) => watch[thread[n]] # "none"

\* A lease is that of a turn at work, whose thread the map has.
RecordIsUsed == record # None =>
  /\ record.thread \in targets /\ record.bot = Owner[record.thread]
  /\ \E n \in Turns : Mounted(n) /\ On(n, record.thread)

\* While no lease has lapsed under a card, who has claimed holds the lease and the
\* place of the active thread, no request may touch the desktop, and it is up once found ready.
Driven == count.long = 0 => \A n \in Turns : Mounted(n) =>
  /\ record = LeaseOf(n) /\ active = thread[n] /\ ~Takes(work)
  /\ mount[n] = "ready" => desktop = "running"

Desk == VmTypeOK /\ Together /\ MountsInOrder /\ LiveIsWatched /\ RecordIsUsed /\ Driven

\* What it does to the turns is a step of Turns, but for the restart.
LEMMA StepsOfTurns == [VmNext]_vmvars => [Next]_vars \/ Restarts
<1> SUFFICES ASSUME VmNext \/ UNCHANGED vmvars PROVE [Next]_vars \/ Restarts
  OBVIOUS
<1>1. CASE UNCHANGED vmvars
  BY <1>1 DEF vmvars
<1>2. CASE Reserves \/ Others
  BY <1>2 DEF Reserves, Others, Next
<1>3. ASSUME NEW n \in Turns, Dispatches(n) \/ Fails(n) \/ Hears(n) \/ Ends(n) PROVE [Next]_vars
  BY <1>3 DEF Dispatches, Fails, Hears, Ends, Next
<1>4. ASSUME NEW n \in Turns, Claim(n) \/ Inspect(n) PROVE [Next]_vars
  BY <1>4, Zenon DEF Claim, Mounts, Inspect
<1>5. ASSUME NEW a \in Requests, Request(a) PROVE [Next]_vars
  BY <1>5, Zenon DEF Request
<1>6. CASE Answered \/ Look \/ Lapse \/ IdleFires \/ IdleEnds
  BY <1>6, Zenon DEF Answered, Look, Lapse, IdleFires, IdleStops, IdleEnds
<1>. QED BY <1>1, <1>2, <1>3, <1>4, <1>5, <1>6, Zenon DEF VmNext

\* A restart ends every turn that has begun.
LEMMA RestartTurns ==
  ASSUME TypeOK, Restarts
  PROVE  /\ TypeOK' /\ \A n \in Turns : ~AtWork(n)' /\ (stage'[n] = "new" <=> stage[n] = "new")
         /\ Together => Together'
<1>1. /\ busy' = [b \in Bots |-> FALSE] /\ watch' = [t \in Threads |-> "none"] /\ grace' = {}
      /\ stage' = [n \in Turns |-> IF stage[n] = "new" THEN "new" ELSE "over"]
      /\ lease' = [t \in Threads |-> None] /\ restore' = [b \in Bots |-> "none"]
      /\ UNCHANGED <<thread, fleet, registry, stopped>>
  BY Zenon DEF Restarts
<1>2. TypeOK'
  BY <1>1 DEF TypeOK, Stages, registry
<1>3. \A n \in Turns : ~AtWork(n)' /\ (stage'[n] = "new" <=> stage[n] = "new")
  BY <1>1 DEF AtWork
<1>4. ASSUME Together PROVE Together'
  <2>1. Calm' /\ ~Restoring'
    BY <1>1, <1>4 DEF Together, Calm, registry, Restoring
  <2>2. \A t \in Threads : watch'[t] = "none"
    BY <1>1
  <2>3. WorkIsBusy' /\ OneAtWork' /\ WorkIsClaimed' /\ WatchIsLive' /\ Alone'
    BY <1>3, <2>1, <2>2 DEF WorkIsBusy, OneAtWork, WorkIsClaimed, WatchIsLive, Alone
  <2>. QED BY <1>2, <2>1, <2>3 DEF Together
<1>. QED BY <1>2, <1>3, <1>4

LEMMA TogetherVm ==
  ASSUME ~Wedges, MaxReloads = 0, TypeOK, Together, [VmNext]_vmvars
  PROVE  Together'
<1>1. CASE [Next]_vars
  BY <1>1, TypeStep, TogetherStep
<1>2. CASE Restarts
  BY <1>2, RestartTurns
<1>. QED BY <1>1, <1>2, StepsOfTurns

\* The counters of what happens a bounded number of times.
LEMMA Spent ==
  ASSUME count \in Counts, NEW kind \in {"ops", "fails", "blind", "restarts"}, NEW most,
         Spends(kind, most),
         most = CASE kind = "ops" -> MaxOps [] kind = "fails" -> MaxFails [] kind = "blind" -> MaxBlind
                  [] OTHER -> MaxRestarts
  PROVE  count' \in Counts /\ count'.long = count.long
  BY LocalVmAssumption DEF Spends, Counts

LEMMA IdleIsNoRequest == None \notin Records /\ None \notin Requests \cup {"idle"} /\ ~Takes(None)
<1>1. None \notin Records /\ None \notin Requests \cup {"idle"}
  BY LocalVmAssumption, Zenon DEF Records
<1>2. ~Takes(None)
  BY <1>1 DEF Takes, Requests
<1>. QED BY <1>1, <1>2

LEMMA VmTypes ==
  ASSUME VmTypeOK
  PROVE  /\ TypeOK /\ record \in Records \cup {None} /\ targets \subseteq Threads
         /\ active \in Threads \cup {None} /\ mount \in [Turns -> {"none", "claimed", "ready"}]
         /\ work \in Requests \cup {"idle", None} /\ desktop \in {"missing", "stopped", "running"}
         /\ timer \in BOOLEAN /\ count \in Counts
         /\ \A n \in Turns : AtWork(n) => thread[n] \in Threads /\ Bot(n) \in Bots /\ Bot(n) = Owner[thread[n]]
                                          /\ stage[n] # "new" /\ LeaseOf(n) \in Records /\ LeaseOf(n) # None
         /\ \A n \in Turns : Live(n) => AtWork(n)
<1>1. TypeOK /\ targets \subseteq Threads /\ active \in Threads \cup {None}
      /\ mount \in [Turns -> {"none", "claimed", "ready"}]
      /\ work \in Requests \cup {"idle", None} /\ desktop \in {"missing", "stopped", "running"}
      /\ timer \in BOOLEAN
  BY Zenon DEF VmTypeOK
<1>2. record \in Records \cup {None} /\ count \in Counts
  BY Zenon DEF VmTypeOK, Records, Counts
<1>3. \A n \in Turns : AtWork(n) => thread[n] \in Threads /\ Bot(n) \in Bots /\ Bot(n) = Owner[thread[n]]
                                    /\ stage[n] # "new"
  BY <1>1, TurnsAssumption DEF TypeOK, AtWork, Bot
<1>4. \A n \in Turns : AtWork(n) => LeaseOf(n) \in Records /\ LeaseOf(n) # None
  <2>1. None \notin Records
    BY LocalVmAssumption, Zenon DEF Records
  <2>2. \A n \in Turns : AtWork(n) => LeaseOf(n) \in Records
    BY <1>3 DEF LeaseOf, Records
  <2>. QED BY <2>1, <2>2, Zenon
<1>5. \A n \in Turns : Live(n) => AtWork(n)
  BY DEF Live, AtWork
<1>. QED BY <1>1, <1>2, <1>3, <1>4, <1>5

\* A turn at work has its thread, and its operator, to itself; while it has claimed the
\* desktop its lease is current.
LEMMA OwnThread ==
  ASSUME Desk, NEW m \in Turns, NEW n \in Turns, AtWork(m), AtWork(n), thread[m] = thread[n]
  PROVE  m = n
  BY DEF Desk, Together, OneAtWork, Bot

LEMMA MountedHolds ==
  ASSUME Desk, count.long = 0, NEW n \in Turns, Mounted(n)
  PROVE  /\ Current = record /\ record = LeaseOf(n) /\ record # None /\ record.thread = thread[n]
         /\ record.bot = Bot(n) /\ ~record.old
<1>1. record = LeaseOf(n) /\ record # None
  BY VmTypes DEF Desk, Driven, Mounted
<1>2. record.thread = thread[n] /\ record.bot = Bot(n) /\ ~record.old
  BY <1>1 DEF LeaseOf
<1>3. busy[Bot(n)]
  BY DEF Desk, Together, WorkIsBusy, Mounted
<1>. QED BY <1>1, <1>2, <1>3 DEF Current

LEMMA OneMounted ==
  ASSUME Desk, count.long = 0, NEW m \in Turns, NEW n \in Turns, Mounted(m), Mounted(n)
  PROVE  m = n
<1>1. thread[m] = thread[n]
  BY MountedHolds
<1>. QED BY <1>1, OwnThread DEF Mounted

\* A step of the turns alone, or of the desktop's own life, that starts and ends none.
LEMMA DeskOfTurns ==
  ASSUME Desk, Together', VmTypeOK', UNCHANGED <<thread, maps, mount>>,
         \A n \in Turns : AtWork(n)' <=> AtWork(n),
         \A n \in Turns : stage'[n] = "new" => stage[n] = "new",
         \A n \in Turns : Live(n)' => mount[n] = "ready" /\ watch'[thread[n]] # "none",
         count'.long = 0 => count.long = 0,
         (\E n \in Turns : Mounted(n) /\ count.long = 0)
           => ~Takes(work') /\ (desktop = "running" => desktop' = "running")
  PROVE  Desk'
<1>1. UNCHANGED <<record, targets, active>> /\ \A n \in Turns : Mounted(n)' <=> Mounted(n)
  BY DEF maps, Mounted
<1>2. MountsInOrder' /\ LiveIsWatched'
  BY DEF MountsInOrder, LiveIsWatched, Desk
<1>3. RecordIsUsed'
  BY <1>1 DEF Desk, RecordIsUsed, On
<1>4. Driven'
  BY <1>1 DEF Desk, Driven, LeaseOf, Bot
<1>. QED BY <1>2, <1>3, <1>4 DEF Desk

LEMMA DeskOfReserves == Desk /\ Together' /\ VmTypeOK' /\ Reserves => Desk'
<1> SUFFICES ASSUME Desk, Together', VmTypeOK', NEW n \in Turns, NEW t \in Threads, Start(n, t), UNCHANGED vm
             PROVE  Desk'
  BY DEF Reserves
<1>0. stage \in [Turns -> Stages] /\ thread \in [Turns -> Threads \cup {None}] /\ mount[n] = "none"
  BY DEF Desk, VmTypeOK, TypeOK, MountsInOrder, Start, Reserve
<1>1. /\ \A m \in Turns : m # n => stage'[m] = stage[m] /\ thread'[m] = thread[m]
      /\ stage'[n] = "setup" /\ watch' = watch
      /\ UNCHANGED <<record, targets, active, mount, work, desktop, count>>
  BY <1>0, Zenon DEF Start, Reserve, vm, maps, machine
<1>2. \A m \in Turns : /\ m # n => (AtWork(m)' <=> AtWork(m)) /\ (Live(m)' <=> Live(m))
                       /\ ~Mounted(n)' /\ ~Live(n)' /\ (Mounted(m)' <=> Mounted(m) /\ m # n)
  BY <1>0, <1>1 DEF AtWork, Live, Mounted
<1>3. MountsInOrder' /\ LiveIsWatched'
  BY <1>0, <1>1, <1>2 DEF MountsInOrder, LiveIsWatched, Desk
<1>4. ~Mounted(n)
  BY <1>0 DEF Mounted
<1>5. RecordIsUsed'
  BY <1>1, <1>2, <1>4 DEF Desk, RecordIsUsed, On
<1>6. \A m \in Turns : m # n => LeaseOf(m)' = LeaseOf(m)
  BY <1>1 DEF LeaseOf, Bot
<1>7. Driven'
  BY <1>1, <1>2, <1>4, <1>6 DEF Desk, Driven
<1>. QED BY <1>3, <1>5, <1>7 DEF Desk

LEMMA DeskOfClaim ==
  ASSUME Desk, Together', VmTypeOK', NEW n \in Turns, Claim(n)
  PROVE  Desk'
<1>1. /\ stage[n] = "setup" /\ mount[n] = "none" /\ MayClaim(thread[n]) /\ work = None
      /\ record' = [thread |-> thread[n], bot |-> Owner[thread[n]], old |-> FALSE]
      /\ targets' = targets \cup {thread[n]} /\ active' = thread[n]
      /\ mount' = [mount EXCEPT ![n] = "claimed"]
      /\ UNCHANGED <<vars, work, desktop, count>>
  BY Zenon DEF Claim, Mounts, List
<1>2. AtWork(n) /\ UNCHANGED <<stage, thread, watch>>
  BY <1>1, Zenon DEF AtWork, vars
<1>3. /\ mount'[n] = "claimed" /\ \A m \in Turns : m # n => mount'[m] = mount[m]
      /\ \A m \in Turns : (AtWork(m)' <=> AtWork(m)) /\ (Live(m)' <=> Live(m)) /\ LeaseOf(m)' = LeaseOf(m)
  BY <1>1, <1>2, VmTypes DEF Desk, AtWork, Live, LeaseOf, Bot
<1>4. ~Live(n) /\ stage[n] # "new"
  BY <1>1 DEF Live
<1>5. MountsInOrder' /\ LiveIsWatched'
  BY <1>2, <1>3, <1>4 DEF MountsInOrder, LiveIsWatched, Desk
<1>6. record' = LeaseOf(n)
  BY <1>1, Zenon DEF LeaseOf, Bot
<1>7. RecordIsUsed'
  <2>1. record'.thread = thread[n] /\ record'.bot = Owner[thread[n]]
    BY <1>1
  <2>2. Mounted(n)' /\ thread'[n] = record'.thread
    BY <1>2, <1>3, <2>1 DEF Mounted
  <2>3. record'.thread \in targets'
    BY <1>1, <2>1
  <2>. QED BY <1>2, <2>1, <2>2, <2>3 DEF RecordIsUsed, On
<1>8. Driven'
  <2> SUFFICES ASSUME count.long = 0, NEW m \in Turns, Mounted(m)'
               PROVE  /\ record' = LeaseOf(m) /\ active' = thread[m] /\ ~Takes(work)
                      /\ mount'[m] = "ready" => desktop = "running"
    BY <1>1, <1>2, <1>3 DEF Driven
  <2>1. ASSUME m # n PROVE FALSE
    <3>1. Mounted(m)
      BY <1>3, <2>1 DEF Mounted
    <3>2. thread[m] = thread[n]
      BY <1>1, <3>1, MountedHolds DEF MayClaim
    <3>. QED BY <1>2, <2>1, <3>1, <3>2, OwnThread DEF Mounted
  <2>2. ~Takes(work)
    BY <1>1, IdleIsNoRequest
  <2>3. m = n
    BY <2>1
  <2>4. mount'[m] # "ready"
    BY <1>3, <2>3
  <2>. QED BY <1>1, <1>6, <2>2, <2>3, <2>4
<1>. QED BY <1>5, <1>7, <1>8 DEF Desk

LEMMA DeskOfInspect ==
  ASSUME Desk, Together', VmTypeOK', NEW n \in Turns, Inspect(n)
  PROVE  Desk'
<1>1. /\ stage[n] = "setup" /\ mount[n] = "claimed" /\ desktop = "running"
      /\ mount' = [mount EXCEPT ![n] = "ready"]
      /\ UNCHANGED <<stage, thread, watch, record, targets, active, work, desktop, count>>
  BY Zenon DEF Inspect, vars, maps, machine
<1>2. /\ mount'[n] = "ready" /\ \A m \in Turns : m # n => mount'[m] = mount[m]
      /\ \A m \in Turns : (AtWork(m)' <=> AtWork(m)) /\ (Live(m)' <=> Live(m)) /\ LeaseOf(m)' = LeaseOf(m)
  BY <1>1, VmTypes DEF Desk, AtWork, Live, LeaseOf, Bot
<1>3. \A m \in Turns : Mounted(m)' <=> Mounted(m)
  BY <1>1, <1>2 DEF Mounted
<1>4. MountsInOrder' /\ LiveIsWatched'
  BY <1>1, <1>2 DEF MountsInOrder, LiveIsWatched, Desk
<1>5. RecordIsUsed'
  BY <1>1, <1>3 DEF Desk, RecordIsUsed, On
<1>6. Driven'
  BY <1>1, <1>2, <1>3 DEF Desk, Driven
<1>. QED BY <1>4, <1>5, <1>6 DEF Desk

LEMMA DeskOfDispatches ==
  ASSUME Desk, Together', VmTypeOK', NEW n \in Turns, Dispatches(n)
  PROVE  Desk'
<1>1. /\ mount[n] = "ready" /\ stage[n] = "setup" /\ stage' = [stage EXCEPT ![n] = "running"]
      /\ watch' = [watch EXCEPT ![thread[n]] = "heard"]
      /\ UNCHANGED <<thread, maps, mount, work, desktop, count>>
  BY Zenon DEF Dispatches, Dispatch, vm, machine
<1>2. /\ stage \in [Turns -> Stages] /\ watch \in [Threads -> {"none", "heard", "parked"}]
      /\ \A m \in Turns : AtWork(m) => thread[m] \in Threads
  BY VmTypes DEF Desk, TypeOK
<1>3. \A m \in Turns : (AtWork(m)' <=> AtWork(m)) /\ (stage'[m] = "new" => stage[m] = "new")
                       /\ (Live(m)' => Live(m) \/ m = n)
  BY <1>1, <1>2 DEF AtWork, Live
<1>4. \A m \in Turns : Live(m)' => mount[m] = "ready" /\ watch'[thread[m]] # "none"
  <2>1. AtWork(n)
    BY <1>1 DEF AtWork
  <2>2. \A m \in Turns : Live(m) => AtWork(m) /\ mount[m] = "ready" /\ watch[thread[m]] # "none"
    BY DEF Live, AtWork, Desk, MountsInOrder, LiveIsWatched
  <2>. QED BY <1>1, <1>2, <1>3, <2>1, <2>2
<1>. QED BY <1>1, <1>3, <1>4, DeskOfTurns DEF Desk, Driven

LEMMA DeskOfOthers ==
  ASSUME ~Wedges, Desk, Together', VmTypeOK', Others
  PROVE  Desk'
<1>1. ASSUME NEW t \in Threads, Stall(t) PROVE FALSE
  BY <1>1, SMT DEF Stall, Silent, Desk, Together, Calm, WatchIsLive, Heard
<1>2. ASSUME NEW t \in Threads, Expire(t) PROVE FALSE
  BY <1>2, SMT DEF Expire, Desk, Together, Calm
<1>3. PICK t \in Threads : Interrupt(t) /\ UNCHANGED vm
  BY <1>1, <1>2 DEF Others
<1>4. stage' = Stopped(t) /\ UNCHANGED <<thread, watch, maps, mount, work, desktop, count>>
  BY <1>3, Zenon DEF Interrupt, vm, machine
<1>5. \A m \in Turns : (AtWork(m)' <=> AtWork(m)) /\ (stage'[m] = "new" => stage[m] = "new")
                       /\ (Live(m)' => Live(m))
  BY <1>4 DEF AtWork, Live, Stopped
<1>. QED BY <1>4, <1>5, DeskOfTurns DEF Desk, Driven, MountsInOrder, LiveIsWatched

\* A turn at work ends, and its thread is released, from a lease that is still there or
\* had lapsed.
LEMMA DeskOfRelease ==
  ASSUME Desk, Together', VmTypeOK', NEW n \in Turns, AtWork(n),
         stage' = [stage EXCEPT ![n] = "over"], watch' = [watch EXCEPT ![thread[n]] = "none"],
         UNCHANGED <<thread, mount, work, desktop, count>>,
         NEW r, r = record \/ (r = None /\ record # None /\ record.old), ReleaseThread(thread[n], r)
  PROVE  Desk'
<1>0. /\ stage \in [Turns -> Stages] /\ watch \in [Threads -> {"none", "heard", "parked"}]
      /\ \A m \in Turns : AtWork(m) => thread[m] \in Threads
  BY VmTypes DEF Desk, TypeOK
<1>1. \A m \in Turns : /\ AtWork(m)' <=> AtWork(m) /\ m # n
                       /\ Live(m)' <=> Live(m) /\ m # n
                       /\ stage'[m] = "new" => stage[m] = "new"
                       /\ LeaseOf(m)' = LeaseOf(m) /\ (Mounted(m)' <=> Mounted(m) /\ m # n)
  BY <1>0 DEF AtWork, Live, LeaseOf, Bot, Mounted
<1>2. \A m \in Turns : AtWork(m) /\ m # n => thread[m] # thread[n]
  BY OwnThread
<1>3. \A m \in Turns : Live(m)' => watch'[thread[m]] = watch[thread[m]]
  BY <1>0, <1>1, <1>2 DEF Live, AtWork
<1>4. MountsInOrder' /\ LiveIsWatched'
  BY <1>1, <1>3 DEF MountsInOrder, LiveIsWatched, Desk
<1>5. /\ thread[n] \in targets =>
           /\ record' = IF r # None /\ r.thread = thread[n] THEN None ELSE r
           /\ active' = IF active = thread[n] THEN None ELSE active
           /\ targets' = targets \ {thread[n]}
      /\ thread[n] \notin targets => UNCHANGED <<record, targets, active>>
  BY Zenon DEF ReleaseThread, Listed, maps
<1>6. RecordIsUsed'
  <2> SUFFICES ASSUME record' # None
               PROVE  /\ record'.thread \in targets' /\ record'.bot = Owner[record'.thread]
                      /\ \E m \in Turns : Mounted(m)' /\ thread[m] = record'.thread
    BY DEF RecordIsUsed, On
  <2>1. record' = record
    BY <1>5
  <2>2. record.thread \in targets /\ record.bot = Owner[record.thread]
    BY <2>1 DEF Desk, RecordIsUsed
  <2>3. PICK m \in Turns : Mounted(m) /\ thread[m] = record.thread
    BY <2>1 DEF Desk, RecordIsUsed, On
  <2>4. record.thread # thread[n] /\ record.thread \in targets'
    BY <1>5, <2>1, <2>2
  <2>. QED BY <1>1, <2>1, <2>2, <2>3, <2>4
<1>7. Driven'
  <2> SUFFICES ASSUME count.long = 0, NEW m \in Turns, Mounted(m), m # n
               PROVE  record' = LeaseOf(m) /\ active' = thread[m]
    BY <1>1 DEF Driven, Desk
  <2>1. record = LeaseOf(m) /\ record # None /\ record.thread = thread[m] /\ ~record.old /\ active = thread[m]
    BY MountedHolds DEF Desk, Driven
  <2>2. thread[m] # thread[n] /\ r = record
    BY <1>2, <2>1 DEF Mounted
  <2>. QED BY <1>5, <2>1, <2>2
<1>. QED BY <1>4, <1>6, <1>7 DEF Desk

LEMMA DeskOfFails ==
  ASSUME Desk, Together', VmTypeOK', NEW n \in Turns, Fails(n)
  PROVE  Desk'
<1>1. /\ stage[n] = "setup" /\ stage' = [stage EXCEPT ![n] = "over"]
      /\ watch' = [watch EXCEPT ![thread[n]] = "none"] /\ ReleaseThread(thread[n], record)
      /\ UNCHANGED <<thread, mount, work, desktop, count>>
  BY Zenon DEF Fails, DispatchFails, Unwatch, machine
<1>. QED BY <1>1, DeskOfRelease DEF AtWork

LEMMA DeskOfEnds ==
  ASSUME Desk, Together', VmTypeOK', NEW n \in Turns, Ends(n)
  PROVE  Desk'
<1>1. Heard(n)
  BY DEF Desk, Together, Calm, Heard
<1>2. /\ Live(n) /\ stage' = [stage EXCEPT ![n] = "over"]
      /\ watch' = [watch EXCEPT ![thread[n]] = "none"] /\ ReleaseThread(thread[n], Touched)
      /\ UNCHANGED <<thread, mount, work, desktop, count>>
  BY <1>1, Zenon DEF Ends, Complete, Unwatch
<1>3. Touched = record \/ (Touched = None /\ record # None /\ record.old)
  BY DEF Touched
<1>. QED BY <1>2, <1>3, DeskOfRelease, VmTypes DEF Desk

LEMMA DeskOfHears ==
  ASSUME Desk, Together', VmTypeOK', NEW n \in Turns, Hears(n)
  PROVE  Desk'
<1>1. /\ Live(n) /\ (watch' = watch \/ watch' = [watch EXCEPT ![thread[n]] = "heard"]
                                    \/ watch' = [watch EXCEPT ![thread[n]] = "parked"])
      /\ UNCHANGED <<stage, thread, targets, active, mount, work, desktop, count>>
      /\ record' = record \/ record' = Touched
  BY Zenon DEF Hears, Event, vars
<1>2. \A m \in Turns : (AtWork(m)' <=> AtWork(m)) /\ (Live(m)' <=> Live(m)) /\ LeaseOf(m)' = LeaseOf(m)
                       /\ (Mounted(m)' <=> Mounted(m))
  BY <1>1 DEF AtWork, Live, LeaseOf, Bot, Mounted
<1>3. \A m \in Turns : Live(m) => thread[m] \in Threads
  BY VmTypes DEF Desk
<1>4. watch \in [Threads -> {"none", "heard", "parked"}]
  BY DEF Desk, VmTypeOK, TypeOK
<1>5. MountsInOrder' /\ LiveIsWatched'
  BY <1>1, <1>2, <1>3, <1>4 DEF MountsInOrder, LiveIsWatched, Desk
<1>6. record' = record \/ record' = None
  BY <1>1 DEF Touched
<1>7. RecordIsUsed'
  BY <1>1, <1>2, <1>6 DEF Desk, RecordIsUsed, On
<1>8. Driven'
  <2>1. count.long = 0 /\ (\E m \in Turns : Mounted(m)) => record' = record
    BY <1>1, MountedHolds DEF Touched
  <2>. QED BY <1>1, <1>2, <2>1 DEF Desk, Driven
<1>. QED BY <1>5, <1>7, <1>8 DEF Desk

\* A route of the desktop's life finds the lease, or nobody drives.
LEMMA DeskOfRequest ==
  ASSUME Desk, Together', VmTypeOK', NEW a \in Requests, Request(a)
  PROVE  Desk'
<1>1. /\ work' = a /\ record' = Current /\ (a \in {"run", "stop", "remove"} => Current = None)
      /\ count' = [count EXCEPT !.ops = @ + 1]
      /\ UNCHANGED <<stage, thread, watch, targets, active, mount, desktop>>
  BY Zenon DEF Request, vars
<1>2. count \in Counts
  BY VmTypes DEF Desk
<1>3. count'.long = count.long
  BY <1>1, <1>2 DEF Counts
<1>4. \A m \in Turns : (AtWork(m)' <=> AtWork(m)) /\ (Live(m)' <=> Live(m)) /\ LeaseOf(m)' = LeaseOf(m)
                       /\ (Mounted(m)' <=> Mounted(m))
  BY <1>1 DEF AtWork, Live, LeaseOf, Bot, Mounted
<1>5. MountsInOrder' /\ LiveIsWatched'
  BY <1>1, <1>4 DEF MountsInOrder, LiveIsWatched, Desk
<1>6. RecordIsUsed'
  <2>1. record' = record \/ record' = None
    BY <1>1 DEF Current
  <2>. QED BY <1>1, <1>4, <2>1 DEF Desk, RecordIsUsed, On
<1>7. Driven'
  <2> SUFFICES ASSUME count.long = 0, NEW m \in Turns, Mounted(m)
               PROVE  record' = record /\ ~Takes(a)
    BY <1>1, <1>3, <1>4 DEF Desk, Driven
  <2>1. Current = record /\ record # None
    BY MountedHolds
  <2>2. a \notin {"run", "stop", "remove"}
    BY <1>1, <2>1
  <2>3. a # "idle"
    BY DEF Requests
  <2>. QED BY <1>1, <2>1, <2>2, <2>3 DEF Takes
<1>. QED BY <1>5, <1>6, <1>7 DEF Desk

\* What the desktop does by itself leaves the turns and the lease alone.
LEMMA DeskOfMachine ==
  ASSUME Desk, Together', VmTypeOK', UNCHANGED <<vars, maps, mount>>, count'.long = count.long,
         (\E n \in Turns : Mounted(n) /\ count.long = 0)
           => ~Takes(work') /\ (desktop = "running" => desktop' = "running")
  PROVE  Desk'
<1>1. UNCHANGED <<stage, thread, watch>>
  BY DEF vars
<1>2. \A n \in Turns : AtWork(n)' <=> AtWork(n)
  BY <1>1 DEF AtWork
<1>3. \A n \in Turns : Live(n)' => mount[n] = "ready" /\ watch'[thread[n]] # "none"
  BY <1>1 DEF Live, Desk, MountsInOrder, LiveIsWatched
<1>. QED BY <1>1, <1>2, <1>3, DeskOfTurns

LEMMA DeskOfAnswered == Desk /\ Together' /\ VmTypeOK' /\ Answered => Desk'
<1> SUFFICES ASSUME Desk, Together', VmTypeOK', Answered PROVE Desk'
  OBVIOUS
<1>1. work \in Requests /\ work' = None /\ UNCHANGED <<vars, maps, mount>>
  BY Zenon DEF Answered
<1>2. count'.long = count.long
  <2>1. count \in Counts
    BY VmTypes DEF Desk
  <2>2. UNCHANGED count \/ Spends("fails", MaxFails) \/ Spends("blind", MaxBlind)
    BY Zenon DEF Answered
  <2>. QED BY <2>1, <2>2 DEF Spends, Counts
<1>3. ASSUME NEW n \in Turns, Mounted(n), count.long = 0
      PROVE  ~Takes(work') /\ (desktop = "running" => desktop' = "running")
  <2>1. ~Takes(work)
    BY <1>3 DEF Desk, Driven
  <2>2. Works(work) => UNCHANGED desktop
    BY <2>1 DEF Works, Takes
  <2>3. Works(work) \/ UNCHANGED desktop
    BY Zenon DEF Answered
  <2>. QED BY <1>1, <2>2, <2>3, IdleIsNoRequest
<1>. QED BY <1>1, <1>2, <1>3, DeskOfMachine

LEMMA DeskOfLook == Desk /\ Together' /\ VmTypeOK' /\ Look => Desk'
<1> SUFFICES ASSUME Desk, Together', VmTypeOK', Look PROVE Desk'
  OBVIOUS
<1>1. UNCHANGED <<vars, maps, mount, work, desktop, count>>
  BY Zenon DEF Look
<1>2. \A n \in Turns : Mounted(n) /\ count.long = 0 => ~Takes(work)
  BY DEF Desk, Driven
<1>. QED BY <1>1, <1>2, DeskOfMachine

\* A lease lapses under a card only: whoever drives is heard from otherwise.
LEMMA DeskOfLapse == Desk /\ Together' /\ VmTypeOK' /\ Lapse => Desk'
<1> SUFFICES ASSUME Desk, Together', VmTypeOK', Lapse PROVE Desk'
  OBVIOUS
<1>1. /\ record # None /\ Quiet(record.thread) /\ record' = [record EXCEPT !.old = TRUE]
      /\ IF watch[record.thread] = "parked" THEN Spends("long", MaxLong) ELSE UNCHANGED count
      /\ UNCHANGED <<stage, thread, watch, targets, active, mount, work, desktop>>
  BY Zenon DEF Lapse, vars
<1>2. record \in Records /\ count \in Counts /\ watch \in [Threads -> {"none", "heard", "parked"}]
  BY <1>1, VmTypes DEF Desk, TypeOK
<1>3. record'.thread = record.thread /\ record'.bot = record.bot /\ record'.old
  BY <1>1, <1>2 DEF Records
<1>4. \A m \in Turns : (AtWork(m)' <=> AtWork(m)) /\ (Live(m)' <=> Live(m))
                       /\ (Mounted(m)' <=> Mounted(m))
  BY <1>1 DEF AtWork, Live, Mounted
<1>5. MountsInOrder' /\ LiveIsWatched'
  BY <1>1, <1>4 DEF MountsInOrder, LiveIsWatched, Desk
<1>6. RecordIsUsed'
  BY <1>1, <1>3, <1>4 DEF Desk, RecordIsUsed, On
<1>7. ASSUME count.long = 0, NEW m \in Turns, Mounted(m) PROVE watch[record.thread] = "parked"
  <2>1. record.thread = thread[m]
    BY <1>7, MountedHolds
  <2>2. stage[m] # "setup" /\ watch[thread[m]] # "heard"
    BY <1>1, <2>1 DEF Quiet, On
  <2>3. Live(m)
    BY <1>7, <2>2 DEF Mounted, AtWork, Live
  <2>4. watch[thread[m]] # "none" /\ thread[m] \in Threads
    BY <2>3, VmTypes DEF Desk, LiveIsWatched
  <2>. QED BY <1>2, <2>1, <2>2, <2>4
<1>8. ASSUME watch[record.thread] = "parked" PROVE count'.long # 0
  BY <1>1, <1>2, <1>8 DEF Spends, Counts
<1>9. count'.long = 0 => count.long = 0
  <2>1. CASE watch[record.thread] = "parked"
    BY <1>8, <2>1
  <2>2. CASE watch[record.thread] # "parked"
    BY <1>1, <2>2
  <2>. QED BY <2>1, <2>2
<1>10. Driven'
  BY <1>4, <1>7, <1>8, <1>9 DEF Driven
<1>. QED BY <1>5, <1>6, <1>10 DEF Desk

\* The idle timer stops a desktop that no turn has claimed.
LEMMA DeskOfIdleFires == Desk /\ Together' /\ VmTypeOK' /\ IdleFires => Desk'
<1> SUFFICES ASSUME Desk, Together', VmTypeOK', IdleFires PROVE Desk'
  OBVIOUS
<1>1. active = None /\ UNCHANGED <<vars, maps, mount, desktop, count>>
  BY Zenon DEF IdleFires, IdleStops
<1>2. \A n \in Turns : ~(Mounted(n) /\ count.long = 0)
  <2> SUFFICES ASSUME NEW n \in Turns, Mounted(n), count.long = 0 PROVE FALSE
    OBVIOUS
  <2>1. active = thread[n] /\ thread[n] \in Threads
    BY VmTypes DEF Desk, Driven, Mounted
  <2>. QED BY <1>1, <2>1, TurnsAssumption
<1>. QED BY <1>1, <1>2, DeskOfMachine

LEMMA DeskOfIdleEnds == Desk /\ Together' /\ VmTypeOK' /\ IdleEnds => Desk'
<1> SUFFICES ASSUME Desk, Together', VmTypeOK', IdleEnds PROVE Desk'
  OBVIOUS
<1>1. work = "idle" /\ UNCHANGED <<vars, maps, mount>>
      /\ (UNCHANGED count \/ Spends("fails", MaxFails) \/ Spends("blind", MaxBlind))
  BY Zenon DEF IdleEnds
<1>2. count'.long = count.long
  <2>1. count \in Counts
    BY VmTypes DEF Desk
  <2>. QED BY <1>1, <2>1 DEF Spends, Counts
<1>3. \A n \in Turns : ~(Mounted(n) /\ count.long = 0)
  BY <1>1 DEF Desk, Driven, Takes
<1>. QED BY <1>1, <1>2, <1>3, DeskOfMachine

LEMMA DeskOfRestarts == Desk /\ Together' /\ VmTypeOK' /\ Restarts => Desk'
<1> SUFFICES ASSUME Desk, Together', VmTypeOK', Restarts PROVE Desk'
  OBVIOUS
<1>1. \A n \in Turns : ~AtWork(n)' /\ (stage'[n] = "new" <=> stage[n] = "new")
  BY RestartTurns DEF Desk, Together
<1>2. record' = None /\ UNCHANGED mount
  BY Zenon DEF Restarts
<1>3. \A n \in Turns : ~Live(n)' /\ ~Mounted(n)'
  BY <1>1 DEF Live, AtWork, Mounted
<1>. QED BY <1>1, <1>2, <1>3 DEF Desk, MountsInOrder, LiveIsWatched, RecordIsUsed, Driven
-----------------------------------------------------------------------------
LEMMA DeskInit == VmInit => Desk
<1> SUFFICES ASSUME VmInit PROVE Desk
  OBVIOUS
<1>1. /\ Init /\ record = None /\ targets = {} /\ active = None
      /\ mount = [n \in Turns |-> "none"] /\ work = None /\ desktop = "missing" /\ timer = FALSE
      /\ count = [ops |-> 0, fails |-> 0, blind |-> 0, restarts |-> 0, long |-> 0]
  BY Zenon DEF VmInit
<1>2. Together /\ TypeOK /\ \A n \in Turns : ~AtWork(n)
  BY <1>1, TogetherInit, TypeInit DEF Init, AtWork
<1>3. count \in [ops : 0..MaxOps, fails : 0..MaxFails, blind : 0..MaxBlind, restarts : 0..MaxRestarts,
                 long : 0..MaxLong]
  BY <1>1, LocalVmAssumption
<1>4. VmTypeOK
  BY <1>1, <1>2, <1>3 DEF VmTypeOK
<1>5. \A n \in Turns : ~Mounted(n) /\ ~Live(n) /\ mount[n] = "none"
  BY <1>1, <1>2 DEF Mounted, Live, AtWork
<1>. QED BY <1>1, <1>2, <1>4, <1>5 DEF Desk, MountsInOrder, LiveIsWatched, RecordIsUsed, Driven

\* What is left in the lease and the maps is of their types.
LEMMA ReleasedTypes ==
  ASSUME VmTypeOK, NEW t, NEW r \in Records \cup {None}, ReleaseThread(t, r)
  PROVE  /\ record' \in Records \cup {None} /\ targets' \subseteq Threads /\ active' \in Threads \cup {None}
<1>1. record \in Records \cup {None} /\ targets \subseteq Threads /\ active \in Threads \cup {None}
  BY VmTypes
<1>2. record' \in {None, r, record} /\ targets' \subseteq targets /\ active' \in {None, active}
  BY SMT DEF ReleaseThread, maps
<1>. QED BY <1>1, <1>2

\* The bounded events: each counter stays in its bounds.
LEMMA CountStep ==
  ASSUME VmTypeOK, VmNext \/ UNCHANGED vmvars
  PROVE  count' \in Counts
<1>0. count \in Counts
  BY VmTypes
<1>1. UNCHANGED count => count' \in Counts
  BY <1>0
<1>2. Spends("fails", MaxFails) \/ Spends("blind", MaxBlind) \/ Spends("restarts", MaxRestarts)
        => count' \in Counts
  BY <1>0, LocalVmAssumption DEF Spends, Counts
<1>3. Spends("long", MaxLong) => count' \in Counts
  BY <1>0, LocalVmAssumption DEF Spends, Counts
<1>4. ASSUME NEW a \in Requests, Request(a) PROVE count' \in Counts
  BY <1>0, <1>4, LocalVmAssumption DEF Request, Counts
<1>5. CASE Reserves \/ Others \/ Look \/ IdleFires \/ UNCHANGED vmvars
  BY <1>1, <1>5, Zenon DEF Reserves, Others, Look, IdleFires, IdleStops, vmvars, vm, machine
<1>6. CASE Answered \/ Lapse \/ IdleEnds \/ Restarts
  BY <1>1, <1>2, <1>3, <1>6, Zenon DEF Answered, Lapse, IdleEnds, Restarts
<1>7. ASSUME NEW n \in Turns, Claim(n) \/ Inspect(n) \/ Dispatches(n) \/ Fails(n) \/ Hears(n) \/ Ends(n)
      PROVE  count' \in Counts
  BY <1>1, <1>7, Zenon DEF Claim, Mounts, Inspect, Dispatches, Fails, Hears, Ends, vm, machine
<1>. QED BY <1>4, <1>5, <1>6, <1>7, Zenon DEF VmNext

\* The lease, and the maps of who uses the desktop.
LEMMA MapsStep ==
  ASSUME VmTypeOK, VmNext \/ UNCHANGED vmvars
  PROVE  record' \in Records \cup {None} /\ targets' \subseteq Threads /\ active' \in Threads \cup {None}
<1>0. record \in Records \cup {None} /\ targets \subseteq Threads /\ active \in Threads \cup {None}
  BY VmTypes
<1>1. CASE UNCHANGED maps
  BY <1>0, <1>1 DEF maps
<1>2. Current \in Records \cup {None} /\ Touched \in Records \cup {None}
  BY <1>0 DEF Current, Touched
<1>3. ASSUME NEW a \in Requests, Request(a) PROVE record' = Current /\ UNCHANGED <<targets, active>>
  BY <1>3, Zenon DEF Request
<1>4. CASE Reserves \/ Others \/ Look \/ IdleFires \/ Answered \/ IdleEnds \/ UNCHANGED vmvars
  BY <1>1, <1>4, Zenon DEF Reserves, Others, Look, IdleFires, IdleStops, Answered, IdleEnds, vmvars, vm
<1>5. CASE Lapse
  <2>1. record # None /\ record' = [record EXCEPT !.old = TRUE] /\ UNCHANGED <<targets, active>>
    BY <1>5, Zenon DEF Lapse
  <2>. QED BY <1>0, <2>1 DEF Records
<1>6. CASE Restarts
  BY <1>6, Zenon DEF Restarts
<1>7. ASSUME NEW n \in Turns, Inspect(n) \/ Dispatches(n) PROVE UNCHANGED maps
  BY <1>7, Zenon DEF Inspect, Dispatches, vm
<1>8. ASSUME NEW n \in Turns, Claim(n)
      PROVE  record' \in Records \cup {None} /\ targets' \subseteq Threads /\ active' \in Threads \cup {None}
  <2>1. /\ stage[n] = "setup" /\ targets' = targets \cup {thread[n]} /\ active' = thread[n]
        /\ record' = [thread |-> thread[n], bot |-> Owner[thread[n]], old |-> FALSE]
    BY <1>8, Zenon DEF Claim, Mounts, List
  <2>2. AtWork(n)
    BY <2>1 DEF AtWork
  <2>3. record' = LeaseOf(n)
    BY <2>1, Zenon DEF LeaseOf, Bot
  <2>4. thread[n] \in Threads /\ LeaseOf(n) \in Records
    BY <2>2, VmTypes
  <2>. QED BY <1>0, <2>1, <2>3, <2>4
<1>9. ASSUME NEW n \in Turns, Fails(n) \/ Ends(n)
      PROVE  UNCHANGED maps \/ ReleaseThread(thread[n], record) \/ ReleaseThread(thread[n], Touched)
  BY <1>9, Zenon DEF Fails, Ends
<1>10. ASSUME NEW n \in Turns, Hears(n)
       PROVE  (record' = Touched \/ record' = record) /\ UNCHANGED <<targets, active>>
  BY <1>10, Zenon DEF Hears
<1>11. ASSUME NEW n \in Turns, Fails(n) \/ Ends(n)
       PROVE  record' \in Records \cup {None} /\ targets' \subseteq Threads /\ active' \in Threads \cup {None}
  BY <1>0, <1>1, <1>2, <1>9, <1>11, ReleasedTypes, Zenon
<1>12. ASSUME NEW n \in Turns, Hears(n) \/ Inspect(n) \/ Dispatches(n)
       PROVE  record' \in Records \cup {None} /\ targets' \subseteq Threads /\ active' \in Threads \cup {None}
  BY <1>0, <1>1, <1>2, <1>7, <1>10, <1>12
<1>13. ASSUME NEW a \in Requests, Request(a)
       PROVE  record' \in Records \cup {None} /\ targets' \subseteq Threads /\ active' \in Threads \cup {None}
  BY <1>0, <1>2, <1>3, <1>13
<1>14. Restarts => record' \in Records \cup {None} /\ targets' \subseteq Threads /\ active' \in Threads \cup {None}
  <2>1. Restarts => record' = None /\ targets' = {} /\ active' = None
    BY Zenon DEF Restarts
  <2>. QED BY <2>1
<1>. QED BY <1>4, <1>5, <1>8, <1>11, <1>12, <1>13, <1>14, Zenon DEF VmNext

\* The desktop, its timer, and who holds it.
LEMMA MachineStep ==
  ASSUME VmTypeOK, VmNext \/ UNCHANGED vmvars
  PROVE  /\ mount' \in [Turns -> {"none", "claimed", "ready"}]
         /\ work' \in Requests \cup {"idle", None} /\ desktop' \in {"missing", "stopped", "running"}
         /\ timer' \in BOOLEAN
<1>0. /\ mount \in [Turns -> {"none", "claimed", "ready"}]
      /\ work \in Requests \cup {"idle", None} /\ desktop \in {"missing", "stopped", "running"}
      /\ timer \in BOOLEAN
  BY VmTypes
<1>1. \A a : Works(a) => desktop' \in {"missing", "stopped", "running"}
  BY <1>0 DEF Works
<1>2. CASE Reserves \/ Others \/ Lapse \/ UNCHANGED vmvars
  <2>1. UNCHANGED <<mount, work, desktop, timer>>
    BY <1>2, Zenon DEF Reserves, Others, Lapse, vmvars, vm, machine
  <2>. QED BY <1>0, <2>1
<1>3. CASE Look \/ IdleFires
  <2>1. UNCHANGED <<mount, desktop>> /\ work' \in {work, "idle"} /\ timer' \in {TRUE, FALSE}
    BY <1>3, Zenon DEF Look, IdleFires, IdleStops
  <2>. QED BY <1>0, <2>1
<1>4. CASE Answered
  <2>1. work' = None /\ UNCHANGED mount /\ (Works(work) \/ UNCHANGED desktop)
    BY <1>4, Zenon DEF Answered
  <2>2. timer' \in BOOLEAN
    <3>1. timer' = (work = "run" \/ (timer /\ work = "pull")) \/ UNCHANGED timer \/ timer' = FALSE
      BY <1>4, Zenon DEF Answered
    <3>. QED BY <1>0, <3>1
  <2>. QED BY <1>0, <1>1, <2>1, <2>2
<1>5. CASE IdleEnds
  <2>1. work' = None /\ UNCHANGED mount /\ (UNCHANGED timer \/ timer' = TRUE)
        /\ (desktop' = "missing" \/ UNCHANGED desktop)
    BY <1>5, SMT DEF IdleEnds
  <2>. QED BY <1>0, <2>1
<1>6. CASE Restarts
  <2>1. work' = None /\ UNCHANGED mount /\ timer' = (desktop' = "running")
        /\ (UNCHANGED desktop \/ Works(work) \/ Works("remove"))
    BY <1>6, Zenon DEF Restarts
  <2>. QED BY <1>0, <1>1, <2>1
<1>7. ASSUME NEW n \in Turns, Claim(n) \/ Inspect(n)
      PROVE  /\ UNCHANGED <<work, desktop>> /\ (UNCHANGED timer \/ timer' = TRUE)
             /\ mount' = [mount EXCEPT ![n] = "claimed"] \/ mount' = [mount EXCEPT ![n] = "ready"]
  BY <1>7, Zenon DEF Claim, Mounts, Inspect, machine
<1>8. ASSUME NEW n \in Turns, Dispatches(n) \/ Fails(n) PROVE UNCHANGED <<mount, work, desktop, timer>>
  BY <1>8, Zenon DEF Dispatches, Fails, vm, machine
<1>9. ASSUME NEW n \in Turns, Hears(n) \/ Ends(n)
      PROVE  /\ UNCHANGED <<mount, work, desktop>>
             /\ (UNCHANGED timer \/ timer' = TRUE \/ timer' = (timer \/ Listed(thread[n])))
  BY <1>9, Zenon DEF Hears, Ends
<1>10. ASSUME NEW a \in Requests, Request(a) PROVE work' = a /\ UNCHANGED <<mount, desktop, timer>>
  BY <1>10, Zenon DEF Request
<1> DEFINE Typed == /\ mount' \in [Turns -> {"none", "claimed", "ready"}]
                    /\ work' \in Requests \cup {"idle", None} /\ desktop' \in {"missing", "stopped", "running"}
                    /\ timer' \in BOOLEAN
<1>11. ASSUME NEW n \in Turns, Claim(n) \/ Inspect(n) PROVE Typed
  BY <1>0, <1>7, <1>11
<1>12. ASSUME NEW n \in Turns, Dispatches(n) \/ Fails(n) PROVE Typed
  BY <1>0, <1>8, <1>12
<1>13. ASSUME NEW n \in Turns, Hears(n) \/ Ends(n) PROVE Typed
  BY <1>0, <1>9, <1>13 DEF Listed
<1>14. ASSUME NEW a \in Requests, Request(a) PROVE Typed
  BY <1>0, <1>10, <1>14
<1> HIDE DEF Typed
<1>15. Typed
  BY <1>2, <1>3, <1>4, <1>5, <1>6, <1>11, <1>12, <1>13, <1>14 DEF VmNext, Typed
<1>. QED BY <1>15 DEF Typed

LEMMA VmTypeStep == VmTypeOK /\ [VmNext]_vmvars => VmTypeOK'
<1> SUFFICES ASSUME VmTypeOK, VmNext \/ UNCHANGED vmvars PROVE VmTypeOK'
  OBVIOUS
<1>1. TypeOK'
  BY StepsOfTurns, TypeStep, RestartTurns, VmTypes
<1>2. count' \in [ops : 0..MaxOps, fails : 0..MaxFails, blind : 0..MaxBlind, restarts : 0..MaxRestarts,
                  long : 0..MaxLong]
  BY CountStep DEF Counts
<1>3. record' \in [thread : Threads, bot : Bots, old : BOOLEAN] \cup {None}
      /\ targets' \subseteq Threads /\ active' \in Threads \cup {None}
  BY MapsStep DEF Records
<1>4. /\ mount' \in [Turns -> {"none", "claimed", "ready"}]
      /\ work' \in Requests \cup {"idle", None} /\ desktop' \in {"missing", "stopped", "running"}
      /\ timer' \in BOOLEAN
  BY MachineStep
<1>. QED BY <1>1, <1>2, <1>3, <1>4, Zenon DEF VmTypeOK

\* Every step of the turns, the routes, the timer and a restart keeps the lease, the maps and the
\* machine in their types.
THEOREM VmTypeCorrect == VmSpec => []VmTypeOK
<1>1. VmInit => VmTypeOK
  BY DeskInit DEF Desk
<1>. QED BY <1>1, VmTypeStep, PTL DEF VmSpec
-----------------------------------------------------------------------------
LEMMA DeskStep ==
  ASSUME ~Wedges, MaxReloads = 0, Desk, VmNext \/ UNCHANGED vmvars
  PROVE  Desk'
<1>1. Together'
  BY TogetherVm DEF Desk, VmTypeOK
<1>2. VmTypeOK'
  BY VmTypeStep DEF Desk
<1>3. CASE Reserves \/ Others \/ Answered \/ Look \/ Lapse \/ IdleFires \/ IdleEnds \/ Restarts
  BY <1>1, <1>2, <1>3, DeskOfReserves, DeskOfOthers, DeskOfAnswered, DeskOfLook, DeskOfLapse, DeskOfIdleFires,
     DeskOfIdleEnds, DeskOfRestarts, Zenon
<1>4. ASSUME NEW n \in Turns, Claim(n) \/ Inspect(n) \/ Dispatches(n) \/ Fails(n) \/ Hears(n) \/ Ends(n)
      PROVE  Desk'
  BY <1>1, <1>2, <1>4, DeskOfClaim, DeskOfInspect, DeskOfDispatches, DeskOfFails, DeskOfHears, DeskOfEnds
<1>5. ASSUME NEW a \in Requests, Request(a) PROVE Desk'
  BY <1>1, <1>2, <1>5, DeskOfRequest
<1>6. CASE UNCHANGED vmvars
  <2>1. UNCHANGED <<vars, maps, mount>> /\ UNCHANGED <<work, desktop, count>>
    BY <1>6, Zenon DEF vmvars, vm, machine
  <2>2. \A n \in Turns : Mounted(n) /\ count.long = 0 => ~Takes(work)
    BY DEF Desk, Driven
  <2>. QED BY <1>1, <1>2, <2>1, <2>2, DeskOfMachine
<1>. QED BY <1>3, <1>4, <1>5, <1>6, Zenon DEF VmNext

LEMMA DeskAlways == ASSUME ~Wedges, MaxReloads = 0 PROVE VmSpec => []Desk
<1>1. Desk /\ [VmNext]_vmvars => Desk'
  BY DeskStep
<1>. QED BY <1>1, DeskInit, PTL DEF VmSpec

\* A process drives the desktop only in a turn that has found it ready.
LEMMA LiveHasMounted ==
  ASSUME Desk, NEW n \in Turns, Live(n)
  PROVE  Mounted(n) /\ mount[n] = "ready"
  BY DEF Desk, MountsInOrder, Live, AtWork, Mounted

\* As long as no provider falls silent and no card outlives the lease, a turn that claims the
\* desktop is refused until the turn before it is over, so that one process drives it at a time.
THEOREM OneDriverEach == ASSUME ~Wedges, MaxReloads = 0 PROVE VmSpec => []OneDriver
<1>1. Desk => OneDriver
  BY LiveHasMounted, OneMounted DEF OneDriver
<1>. QED BY <1>1, DeskAlways, PTL

\* ... and the desktop is up under it: the routes ask the lease, and the idle timer the map of
\* active threads, before they take the flag that a claim asks for.
THEOREM DesktopStaysUp == ASSUME ~Wedges, MaxReloads = 0 PROVE VmSpec => []DesktopStays
<1>1. Desk => DesktopStays
  <2> SUFFICES ASSUME Desk, count.long = 0, NEW n \in Turns, Live(n)
               PROVE  desktop = "running" /\ ~Takes(work)
    BY DEF DesktopStays, Takes
  <2>. QED BY LiveHasMounted DEF Desk, Driven
<1>. QED BY <1>1, DeskAlways, PTL

\* What refuses a turn or a request, in every state, is the lease of a turn that has claimed the
\* desktop and is not over, whatever cards are open.
THEOREM LeaseIsUsed == ASSUME ~Wedges, MaxReloads = 0 PROVE VmSpec => []LeaseHasUser
<1>1. Desk => LeaseHasUser
  <2> SUFFICES ASSUME Desk, Current # None
               PROVE  \E n \in Turns : On(n, Current.thread) /\ mount[n] # "none" /\ stage[n] # "over"
    BY DEF LeaseHasUser
  <2>1. Current = record
    BY DEF Current
  <2>2. PICK n \in Turns : Mounted(n) /\ On(n, record.thread)
    BY <2>1 DEF Desk, RecordIsUsed
  <2>. QED BY <2>1, <2>2 DEF Mounted, AtWork
<1>. QED BY <1>1, DeskAlways, PTL
=============================================================================

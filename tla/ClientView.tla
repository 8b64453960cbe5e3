------------------------------ MODULE ClientView ------------------------------
(***************************************************************************)
(* What a desktop window shows of one operator: the numbered frames of      *)
(* GET /api/events (server/index.ts) and their replay, the supervisor of    *)
(* the stream (src/lib/live-events.ts), the snapshot behind a refused       *)
(* resume (src/state/store.tsx), and the lane of optimistic edits           *)
(* (src/state/bot-patch-queue.ts).  The stream drops and the server         *)
(* restarts at any time; answers get lost, and race the frames.             *)
(***************************************************************************)
EXTENDS Naturals, Sequences

CONSTANTS None,
          ReplayMax,  \* REPLAY_MAX
          MaxEdits,   \* edits made in this window
          MaxChanges, \* other changes of the operator
          MaxDrops,   \* streams lost, server restarts included
          MaxFails    \* requests that fail

ASSUME ClientAssumption ==
  /\ {ReplayMax, MaxEdits, MaxChanges, MaxDrops, MaxFails} \subseteq Nat /\ ReplayMax > 0
  /\ None \notin [f : Nat, g : Nat, v : Nat] \cup [epoch : Nat, seq : Nat]

VARIABLES
  srv,     \* the operator at the server: the field edited, the others, a version; or None
  log,     \* frames broadcast in this life of the server: whole operators, or None: deleted
  epoch,   \* STREAM_ID
  conn,    \* the stream: none, its hello under way, or open; the next frame it delivers
  cursor,  \* the transport's replay cursor
  await,   \* pendingSnapshot: boundaryCursor and newestFrameCursor
  load,    \* hydrate: whether it ever was asked, is under way, and is to run once more
  hydrated, held, \* the store folds frames, or holds them: the last one counts, each is whole
  view,    \* the operator in the window, or None
  lane,    \* its BotPatchQueueEntry
  req,     \* the request of the lane under way
  peek,    \* reconcileBot's re-read, after a branch switch that failed
  limits,  \* how often the bounded events happened
  ghost    \* history: the newest version folded, whether an older answer came after it, whether
           \* the deletion was folded, reconcileBot showed the operator after that, edits refused

vars == <<srv, log, epoch, conn, cursor, await, load, hydrated, held, view, lane, req, peek, limits, ghost>>
server == <<srv, log, epoch>>
stream == <<conn, cursor, await>>
store == <<load, hydrated, held, view>>
patches == <<lane, req, peek>>

Versions == 0..(MaxEdits + MaxChanges + 1)
Records == [f : 0..MaxEdits, g : 0..MaxChanges, v : Versions]
Cursors == [epoch : 0..MaxDrops, seq : 0..(MaxEdits + MaxChanges + 1)] \cup {None}

TypeOK ==
  /\ srv \in Records \cup {None} /\ log \in Seq(Records \cup {None}) /\ epoch \in 0..MaxDrops
  /\ conn \in [at : {"none", "hello", "open"}, resumed : BOOLEAN, next : Nat, hello : Nat]
  /\ cursor \in Cursors /\ await \in [on : BOOLEAN, boundary : Cursors, newest : Cursors]
  /\ load \in [fallback : BOOLEAN, at : {"none", "asked", "read"}, again : BOOLEAN, got : Records \cup {None}]
  /\ hydrated \in BOOLEAN /\ held \in {<<>>} \cup {<<r>> : r \in Records \cup {None}}
  /\ view \in Records \cup {None}
  /\ lane \in [pending : 0..MaxEdits, inFlight : 0..MaxEdits, timer : BOOLEAN, running : BOOLEAN,
               cancelled : BOOLEAN, fallback : Records \cup {None}]
  /\ req \in [at : {"none", "sent", "answered", "failed", "asked", "read"}, got : Records \cup {None}]
  /\ peek \in [at : {"none", "asked", "read"}, got : Records \cup {None}]
  /\ limits \in [drops : 0..MaxDrops, fails : 0..MaxFails, edits : 0..MaxEdits, changes : 0..MaxChanges]
  /\ ghost \in [newest : Versions, behind : BOOLEAN, gone : BOOLEAN, revived : BOOLEAN,
                lost : SUBSET (1..MaxEdits)]

NoStream == [at |-> "none", resumed |-> FALSE, next |-> 0, hello |-> 0]
NoAwait == [on |-> FALSE, boundary |-> None, newest |-> None]
NoReq == [at |-> "none", got |-> None]
\* 0 is no edit.
NoLane == [pending |-> 0, inFlight |-> 0, timer |-> FALSE, running |-> FALSE, cancelled |-> FALSE, fallback |-> None]

Init ==
  /\ srv = [f |-> 0, g |-> 0, v |-> 0] /\ log = <<>> /\ epoch = 0
  /\ conn = NoStream /\ cursor = None /\ await = NoAwait
  /\ load = [fallback |-> TRUE, at |-> "none", again |-> FALSE, got |-> None]
  /\ hydrated = FALSE /\ held = <<>> /\ view = None
  /\ lane = NoLane /\ req = NoReq /\ peek = NoReq
  /\ limits = [drops |-> 0, fails |-> 0, edits |-> 0, changes |-> 0]
  /\ ghost = [newest |-> 0, behind |-> FALSE, gone |-> FALSE, revived |-> FALSE, lost |-> {}]

Here(seq) == [epoch |-> epoch, seq |-> seq]
CanFail == limits.fails < MaxFails
Fails == limits' = [limits EXCEPT !.fails = @ + 1]
-----------------------------------------------------------------------------
(* The server.                                                              *)

\* Every change is broadcast whole.
Broadcast(r) == srv' = r /\ log' = Append(log, r) /\ UNCHANGED epoch
Changed == [srv EXCEPT !.g = @ + 1, !.v = @ + 1]

Change ==
  /\ srv # None /\ limits.changes < MaxChanges
  /\ limits' = [limits EXCEPT !.changes = @ + 1]
  /\ Broadcast(Changed)
  /\ UNCHANGED <<stream, store, patches, ghost>>

Delete ==
  /\ srv # None /\ Broadcast(None)
  /\ UNCHANGED <<stream, store, patches, limits, ghost>>

\* What GET /api/events answers to a cursor.  The oldest frame kept must be no later than
\* the first one missed.
Oldest == IF Len(log) > ReplayMax THEN Len(log) - ReplayMax + 1 ELSE 1
CanResume(c) ==
  /\ c # None /\ c.epoch = epoch /\ c.seq <= Len(log)
  /\ IF log = <<>> THEN c.seq = Len(log) ELSE Oldest <= c.seq + 1
-----------------------------------------------------------------------------
(* The stream.                                                              *)

Connect ==
  /\ conn.at = "none"
  /\ conn' = [at |-> "hello", resumed |-> CanResume(cursor), hello |-> Len(log),
              next |-> (IF CanResume(cursor) THEN cursor.seq ELSE Len(log)) + 1]
  /\ UNCHANGED <<server, cursor, await, store, patches, limits, ghost>>

\* hydrate, unless it is under way: then once more.
Hydrate ==
  IF load.at # "none" THEN load' = [load EXCEPT !.again = TRUE, !.fallback = FALSE] /\ UNCHANGED hydrated
  ELSE load' = [load EXCEPT !.at = "asked", !.fallback = FALSE] /\ hydrated' = FALSE

\* A hello that resumes changes nothing: its cursor is ahead of the replay.
Hello ==
  /\ conn.at = "hello" /\ conn' = [conn EXCEPT !.at = "open"]
  /\ IF conn.resumed THEN UNCHANGED <<await, load, hydrated, held>>
     ELSE /\ await' = [on |-> TRUE, boundary |-> Here(conn.hello), newest |-> None]
          /\ held' = <<>> /\ Hydrate
  /\ UNCHANGED <<server, cursor, view, patches, limits, ghost>>

\* The window's fallback, a second after it opened without a hello.
HydrateAnyway ==
  /\ load.fallback /\ Hydrate
  /\ UNCHANGED <<server, stream, held, view, patches, limits, ghost>>

Lost == conn' = NoStream /\ await' = NoAwait

\* onerror, or no ping for staleMs.
Drop ==
  /\ conn.at # "none" /\ limits.drops < MaxDrops /\ limits' = [limits EXCEPT !.drops = @ + 1]
  /\ Lost /\ UNCHANGED <<server, cursor, store, patches, ghost>>

\* The server restarts: sequence numbers begin again.
Restart ==
  /\ limits.drops < MaxDrops /\ limits' = [limits EXCEPT !.drops = @ + 1]
  /\ epoch' = epoch + 1 /\ log' = <<>> /\ Lost
  /\ req' = [req EXCEPT !.at = IF @ \in {"sent", "asked"} THEN "failed" ELSE @]
  /\ peek' = IF peek.at = "asked" THEN NoReq ELSE peek
  /\ ghost' = IF req.at = "sent" THEN [ghost EXCEPT !.lost = @ \cup {lane.inFlight}] ELSE ghost
  /\ UNCHANGED <<srv, cursor, store, lane>>
-----------------------------------------------------------------------------
(* Folding.                                                                 *)

\* overlayFor, and the overlay of what is only pending.
Shown(r, e) == IF r # None /\ e # 0 THEN [r EXCEPT !.f = e] ELSE r
Overlay == IF lane.cancelled THEN 0 ELSE IF lane.pending # 0 THEN lane.pending ELSE lane.inFlight

\* handleFrame of "bot" and "bot.deleted".
CancelLane == lane' = IF lane = NoLane THEN lane
                      ELSE [lane EXCEPT !.cancelled = TRUE, !.timer = FALSE]
Fold(r) ==
  /\ view' = Shown(r, Overlay)
  /\ IF r = None THEN CancelLane ELSE UNCHANGED lane
Newest(r) == IF r = None \/ ghost.newest > r.v THEN ghost.newest ELSE r.v
Read(r) == ghost' = [ghost EXCEPT !.behind = FALSE, !.newest = Newest(r)]
Heard(r) == ghost' = [ghost EXCEPT !.behind = FALSE, !.newest = Newest(r), !.gone = @ \/ r = None]

\* The cursor that a delivered frame earns: none while a snapshot is awaited.  Mutated
\* form: always its own.
EagerCursor == cursor' = Here(conn.next) /\ UNCHANGED await
EarnedCursor ==
  IF await.on THEN await' = [await EXCEPT !.newest = Here(conn.next)] /\ UNCHANGED cursor
              ELSE cursor' = Here(conn.next) /\ UNCHANGED await

Frame ==
  /\ conn.at = "open" /\ conn.next <= Len(log) /\ conn' = [conn EXCEPT !.next = @ + 1]
  /\ EarnedCursor
  /\ LET r == log[conn.next] IN
     IF hydrated THEN Fold(r) /\ Heard(r) /\ UNCHANGED held
                 ELSE held' = <<r>> /\ UNCHANGED <<view, lane, ghost>>
  /\ UNCHANGED <<server, load, hydrated, req, peek, limits>>

\* GET /api/bots, its answer, and what hydrate does with it.
SnapshotReads ==
  /\ load.at = "asked" /\ load' = [load EXCEPT !.at = "read", !.got = srv]
  /\ UNCHANGED <<server, stream, hydrated, held, view, patches, limits, ghost>>

Rehydrates == load' = [load EXCEPT !.at = "asked", !.again = FALSE, !.got = None]
Loaded == load' = [load EXCEPT !.at = "none", !.got = None]

\* The snapshot has no overlay.  When no other is due, the held frames come on top, and
\* only then is the cursor committed.
SnapshotLands ==
  /\ load.at = "read"
  /\ IF load.again
     THEN view' = load.got /\ Rehydrates /\ UNCHANGED <<hydrated, held, lane, cursor, await, ghost>>
     ELSE /\ hydrated' = TRUE /\ held' = <<>> /\ Loaded
          /\ IF held = <<>> THEN view' = load.got /\ Read(load.got) /\ UNCHANGED lane
                            ELSE Fold(held[1]) /\ Heard(held[1])
          /\ cursor' = IF ~await.on THEN cursor
                       ELSE IF await.newest # None THEN await.newest ELSE await.boundary
          /\ await' = NoAwait
  /\ UNCHANGED <<server, conn, req, peek, limits>>

\* The window keeps what it shows; a stream that waits for the snapshot is dropped.
SnapshotFails ==
  /\ load.at # "none" /\ CanFail /\ Fails
  /\ IF load.again THEN Rehydrates /\ UNCHANGED <<conn, await>>
     ELSE Loaded /\ IF await.on THEN Lost ELSE UNCHANGED <<conn, await>>
  /\ UNCHANGED <<server, cursor, hydrated, held, view, patches, ghost>>
-----------------------------------------------------------------------------
(* The lane of edits.                                                       *)

\* updateBot: shown at once, sent when the window is quiet.
Edit ==
  /\ view # None /\ limits.edits < MaxEdits /\ ~(lane.cancelled /\ lane.running)
  /\ LET e == limits.edits + 1 IN
     /\ limits' = [limits EXCEPT !.edits = e] /\ view' = [view EXCEPT !.f = e]
     /\ lane' = [IF lane.cancelled \/ lane = NoLane THEN [NoLane EXCEPT !.fallback = view] ELSE lane
                 EXCEPT !.pending = e, !.timer = TRUE]
  /\ UNCHANGED <<server, stream, load, hydrated, held, req, peek, ghost>>

\* drain: what is pending is sent, unless a request runs or the timer does.
Drained(l) == [l EXCEPT !.running = TRUE, !.inFlight = l.pending, !.pending = 0]
CanDrain(l) == ~l.running /\ ~l.timer /\ l.pending # 0
Sent == [at |-> "sent", got |-> None]

\* The timer, or a flush.
Due ==
  /\ lane.timer
  /\ LET l == [lane EXCEPT !.timer = FALSE] IN
     IF CanDrain(l) THEN lane' = Drained(l) /\ req' = Sent ELSE lane' = l /\ UNCHANGED req
  /\ UNCHANGED <<server, stream, store, peek, limits, ghost>>

PatchApplies ==
  /\ req.at = "sent" /\ srv # None
  /\ Broadcast([srv EXCEPT !.f = lane.inFlight, !.v = @ + 1])
  /\ req' = [at |-> "answered", got |-> srv']
  /\ UNCHANGED <<stream, store, lane, peek, limits, ghost>>

\* Refused (of an operator that is gone it always is), or lost on the way; or the answer is.
PatchFails ==
  /\ req.at \in {"sent", "answered"} /\ req' = [req EXCEPT !.at = "failed", !.got = None]
  /\ IF req.at = "sent" /\ srv = None THEN UNCHANGED limits ELSE CanFail /\ Fails
  /\ ghost' = IF req.at = "sent" THEN [ghost EXCEPT !.lost = @ \cup {lane.inFlight}] ELSE ghost
  /\ UNCHANGED <<server, stream, store, lane, peek>>

\* finally: what was typed meanwhile goes out at once, unless its timer runs; an idle lane
\* is dropped.  Mutated form: also one with an edit pending.
Idle(l) == ~l.timer /\ l.pending = 0
SettleAlways(l) == IF l.timer THEN lane' = l /\ req' = NoReq ELSE lane' = NoLane /\ req' = NoReq
Settle(l) ==
  IF CanDrain(l) THEN lane' = Drained(l) /\ req' = Sent
  ELSE req' = NoReq /\ lane' = IF Idle(l) THEN NoLane ELSE l
Finally(r) == Settle([lane EXCEPT !.running = FALSE, !.inFlight = 0,
                                    !.fallback = IF r = None THEN @ ELSE r])

\* An answer is folded as it is, under what is pending, however old it is, and also when a
\* snapshot took the operator away meanwhile.
Answered(r) ==
  ghost' = [ghost EXCEPT !.behind = @ \/ view = None \/ r.v < ghost.newest, !.newest = Newest(r)]
Authoritative(r) == view' = Shown(r, lane.pending) /\ Answered(r)

\* A lane that was cancelled is left alone.  Mutated form: its answers are folded all the same.
ClosedNever == FALSE
Closed == lane.cancelled
Abandoned == lane' = NoLane /\ req' = NoReq /\ UNCHANGED <<view, ghost>>

AnswerLands ==
  /\ req.at = "answered"
  /\ IF Closed THEN Abandoned ELSE Authoritative(req.got) /\ Finally(req.got)
  /\ UNCHANGED <<server, stream, load, hydrated, held, peek, limits>>

\* A failure is not believed: the operator is read again.
FailureLands ==
  /\ req.at = "failed"
  /\ IF Closed THEN Abandoned
     ELSE lane' = [lane EXCEPT !.inFlight = 0] /\ req' = [at |-> "asked", got |-> None] /\ UNCHANGED <<view, ghost>>
  /\ UNCHANGED <<server, stream, load, hydrated, held, peek, limits>>

Reread ==
  /\ req.at = "asked" /\ req' = [at |-> "read", got |-> srv]
  /\ UNCHANGED <<server, stream, store, lane, peek, limits, ghost>>
RereadFails ==
  /\ req.at = "asked" /\ CanFail /\ Fails /\ req' = [at |-> "read", got |-> lane.fallback]
  /\ UNCHANGED <<server, stream, store, lane, peek, ghost>>

RereadLands ==
  /\ req.at = "read"
  /\ IF Closed THEN Abandoned
     ELSE /\ IF req.got = None THEN UNCHANGED <<view, ghost>> ELSE Authoritative(req.got)
          /\ Finally(req.got)
  /\ UNCHANGED <<server, stream, load, hydrated, held, peek, limits>>

-----------------------------------------------------------------------------
(* reconcileBot: the re-read of the operator after a branch switch that failed.        *)

\* switchBranch is refused (of an operator that is gone it always is), or lost on the way.
\* One re-read at a time.
BranchFails ==
  /\ view # None /\ peek.at = "none" /\ peek' = [at |-> "asked", got |-> None]
  /\ IF srv = None THEN UNCHANGED limits ELSE CanFail /\ Fails
  /\ UNCHANGED <<server, stream, store, lane, req, ghost>>

PeekReads ==
  /\ peek.at = "asked" /\ peek' = [at |-> "read", got |-> srv]
  /\ UNCHANGED <<server, stream, store, lane, req, limits, ghost>>

\* Its failure is ignored.
PeekFails ==
  /\ peek.at # "none" /\ CanFail /\ Fails /\ peek' = NoReq
  /\ UNCHANGED <<server, stream, store, lane, req, ghost>>

\* It asks neither the lane nor the store: no overlay, and an operator the window no longer
\* has is added.
PeekLands ==
  /\ peek.at = "read" /\ peek' = NoReq
  /\ IF peek.got = None THEN UNCHANGED <<view, ghost>>
     ELSE /\ view' = peek.got
          /\ ghost' = [ghost EXCEPT !.behind = @ \/ view = None \/ peek.got.v < ghost.newest,
                                   !.newest = Newest(peek.got), !.revived = @ \/ ghost.gone]
  /\ UNCHANGED <<server, stream, load, hydrated, held, lane, req, limits>>

Next ==
  \/ Change \/ Delete \/ Connect \/ Hello \/ HydrateAnyway \/ Drop \/ Restart \/ Frame
  \/ SnapshotReads \/ SnapshotLands \/ SnapshotFails
  \/ Edit \/ Due \/ PatchApplies \/ PatchFails \/ AnswerLands \/ FailureLands
  \/ Reread \/ RereadFails \/ RereadLands
  \/ BranchFails \/ PeekReads \/ PeekFails \/ PeekLands

Spec == Init /\ [][Next]_vars
-----------------------------------------------------------------------------
(* What must hold.                                                          *)

CaughtUp ==
  /\ conn.at = "open" /\ conn.next > Len(log) /\ load.at = "none"
  /\ lane = NoLane \/ lane.cancelled

\* "A partial replay would leave a permanent hole": a window that was sent all there
\* is, and loads nothing, shows what the server has, whatever was dropped, replayed, refused or restarted;
\* unless the last thing folded was an answer, older than what was folded before it.
CaughtUpIsCurrent == CaughtUp => view = srv \/ ghost.behind

\* An edit whose request was not refused or lost is what the server has when the lane is
\* empty: coalesced, in order, and whatever earlier requests did.
EditLands ==
  lane = NoLane /\ srv # None /\ limits.edits \notin ghost.lost => srv.f = limits.edits

\* "Folding that result back into state would resurrect the deleted bot": once a window has
\* folded the deletion, no answer to an edit, re-read of the lane, snapshot or replayed frame
\* shows the operator again.  Only reconcileBot does, which asks whether it was deleted of no one.
DeletedStaysGone == ghost.gone /\ hydrated => view = None \/ ghost.revived
=============================================================================

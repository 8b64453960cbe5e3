--------------------------- MODULE ClientViewProofs ---------------------------
(* Proofs about ClientView, for any length of the replay and any number of     *)
(* edits, changes, lost streams, restarts and failed requests: a window that   *)
(* was sent all there is shows what the server has, an edit lands unless its   *)
(* request is lost, and a deleted operator stays gone.                         *)
EXTENDS ClientView, SequenceTheorems, TLAPS

\* The log ends with the operator as it is, or with its deletion; the stream and the cursor are
\* within it, or the cursor is of an earlier life of the server.
Numbered ==
  /\ \A i \in 1..Len(log) : log[i] = None => i = Len(log)
  /\ log # <<>> => log[Len(log)] = srv
  /\ conn.at # "none" => conn.next \in 1..(Len(log) + 1) /\ conn.hello <= Len(log)
  /\ cursor # None => cursor.epoch <= epoch /\ (cursor.epoch = epoch => cursor.seq <= Len(log))
  /\ epoch <= limits.drops

\* Where the stream is, the cursor is, or will be when the snapshot has landed.
Tracked ==
  /\ conn.at = "hello" /\ conn.resumed => hydrated /\ cursor = Here(conn.next - 1)
  /\ conn.at = "hello" /\ ~conn.resumed => conn.next = conn.hello + 1 /\ ~CanResume(cursor)
  /\ conn.at = "open" /\ ~await.on => hydrated /\ cursor = Here(conn.next - 1)
  /\ await.on => /\ conn.at = "open" /\ load.at # "none" /\ await.boundary = Here(conn.hello)
                 /\ held = <<>> => await.newest = None /\ conn.next = conn.hello + 1
                 /\ held # <<>> => await.newest = Here(conn.next - 1) /\ conn.next > 1 /\ held = <<log[conn.next - 1]>>

\* While a snapshot is loaded, frames are held, and no cursor can be resumed: the frames between
\* it and the log's end would be missed.
Loading ==
  /\ load.at # "none" => ~hydrated
  /\ ~hydrated => ~CanResume(cursor)
  /\ hydrated => held = <<>>
  /\ load.fallback => cursor = None /\ conn.at # "open"
  /\ load.got # None => load.at = "read"
  /\ await.on /\ load.at = "read" /\ ~load.again /\ conn.hello = Len(log) => load.got = srv

\* The lane and its request agree; a lane is cancelled only when the operator is gone.
LaneOK ==
  /\ lane.running <=> req.at # "none"
  /\ req.at \in {"sent", "answered"} => lane.inFlight # 0
  /\ req.at \in {"none", "asked", "read"} => lane.inFlight = 0
  /\ lane.timer => lane.pending # 0 /\ ~lane.cancelled
  /\ lane.cancelled => srv = None
  /\ lane # NoLane /\ ~lane.cancelled => lane.fallback # None
  /\ req.got # None => req.at \in {"answered", "read"}
  /\ req.at \in {"answered", "read"} /\ srv # None => req.got # None
  /\ lane.pending <= limits.edits /\ lane.inFlight <= limits.edits

\* The newest edit is pending, on its way, applied or lost.
EditsInOrder == srv # None =>
  /\ lane.pending # 0 => lane.pending = limits.edits /\ lane.inFlight < lane.pending
  /\ lane.pending = 0 /\ req.at = "sent" => lane.inFlight = limits.edits
  /\ lane.pending = 0 /\ req.at # "sent" => srv.f = limits.edits \/ limits.edits \in ghost.lost

\* How many of the edits the server can have applied.
Applicable ==
  IF req.at = "sent" THEN lane.inFlight - 1 ELSE IF lane.pending # 0 THEN lane.pending - 1 ELSE limits.edits
\* No version is more than the changes and the edits the server can have applied.
Bounded ==
  /\ srv # None => Len(log) <= srv.v /\ srv.v <= limits.changes + Applicable /\ srv.g = limits.changes
  /\ Len(log) <= MaxEdits + MaxChanges + 1

\* A version has one content: what any part of the window holds is older than the server's, or it.
Exact(r) == r # None => r.v <= srv.v /\ (r.v = srv.v => r = srv)
Versioned == srv # None =>
  /\ ghost.newest <= srv.v
  /\ \A i \in 1..Len(log) : Exact(log[i])
  /\ Exact(load.got) /\ Exact(req.got) /\ Exact(peek.got) /\ Exact(lane.fallback) /\ (held # <<>> => Exact(held[1]))
  /\ lane = NoLane => Exact(view)

\* The cursor is at the log's end, and the frames up to there are folded: the window shows the
\* operator, or an older answer was folded after them.
Synced == hydrated /\ CanResume(cursor) /\ cursor.seq = Len(log)
Fresh ==
  /\ srv # None => ghost.newest = srv.v /\ (ghost.behind \/ (lane = NoLane => view = srv))
  /\ srv = None /\ view # None => ghost.behind
Current == Synced => Fresh

\* After frame k there are only deletions.
Past(k) == \A i \in 1..Len(log) : i > k => log[i] = None
\* The deletion was folded or is held: no frame to come shows the operator.
Deaf == ghost.gone \/ held = <<None>>
Gone ==
  /\ Deaf =>
       /\ srv = None
       /\ conn.at # "none" => Past(conn.next - 1)
       /\ CanResume(cursor) => Past(cursor.seq)
  /\ ghost.gone => /\ ghost.revived \/ (view = None /\ (lane = NoLane \/ lane.cancelled))
                   /\ held \in {<<>>, <<None>>} /\ load.got = None

\* The inductive invariant.
IInv == TypeOK /\ Numbered /\ Tracked /\ Loading /\ LaneOK /\ EditsInOrder /\ Bounded /\ Versioned /\ Current /\ Gone
-----------------------------------------------------------------------------
(* Records, cursors and logs.                                               *)

\* Operators and cursors are not None.
LEMMA RecordFacts ==
  /\ None \notin Records
  /\ \A r \in Records : r.f \in Nat /\ r.g \in Nat /\ r.v \in Nat
  /\ \A n : Here(n) # None => Here(n).epoch = epoch /\ Here(n).seq = n
<1>1. Records \subseteq [f : Nat, g : Nat, v : Nat]
  BY ClientAssumption DEF Records, Versions
<1>2. None \notin Records
  BY <1>1, ClientAssumption
<1>. QED BY <1>1, <1>2 DEF Here

\* The cursor of a frame of this life of the server.
LEMMA HereFacts ==
  ASSUME epoch \in Nat, NEW n \in Nat
  PROVE  Here(n) # None /\ Here(n).epoch = epoch /\ Here(n).seq = n
  BY ClientAssumption DEF Here

\* The types, one by one.
LEMMA Types ==
  ASSUME TypeOK
  PROVE  /\ srv \in Records \cup {None} /\ log \in Seq(Records \cup {None}) /\ epoch \in Nat
         /\ Len(log) \in Nat /\ \A i \in 1..Len(log) : log[i] \in Records \cup {None}
         /\ conn.at \in {"none", "hello", "open"} /\ conn.next \in Nat /\ conn.hello \in Nat
         /\ cursor # None => cursor.epoch \in Nat /\ cursor.seq \in Nat
         /\ load.at \in {"none", "asked", "read"} /\ load.got \in Records \cup {None}
         /\ view \in Records \cup {None} /\ lane.fallback \in Records \cup {None}
         /\ lane.pending \in Nat /\ lane.inFlight \in Nat
         /\ req.got \in Records \cup {None} /\ peek.got \in Records \cup {None}
         /\ limits.edits \in Nat /\ limits.changes \in Nat /\ limits.drops \in Nat
         /\ ghost.newest \in Nat
         /\ held # <<>> => held = <<held[1]>> /\ held[1] \in Records \cup {None}
<1>1. Len(log) \in Nat /\ \A i \in 1..Len(log) : log[i] \in Records \cup {None}
  BY LenProperties, ElementOfSeq DEF TypeOK
<1>2. cursor # None => cursor.epoch \in Nat /\ cursor.seq \in Nat
  <2>1. MaxDrops \in Nat /\ MaxEdits \in Nat /\ MaxChanges \in Nat
    BY ClientAssumption
  <2>2. cursor \in Cursors
    BY DEF TypeOK
  <2>. QED BY <2>1, <2>2 DEF Cursors
<1>3. held # <<>> => held = <<held[1]>> /\ held[1] \in Records \cup {None}
  BY DEF TypeOK
<1>4. epoch \in Nat /\ ghost.newest \in Nat /\ lane.pending \in Nat /\ lane.inFlight \in Nat
      /\ limits.edits \in Nat /\ limits.changes \in Nat /\ limits.drops \in Nat
  BY ClientAssumption DEF TypeOK, Versions
<1>. QED BY <1>1, <1>2, <1>3, <1>4 DEF TypeOK

\* A resume that is refused stays refused: the log only grows, and its tail moves on.
LEMMA ResumeGrows ==
  ASSUME TypeOK, Numbered, NEW r \in Records \cup {None}, Broadcast(r)
  PROVE  /\ Len(log') = Len(log) + 1 /\ log'[Len(log) + 1] = r
         /\ \A i \in 1..Len(log) : log'[i] = log[i]
         /\ srv' = r /\ epoch' = epoch
         /\ UNCHANGED cursor /\ CanResume(cursor)' => CanResume(cursor)
<1>1. log' = Append(log, r) /\ srv' = r /\ epoch' = epoch
  BY Zenon DEF Broadcast
<1>2. log \in Seq(Records \cup {None}) /\ Len(log) \in Nat
  BY Types
<1>3. Len(log') = Len(log) + 1 /\ log'[Len(log) + 1] = r /\ \A i \in 1..Len(log) : log'[i] = log[i]
      /\ log' # <<>>
  BY <1>1, <1>2, AppendProperties
<1>4. ASSUME UNCHANGED cursor, CanResume(cursor)' PROVE CanResume(cursor)
  <2>1. /\ cursor # None /\ cursor.epoch = epoch /\ cursor.seq \in Nat /\ cursor.seq <= Len(log)
        /\ (IF Len(log') > ReplayMax THEN Len(log') - ReplayMax + 1 ELSE 1) <= cursor.seq + 1
    BY <1>1, <1>3, <1>4, Types DEF CanResume, Oldest, Numbered
  <2>2. (IF Len(log) > ReplayMax THEN Len(log) - ReplayMax + 1 ELSE 1) <= cursor.seq + 1
    BY <1>2, <1>3, <2>1, ClientAssumption
  <2>3. log = <<>> => cursor.seq = Len(log)
    BY <2>1, EmptySeq
  <2>. QED BY <2>1, <2>2, <2>3 DEF CanResume, Oldest
<1>. QED BY <1>1, <1>3, <1>4
-----------------------------------------------------------------------------
(* What the steps do.                                                       *)

\* A change, a deletion and an applied edit are broadcast, and nothing else is.
LEMMA Sends ==
  ASSUME TypeOK', Change \/ Delete \/ PatchApplies
  PROVE  /\ srv # None /\ srv' \in Records \cup {None} /\ Broadcast(srv')
         /\ UNCHANGED <<stream, store, lane>>
<1>1. srv' \in Records \cup {None}
  BY DEF TypeOK
<1>2. CASE Change
  <2>1. Broadcast(Changed) /\ srv # None /\ UNCHANGED <<stream, store, lane>>
    BY <1>2, Zenon DEF Change, patches
  <2>. QED BY <1>1, <2>1 DEF Broadcast
<1>3. CASE Delete
  <2>1. Broadcast(None) /\ srv # None /\ UNCHANGED <<stream, store, lane>>
    BY <1>3, Zenon DEF Delete, patches
  <2>. QED BY <1>1, <2>1 DEF Broadcast
<1>4. CASE PatchApplies
  <2>1. Broadcast([srv EXCEPT !.f = lane.inFlight, !.v = @ + 1]) /\ srv # None /\ UNCHANGED <<stream, store, lane>>
    BY <1>4, Zenon DEF PatchApplies
  <2>. QED BY <1>1, <2>1 DEF Broadcast
<1>. QED BY <1>2, <1>3, <1>4

\* A frame moves the stream, earns its cursor, and is folded or held.
LEMMA FrameDoes ==
  ASSUME TypeOK, Frame
  PROVE  /\ conn.at = "open" /\ conn.next <= Len(log) /\ UNCHANGED <<server, load, hydrated, req, peek, limits>>
         /\ conn'.at = "open" /\ conn'.next = conn.next + 1 /\ conn'.hello = conn.hello
         /\ await.on => /\ UNCHANGED cursor /\ await'.on /\ await'.boundary = await.boundary
                        /\ await'.newest = Here(conn.next)
         /\ ~await.on => cursor' = Here(conn.next) /\ UNCHANGED await
         /\ hydrated => Fold(log[conn.next]) /\ Heard(log[conn.next]) /\ UNCHANGED held
         /\ ~hydrated => held' = <<log[conn.next]>> /\ UNCHANGED <<view, lane, ghost>>
<1>1. /\ conn.at = "open" /\ conn.next <= Len(log) /\ UNCHANGED <<server, load, hydrated, req, peek, limits>>
      /\ conn' = [conn EXCEPT !.next = @ + 1] /\ EarnedCursor
      /\ (IF hydrated THEN Fold(log[conn.next]) /\ Heard(log[conn.next]) /\ UNCHANGED held
                      ELSE held' = <<log[conn.next]>> /\ UNCHANGED <<view, lane, ghost>>)
  BY Zenon DEF Frame
<1>2. await.on => UNCHANGED cursor /\ await' = [await EXCEPT !.newest = Here(conn.next)]
  BY <1>1, Zenon DEF EarnedCursor
<1>3. ~await.on => cursor' = Here(conn.next) /\ UNCHANGED await
  BY <1>1, Zenon DEF EarnedCursor
<1>. QED BY <1>1, <1>2, <1>3 DEF TypeOK

\* A snapshot that arrives is shown; the last one brings the held frame and the cursor with it.
LEMMA LandsDoes ==
  ASSUME TypeOK, SnapshotLands
  PROVE  /\ load.at = "read" /\ UNCHANGED <<server, conn, req, peek, limits>>
         /\ load.again => /\ view' = load.got /\ UNCHANGED <<hydrated, held, lane, cursor, await, ghost>>
                          /\ load'.at = "asked" /\ load'.got = None /\ ~load'.again /\ load'.fallback = load.fallback
         /\ ~load.again =>
              /\ hydrated' /\ held' = <<>> /\ load'.at = "none" /\ load'.got = None /\ load'.fallback = load.fallback
              /\ held = <<>> => view' = load.got /\ Read(load.got) /\ UNCHANGED lane
              /\ held # <<>> => Fold(held[1]) /\ Heard(held[1])
              /\ cursor' = IF ~await.on THEN cursor
                           ELSE IF await.newest # None THEN await.newest ELSE await.boundary
              /\ await' = NoAwait
<1>1. load.at = "read" /\ UNCHANGED <<server, conn, req, peek, limits>>
  BY Zenon DEF SnapshotLands
<1>2. load.again => /\ view' = load.got /\ UNCHANGED <<hydrated, held, lane, cursor, await, ghost>>
                    /\ load' = [load EXCEPT !.at = "asked", !.again = FALSE, !.got = None]
  BY Zenon DEF SnapshotLands, Rehydrates
<1>3. ~load.again =>
              /\ hydrated' /\ held' = <<>> /\ load' = [load EXCEPT !.at = "none", !.got = None]
              /\ held = <<>> => view' = load.got /\ Read(load.got) /\ UNCHANGED lane
              /\ held # <<>> => Fold(held[1]) /\ Heard(held[1])
              /\ cursor' = IF ~await.on THEN cursor
                           ELSE IF await.newest # None THEN await.newest ELSE await.boundary
              /\ await' = NoAwait
  BY SMT DEF SnapshotLands, Loaded
<1>4. load \in [fallback : BOOLEAN, at : {"none", "asked", "read"}, again : BOOLEAN, got : Records \cup {None}]
  BY DEF TypeOK
<1>. QED BY <1>1, <1>2, <1>3, <1>4

\* A snapshot that fails: again, or the stream that waits for it is dropped.
LEMMA FailsDoes ==
  ASSUME TypeOK, SnapshotFails
  PROVE  /\ load.at # "none" /\ UNCHANGED <<server, cursor, hydrated, held, view, patches, ghost>>
         /\ limits'.edits = limits.edits /\ limits'.changes = limits.changes /\ limits'.drops = limits.drops
         /\ load'.got = None /\ load'.fallback = load.fallback
         /\ \/ load.again /\ load'.at = "asked" /\ UNCHANGED <<conn, await>>
            \/ ~load.again /\ load'.at = "none" /\ await.on /\ conn' = NoStream /\ await' = NoAwait
            \/ ~load.again /\ load'.at = "none" /\ ~await.on /\ UNCHANGED <<conn, await>>
<1>1. /\ load.at # "none" /\ UNCHANGED <<server, cursor, hydrated, held, view, patches, ghost>>
      /\ limits' = [limits EXCEPT !.fails = @ + 1]
  BY Zenon DEF SnapshotFails, Fails
<1>2. \/ load.again /\ load' = [load EXCEPT !.at = "asked", !.again = FALSE, !.got = None] /\ UNCHANGED <<conn, await>>
      \/ ~load.again /\ load' = [load EXCEPT !.at = "none", !.got = None] /\ await.on /\ conn' = NoStream /\ await' = NoAwait
      \/ ~load.again /\ load' = [load EXCEPT !.at = "none", !.got = None] /\ ~await.on /\ UNCHANGED <<conn, await>>
  BY Zenon DEF SnapshotFails, Rehydrates, Loaded, Lost
<1>. QED BY <1>1, <1>2 DEF TypeOK

\* A load begins, or another is due after it.
LEMMA HydrateDoes ==
  ASSUME TypeOK, Hydrate
  PROVE  /\ ~load'.fallback /\ load'.got = load.got /\ load'.at # "none"
         /\ load.at # "none" => load'.again /\ load'.at = load.at /\ UNCHANGED hydrated
         /\ load.at = "none" => load'.at = "asked" /\ ~hydrated'
<1>1. load.at # "none" => load' = [load EXCEPT !.again = TRUE, !.fallback = FALSE] /\ UNCHANGED hydrated
  BY Zenon DEF Hydrate
<1>2. load.at = "none" => load' = [load EXCEPT !.at = "asked", !.fallback = FALSE] /\ hydrated' = FALSE
  BY Zenon DEF Hydrate
<1>. QED BY <1>1, <1>2 DEF TypeOK

\* A hello: nothing, or a snapshot to wait for.
LEMMA HelloDoes ==
  ASSUME TypeOK, Hello
  PROVE  /\ conn.at = "hello" /\ UNCHANGED <<server, cursor, view, patches, limits, ghost>>
         /\ conn'.at = "open" /\ conn'.next = conn.next /\ conn'.hello = conn.hello
         /\ conn.resumed => UNCHANGED <<await, load, hydrated, held>>
         /\ ~conn.resumed => /\ await'.on /\ await'.boundary = Here(conn.hello) /\ await'.newest = None
                             /\ held' = <<>> /\ Hydrate
<1>1. /\ conn.at = "hello" /\ UNCHANGED <<server, cursor, view, patches, limits, ghost>>
      /\ conn' = [conn EXCEPT !.at = "open"]
      /\ conn.resumed => UNCHANGED <<await, load, hydrated, held>>
      /\ ~conn.resumed => /\ await' = [on |-> TRUE, boundary |-> Here(conn.hello), newest |-> None]
                          /\ held' = <<>> /\ Hydrate
  BY Zenon DEF Hello
<1>. QED BY <1>1 DEF TypeOK

\* A stream begins after its cursor, or at the log's end.
LEMMA ConnectDoes ==
  ASSUME TypeOK, Connect
  PROVE  /\ conn.at = "none" /\ UNCHANGED <<server, cursor, await, store, patches, limits, ghost>>
         /\ conn'.at = "hello" /\ conn'.resumed = CanResume(cursor) /\ conn'.hello = Len(log)
         /\ CanResume(cursor) => conn'.next = cursor.seq + 1
         /\ ~CanResume(cursor) => conn'.next = Len(log) + 1
<1>1. /\ conn.at = "none" /\ UNCHANGED <<server, cursor, await, store, patches, limits, ghost>>
      /\ conn' = [at |-> "hello", resumed |-> CanResume(cursor), hello |-> Len(log),
                  next |-> (IF CanResume(cursor) THEN cursor.seq ELSE Len(log)) + 1]
  BY Zenon DEF Connect
<1>2. conn'.at = "hello" /\ conn'.resumed = CanResume(cursor) /\ conn'.hello = Len(log)
      /\ conn'.next = (IF CanResume(cursor) THEN cursor.seq ELSE Len(log)) + 1
  BY <1>1, Zenon
<1>. QED BY <1>1, <1>2

\* A restart of the server loses the log, the stream and the requests under way.
LEMMA RestartDoes ==
  ASSUME TypeOK, Restart
  PROVE  /\ epoch' = epoch + 1 /\ log' = <<>> /\ conn' = NoStream /\ await' = NoAwait
         /\ limits'.drops = limits.drops + 1 /\ limits'.edits = limits.edits /\ limits'.changes = limits.changes
         /\ req'.at = (IF req.at \in {"sent", "asked"} THEN "failed" ELSE req.at) /\ req'.got = req.got
         /\ ghost'.newest = ghost.newest /\ ghost'.behind = ghost.behind /\ ghost'.gone = ghost.gone
         /\ ghost'.lost = IF req.at = "sent" THEN ghost.lost \cup {lane.inFlight} ELSE ghost.lost
         /\ UNCHANGED <<srv, cursor, store, lane>>
<1>1. /\ epoch' = epoch + 1 /\ log' = <<>> /\ conn' = NoStream /\ await' = NoAwait
      /\ limits' = [limits EXCEPT !.drops = @ + 1]
      /\ req' = [req EXCEPT !.at = IF @ \in {"sent", "asked"} THEN "failed" ELSE @]
      /\ ghost' = IF req.at = "sent" THEN [ghost EXCEPT !.lost = @ \cup {lane.inFlight}] ELSE ghost
      /\ UNCHANGED <<srv, cursor, store, lane>>
  BY Zenon DEF Restart, Lost
<1>. QED BY <1>1 DEF TypeOK

\* A lost stream takes nothing else along.
LEMMA DropDoes ==
  ASSUME TypeOK, Drop
  PROVE  /\ conn' = NoStream /\ await' = NoAwait /\ UNCHANGED <<server, cursor, store, patches, ghost>>
         /\ limits'.drops = limits.drops + 1 /\ limits'.edits = limits.edits /\ limits'.changes = limits.changes
<1>1. /\ conn' = NoStream /\ await' = NoAwait /\ UNCHANGED <<server, cursor, store, patches, ghost>>
      /\ limits' = [limits EXCEPT !.drops = @ + 1]
  BY Zenon DEF Drop, Lost
<1>. QED BY <1>1 DEF TypeOK

\* The re-read of a branch switch that failed.
PeekSteps == BranchFails \/ PeekReads \/ PeekFails \/ PeekLands

\* Edits, their requests and their answers, and that re-read, leave the server, the stream and the
\* snapshots alone.
LaneSteps ==
  \/ Edit \/ Due \/ PatchFails \/ AnswerLands \/ FailureLands \/ Reread \/ RereadFails \/ RereadLands \/ PeekSteps
LEMMA LaneStepsDo == LaneSteps => UNCHANGED <<server, stream, load, hydrated, held>>
  BY Zenon DEF LaneSteps, Edit, Due, PatchFails, AnswerLands, FailureLands, Reread, RereadFails, RereadLands,
     PeekSteps, BranchFails, PeekReads, PeekFails, PeekLands, store

\* The fallback's load.
LEMMA AnywayDoes ==
  ASSUME HydrateAnyway
  PROVE  load.fallback /\ Hydrate /\ UNCHANGED <<server, stream, held, view, patches, limits, ghost>>
  BY Zenon DEF HydrateAnyway

\* A snapshot is read.
LEMMA ReadsDoes ==
  ASSUME TypeOK, SnapshotReads
  PROVE  /\ load.at = "asked" /\ load'.at = "read" /\ load'.got = srv
         /\ load'.again = load.again /\ load'.fallback = load.fallback
         /\ UNCHANGED <<server, stream, hydrated, held, view, patches, limits, ghost>>
<1>1. /\ load.at = "asked" /\ load' = [load EXCEPT !.at = "read", !.got = srv]
      /\ UNCHANGED <<server, stream, hydrated, held, view, patches, limits, ghost>>
  BY Zenon DEF SnapshotReads
<1>. QED BY <1>1 DEF TypeOK

\* Every step is one of these.
LEMMA StepKinds ==
  ASSUME [Next]_vars
  PROVE  \/ Change \/ Delete \/ PatchApplies \/ Connect \/ Hello \/ HydrateAnyway \/ Drop \/ Restart \/ Frame
         \/ SnapshotReads \/ SnapshotLands \/ SnapshotFails \/ LaneSteps \/ UNCHANGED vars
  BY Zenon DEF Next, LaneSteps, PeekSteps

\* A cursor of an earlier life of the server cannot be resumed.
LEMMA OldCursor ==
  ASSUME TypeOK, Numbered, Restart \/ epoch' = epoch + 1, UNCHANGED cursor
  PROVE  ~CanResume(cursor)'
<1>1. epoch' = epoch + 1
  BY RestartDoes
<1>2. epoch \in Nat /\ (cursor # None => cursor.epoch \in Nat /\ cursor.epoch <= epoch)
  BY Types DEF Numbered
<1>. QED BY <1>1, <1>2 DEF CanResume

\* The end of the log can be resumed from.
LEMMA EndResumes == TypeOK => CanResume(Here(Len(log)))
<1> SUFFICES ASSUME TypeOK PROVE CanResume(Here(Len(log)))
  OBVIOUS
<1>1. epoch \in Nat /\ Len(log) \in Nat
  BY Types
<1>2. Here(Len(log)) # None /\ Here(Len(log)).epoch = epoch /\ Here(Len(log)).seq = Len(log)
  BY <1>1, HereFacts
<1>3. Oldest <= Len(log) + 1
  BY <1>1, ClientAssumption DEF Oldest
<1>. QED BY <1>1, <1>2, <1>3 DEF CanResume

\* Every step keeps the log and the places in it.
LEMMA NumberedStep ==
  ASSUME IInv, TypeOK', [Next]_vars
  PROVE  Numbered'
<1>0. TypeOK /\ Numbered /\ Tracked /\ epoch \in Nat /\ Len(log) \in Nat /\ conn.next \in Nat /\ conn.hello \in Nat
      /\ limits.drops \in Nat
  BY Types DEF IInv
<1>1. CASE Change \/ Delete \/ PatchApplies
  <2>1. srv # None /\ srv' \in Records \cup {None} /\ Broadcast(srv') /\ UNCHANGED <<conn, cursor>>
    BY <1>1, Sends DEF stream
  <2>2. /\ Len(log') = Len(log) + 1 /\ log'[Len(log) + 1] = srv' /\ epoch' = epoch
        /\ \A i \in 1..Len(log) : log'[i] = log[i]
    BY <1>0, <2>1, ResumeGrows
  <2>3. \A i \in 1..Len(log) : log[i] # None
    <3>1. log \in Seq(Records \cup {None})
      BY <1>0, Types
    <3>2. Len(log) # 0 => log # <<>>
      BY EmptySeq
    <3>. QED BY <1>0, <2>1, <3>2 DEF Numbered
  <2>4. limits'.drops = limits.drops
    BY <1>0, <1>1, Zenon DEF Change, Delete, PatchApplies, TypeOK
  <2>5. \A i \in 1..Len(log') : log'[i] = None => i = Len(log')
    BY <1>0, <2>2, <2>3
  <2>6. log'[Len(log')] = srv'
    BY <2>2
  <2>7. conn'.at # "none" => conn'.next \in 1..(Len(log') + 1) /\ conn'.hello <= Len(log')
    BY <1>0, <2>1, <2>2 DEF Numbered
  <2>8. cursor' # None => cursor'.epoch <= epoch' /\ (cursor'.epoch = epoch' => cursor'.seq <= Len(log'))
    <3>1. cursor # None => cursor.epoch \in Nat /\ cursor.seq \in Nat
      BY <1>0, Types
    <3>. QED BY <1>0, <2>1, <2>2, <3>1 DEF Numbered
  <2>9. epoch' <= limits'.drops
    BY <1>0, <2>2, <2>4 DEF Numbered
  <2>. QED BY <2>5, <2>6, <2>7, <2>8, <2>9 DEF Numbered
<1>2. CASE Connect
  <2>1. /\ conn'.at = "hello" /\ conn'.hello = Len(log) /\ UNCHANGED <<srv, log, epoch, cursor, limits>>
        /\ conn'.next = cursor.seq + 1 \/ conn'.next = Len(log) + 1
        /\ conn'.next = cursor.seq + 1 => CanResume(cursor) \/ conn'.next = Len(log) + 1
    BY <1>0, <1>2, ConnectDoes DEF server
  <2>2. CanResume(cursor) => cursor.seq \in Nat /\ cursor.seq <= Len(log)
    BY <1>0, Types DEF CanResume
  <2>3. conn'.next \in 1..(Len(log) + 1)
    BY <1>0, <2>1, <2>2
  <2>. QED BY <1>0, <2>1, <2>3 DEF Numbered
<1>3. CASE Hello
  <2>1. conn.at = "hello" /\ conn'.next = conn.next /\ conn'.hello = conn.hello
        /\ UNCHANGED <<srv, log, epoch, cursor, limits>>
    BY <1>0, <1>3, HelloDoes DEF server
  <2>. QED BY <1>0, <2>1 DEF Numbered
<1>4. CASE Drop
  <2>1. conn'.at = "none" /\ limits'.drops = limits.drops + 1 /\ UNCHANGED <<srv, log, epoch, cursor>>
    BY <1>0, <1>4, DropDoes DEF server, NoStream
  <2>. QED BY <1>0, <2>1 DEF Numbered
<1>5. CASE Restart
  <2>1. conn'.at = "none" /\ limits'.drops = limits.drops + 1 /\ log' = <<>> /\ epoch' = epoch + 1 /\ UNCHANGED <<srv, cursor>>
    BY <1>0, <1>5, RestartDoes DEF NoStream
  <2>2. cursor # None => cursor.epoch \in Nat
    BY <1>0, Types
  <2>. QED BY <1>0, <2>1, <2>2 DEF Numbered
<1>6. CASE Frame
  <2>1. /\ conn.at = "open" /\ conn.next <= Len(log) /\ UNCHANGED <<srv, log, epoch, limits>>
        /\ conn'.next = conn.next + 1 /\ conn'.hello = conn.hello
        /\ cursor' = cursor \/ cursor' = Here(conn.next)
    BY <1>0, <1>6, FrameDoes DEF server
  <2>2. Here(conn.next).epoch = epoch /\ Here(conn.next).seq = conn.next
    BY <1>0, HereFacts
  <2>. QED BY <1>0, <2>1, <2>2 DEF Numbered
<1>7. CASE SnapshotLands
  <2>1. UNCHANGED <<srv, log, epoch, conn, limits>>
    BY <1>0, <1>7, LandsDoes DEF server
  <2>2. \/ cursor' = cursor \/ (await.on /\ cursor' = await.boundary)
        \/ await.on /\ await.newest # None /\ cursor' = await.newest
    <3>1. load.again => cursor' = cursor
      BY <1>0, <1>7, LandsDoes, Zenon
    <3>2. ~load.again => cursor' = IF ~await.on THEN cursor
                                   ELSE IF await.newest # None THEN await.newest ELSE await.boundary
      BY <1>0, <1>7, LandsDoes, Zenon
    <3>. QED BY <3>1, <3>2
  <2>3. await.on => /\ conn.at = "open" /\ await.boundary = Here(conn.hello)
                    /\ await.newest = None \/ (await.newest = Here(conn.next - 1) /\ conn.next > 1)
    BY <1>0 DEF Tracked
  <2>4. \A n \in Nat : Here(n).epoch = epoch /\ Here(n).seq = n
    BY <1>0, HereFacts
  <2>5. cursor' # None => cursor'.epoch <= epoch /\ (cursor'.epoch = epoch => cursor'.seq <= Len(log))
    <3>1. CASE cursor' = cursor
      BY <1>0, <3>1 DEF Numbered
    <3>2. CASE await.on /\ cursor' = Here(conn.hello)
      BY <1>0, <2>3, <2>4, <3>2 DEF Numbered
    <3>3. CASE await.on /\ cursor' = Here(conn.next - 1) /\ conn.next > 1
      BY <1>0, <2>3, <2>4, <3>3 DEF Numbered
    <3>. QED BY <2>2, <2>3, <3>1, <3>2, <3>3
  <2>. QED BY <1>0, <2>1, <2>5 DEF Numbered
<1>8. CASE SnapshotFails
  <2>1. /\ UNCHANGED <<srv, log, epoch, cursor>> /\ limits'.drops = limits.drops
        /\ conn' = conn \/ conn'.at = "none"
    BY <1>0, <1>8, FailsDoes DEF server, NoStream
  <2>. QED BY <1>0, <2>1 DEF Numbered
<1>9. CASE HydrateAnyway \/ SnapshotReads \/ LaneSteps \/ UNCHANGED vars
  <2>1. UNCHANGED <<srv, log, epoch, conn, cursor>>
    BY <1>0, <1>9, AnywayDoes, ReadsDoes, LaneStepsDo DEF server, stream, vars
  <2>2. limits'.drops = limits.drops
    <3>1. LaneSteps => \/ limits' = limits \/ limits' = [limits EXCEPT !.fails = @ + 1]
                       \/ limits' = [limits EXCEPT !.edits = limits.edits + 1]
      BY Zenon DEF LaneSteps, PeekSteps, Edit, Due, PatchFails, AnswerLands, FailureLands, Reread, RereadFails,
         RereadLands, BranchFails, PeekReads, PeekFails, PeekLands, Fails
    <3>2. HydrateAnyway \/ SnapshotReads \/ UNCHANGED vars => limits' = limits
      BY Zenon DEF HydrateAnyway, SnapshotReads, vars
    <3>. QED BY <1>0, <1>9, <3>1, <3>2 DEF TypeOK
  <2>. QED BY <1>0, <2>1, <2>2 DEF Numbered
<1>. QED BY <1>1, <1>2, <1>3, <1>4, <1>5, <1>6, <1>7, <1>8, <1>9, StepKinds

\* Steps that leave the log and the cursor alone leave alone what can be resumed.
LEMMA ResumeStays ==
  ASSUME UNCHANGED <<log, epoch, cursor>>
  PROVE  CanResume(cursor)' <=> CanResume(cursor)
  BY DEF CanResume, Oldest

\* Every step keeps the cursor and the stream together.
LEMMA TrackedStep ==
  ASSUME IInv, TypeOK', [Next]_vars
  PROVE  Tracked'
<1>0. /\ TypeOK /\ Numbered /\ Tracked /\ Loading /\ epoch \in Nat /\ Len(log) \in Nat
      /\ conn.next \in Nat /\ conn.hello \in Nat /\ \A n \in Nat : Here(n) # None
  BY Types, HereFacts DEF IInv
<1>1. CASE Change \/ Delete \/ PatchApplies
  <2>1. srv' \in Records \cup {None} /\ Broadcast(srv') /\ UNCHANGED <<conn, cursor, await, load, hydrated, held>>
    BY <1>1, Sends DEF stream, store
  <2>2. /\ Len(log') = Len(log) + 1 /\ epoch' = epoch /\ \A i \in 1..Len(log) : log'[i] = log[i]
        /\ CanResume(cursor)' => CanResume(cursor)
    BY <1>0, <2>1, ResumeGrows
  <2>3. \A n \in Nat : Here(n)' = Here(n)
    BY <2>2 DEF Here
  <2>4. await.on => (held # <<>> => log'[conn.next - 1] = log[conn.next - 1])
    BY <1>0, <2>2 DEF Tracked, Numbered
  <2>5. conn.at \in {"hello", "open"} => conn.next - 1 \in Nat
    BY <1>0 DEF Numbered
  <2>. QED BY <1>0, <2>1, <2>2, <2>3, <2>4, <2>5 DEF Tracked
<1>2. CASE Connect
  <2>1. /\ conn.at = "none" /\ UNCHANGED <<log, epoch, cursor, await, load, hydrated, held>>
        /\ conn'.at = "hello" /\ conn'.resumed = CanResume(cursor) /\ conn'.hello = Len(log)
        /\ CanResume(cursor) => conn'.next = cursor.seq + 1
        /\ ~CanResume(cursor) => conn'.next = Len(log) + 1
    BY <1>0, <1>2, ConnectDoes DEF server, store
  <2>2. ~await.on
    BY <1>0, <2>1 DEF Tracked
  <2>3. CanResume(cursor) => hydrated /\ cursor = Here(cursor.seq) /\ cursor.seq \in Nat
    BY <1>0, Types DEF Loading, TypeOK, Cursors, CanResume, Here
  <2>4. CanResume(cursor)' <=> CanResume(cursor)
    BY <2>1, ResumeStays
  <2>5. CanResume(cursor) => cursor' = Here(conn'.next - 1)
    BY <2>1, <2>3
  <2>6. \A n : Here(n)' = Here(n)
    BY <2>1 DEF Here
  <2>. QED BY <2>1, <2>2, <2>3, <2>4, <2>5, <2>6 DEF Tracked
<1>3. CASE Hello
  <2>1. /\ conn.at = "hello" /\ UNCHANGED <<log, epoch, cursor>>
        /\ conn'.at = "open" /\ conn'.next = conn.next /\ conn'.hello = conn.hello
        /\ conn.resumed => UNCHANGED <<await, load, hydrated, held>>
        /\ ~conn.resumed => /\ await'.on /\ await'.boundary = Here(conn.hello) /\ await'.newest = None
                            /\ held' = <<>> /\ load'.at # "none"
    BY <1>0, <1>3, HelloDoes, HydrateDoes DEF server
  <2>2. ~await.on
    BY <1>0, <2>1 DEF Tracked
  <2>3. \A n : Here(n)' = Here(n)
    BY <2>1 DEF Here
  <2>. QED BY <1>0, <2>1, <2>2, <2>3 DEF Tracked
<1>4. CASE HydrateAnyway
  <2>1. /\ load.fallback /\ Hydrate /\ UNCHANGED <<log, epoch, conn, cursor, await, held>>
    BY <1>4, AnywayDoes DEF server, stream
  <2>2. cursor = None /\ conn.at # "open"
    BY <1>0, <2>1 DEF Loading
  <2>3. ~await.on /\ (conn.at = "hello" => conn.next - 1 \in Nat)
    BY <1>0, <2>2 DEF Tracked, Numbered
  <2>4. ~(conn.at = "hello" /\ conn.resumed)
    BY <1>0, <2>2, <2>3 DEF Tracked
  <2>. QED BY <1>0, <2>1, <2>2, <2>3, <2>4, ResumeStays DEF Tracked
<1>5. CASE Drop \/ Restart
  <2>1. conn'.at = "none" /\ ~await'.on
    BY <1>0, <1>5, DropDoes, RestartDoes DEF NoStream, NoAwait
  <2>. QED BY <2>1 DEF Tracked
<1>6. CASE Frame
  <2>1. /\ conn.at = "open" /\ conn.next <= Len(log) /\ UNCHANGED <<log, epoch, load, hydrated>>
        /\ conn'.at = "open" /\ conn'.next = conn.next + 1 /\ conn'.hello = conn.hello
        /\ await.on => /\ UNCHANGED cursor /\ await'.on /\ await'.boundary = await.boundary
                       /\ await'.newest = Here(conn.next)
        /\ ~await.on => cursor' = Here(conn.next) /\ UNCHANGED await
        /\ ~hydrated => held' = <<log[conn.next]>>
    BY <1>0, <1>6, FrameDoes DEF server
  <2>2. \A n : Here(n)' = Here(n)
    BY <2>1 DEF Here
  <2>3. conn.next > 0 /\ conn'.next - 1 = conn.next
    BY <1>0, <2>1 DEF Numbered
  <2>4. CASE await.on
    <3>1. ~hydrated /\ load.at # "none" /\ await.boundary = Here(conn.hello)
      BY <1>0, <2>4 DEF Tracked, Loading
    <3>2. held' = <<log[conn.next]>> /\ log' = log
      BY <2>1, <3>1
    <3>3. held' # <<>> /\ held' = <<log'[conn'.next - 1]>>
      BY <2>3, <3>2
    <3>4. await'.newest = Here(conn.next) /\ await'.boundary = Here(conn.hello)
      BY <2>1, <2>2, <2>3, <2>4, <3>1
    <3>5. conn'.at = "open" /\ load'.at # "none" /\ conn'.next > 1 /\ await'.on
      BY <1>0, <2>1, <2>3, <2>4, <3>1
    <3>. QED BY <2>1, <2>2, <2>3, <3>3, <3>4, <3>5 DEF Tracked
  <2>5. CASE ~await.on
    <3>1. hydrated
      BY <1>0, <2>1, <2>5 DEF Tracked
    <3>. QED BY <2>1, <2>2, <2>3, <2>5, <3>1 DEF Tracked
  <2>. QED BY <2>4, <2>5
<1>7. CASE SnapshotLands
  <2>1. load.at = "read" /\ ~hydrated /\ UNCHANGED <<log, epoch, conn>>
    BY <1>0, <1>7, LandsDoes DEF server, Loading
  <2>2. \A n : Here(n)' = Here(n)
    BY <2>1 DEF Here
  <2>3. CASE load.again
    <3>1. UNCHANGED <<hydrated, held, cursor, await>> /\ load'.at = "asked"
      BY <1>0, <1>7, <2>3, LandsDoes
    <3>. QED BY <1>0, <2>1, <2>2, <3>1, ResumeStays DEF Tracked
  <2>4. CASE ~load.again
    <3>0. /\ hydrated' /\ await' = NoAwait
          /\ cursor' = IF ~await.on THEN cursor
                       ELSE IF await.newest # None THEN await.newest ELSE await.boundary
      BY <1>0, <1>7, <2>4, LandsDoes, Zenon
    <3>1. /\ hydrated' /\ ~await'.on
          /\ cursor' = IF ~await.on THEN cursor
                       ELSE IF await.newest # None THEN await.newest ELSE await.boundary
      BY <3>0 DEF NoAwait
    <3>2. CASE await.on
      <4>1. conn.at = "open" /\ conn.next - 1 \in Nat
        BY <1>0, <3>2 DEF Tracked, Numbered
      <4>2. held = <<>> => cursor' = Here(conn.next - 1)
        BY <1>0, <3>1, <3>2 DEF Tracked
      <4>3. held # <<>> => cursor' = Here(conn.next - 1)
        BY <1>0, <3>1, <3>2, <4>1 DEF Tracked
      <4>. QED BY <2>1, <2>2, <3>1, <4>1, <4>2, <4>3 DEF Tracked
    <3>3. CASE ~await.on
      <4>1. cursor' = cursor /\ conn.at # "open" /\ ~(conn.at = "hello" /\ conn.resumed)
        BY <1>0, <2>1, <3>1, <3>3 DEF Tracked
      <4>. QED BY <1>0, <2>1, <2>2, <3>1, <4>1, ResumeStays DEF Tracked
    <3>. QED BY <3>2, <3>3
  <2>. QED BY <2>3, <2>4
<1>8. CASE SnapshotFails
  <2>1. /\ UNCHANGED <<log, epoch, cursor, hydrated, held>>
        /\ \/ load'.at = "asked" /\ UNCHANGED <<conn, await>>
           \/ conn'.at = "none" /\ ~await'.on
           \/ ~await.on /\ UNCHANGED <<conn, await>>
    BY <1>0, <1>8, FailsDoes DEF server, NoStream, NoAwait
  <2>2. (\A n : Here(n)' = Here(n)) /\ (CanResume(cursor)' <=> CanResume(cursor))
    BY <2>1, ResumeStays DEF Here
  <2>. QED BY <1>0, <2>1, <2>2 DEF Tracked
<1>9. CASE SnapshotReads \/ LaneSteps \/ UNCHANGED vars
  <2>1. UNCHANGED <<log, epoch, conn, cursor, await, hydrated, held>> /\ (load.at # "none" => load'.at # "none")
    BY <1>0, <1>9, ReadsDoes, LaneStepsDo DEF server, stream, vars
  <2>2. (\A n : Here(n)' = Here(n)) /\ (CanResume(cursor)' <=> CanResume(cursor))
    BY <2>1, ResumeStays DEF Here
  <2>. QED BY <1>0, <2>1, <2>2 DEF Tracked
<1>. QED BY <1>1, <1>2, <1>3, <1>4, <1>5, <1>6, <1>7, <1>8, <1>9, StepKinds

\* Every step keeps what a load may count on.
LEMMA LoadingStep ==
  ASSUME IInv, TypeOK', [Next]_vars
  PROVE  Loading'
<1>0. /\ TypeOK /\ Numbered /\ Tracked /\ Loading /\ epoch \in Nat /\ Len(log) \in Nat
      /\ conn.next \in Nat /\ conn.hello \in Nat /\ \A n \in Nat : Here(n) # None
  BY Types, HereFacts DEF IInv
<1>1. CASE Change \/ Delete \/ PatchApplies
  <2>1. srv' \in Records \cup {None} /\ Broadcast(srv') /\ UNCHANGED <<conn, cursor, await, load, hydrated, held>>
    BY <1>1, Sends DEF stream, store
  <2>2. Len(log') = Len(log) + 1 /\ (CanResume(cursor)' => CanResume(cursor))
    BY <1>0, <2>1, ResumeGrows
  <2>3. await.on => conn.hello # Len(log')
    BY <1>0, <2>2 DEF Tracked, Numbered
  <2>. QED BY <1>0, <2>1, <2>2, <2>3 DEF Loading
<1>2. CASE Connect
  <2>1. /\ conn.at = "none" /\ UNCHANGED <<srv, log, epoch, cursor, await, load, hydrated, held>> /\ conn'.at = "hello"
    BY <1>0, <1>2, ConnectDoes DEF server, store
  <2>2. ~await.on
    BY <1>0, <2>1 DEF Tracked
  <2>. QED BY <1>0, <2>1, <2>2, ResumeStays DEF Loading
<1>3. CASE Hello
  <2>1. /\ conn.at = "hello" /\ UNCHANGED <<srv, log, epoch, cursor>>
        /\ conn'.at = "open" /\ conn'.hello = conn.hello
    BY <1>0, <1>3, HelloDoes DEF server
  <2>2. ~await.on /\ (CanResume(cursor)' <=> CanResume(cursor))
    BY <1>0, <2>1, ResumeStays DEF Tracked
  <2>3. CASE conn.resumed
    <3>1. UNCHANGED <<await, load, hydrated, held>>
      BY <1>0, <1>3, <2>3, HelloDoes
    <3>2. cursor # None
      BY <1>0, <2>1, <2>3 DEF Tracked, Numbered
    <3>. QED BY <1>0, <2>1, <2>2, <3>1, <3>2 DEF Loading
  <2>4. CASE ~conn.resumed
    <3>1. held' = <<>> /\ Hydrate /\ ~CanResume(cursor)
      BY <1>0, <1>3, <2>1, <2>4, HelloDoes DEF Tracked
    <3>2. /\ ~load'.fallback /\ load'.got = load.got /\ load'.at # "none"
          /\ load.at # "none" => load'.again /\ load'.at = load.at /\ UNCHANGED hydrated
          /\ load.at = "none" => load'.at = "asked" /\ ~hydrated'
      BY <1>0, <3>1, HydrateDoes
    <3>. QED BY <1>0, <2>2, <3>1, <3>2 DEF Loading
  <2>. QED BY <2>3, <2>4
<1>4. CASE HydrateAnyway
  <2>1. /\ load.fallback /\ Hydrate /\ UNCHANGED <<log, epoch, conn, cursor, await, held>>
    BY <1>4, AnywayDoes DEF server, stream
  <2>2. cursor = None /\ conn.at # "open" /\ ~await.on /\ ~CanResume(cursor)
    BY <1>0, <2>1 DEF Loading, Tracked, CanResume
  <2>3. /\ ~load'.fallback /\ load'.got = load.got /\ load'.at # "none"
        /\ load.at # "none" => load'.again /\ load'.at = load.at /\ UNCHANGED hydrated
        /\ load.at = "none" => load'.at = "asked" /\ ~hydrated'
    BY <1>0, <2>1, HydrateDoes
  <2>. QED BY <1>0, <2>1, <2>2, <2>3, ResumeStays DEF Loading
<1>5. CASE Drop \/ Restart
  <2>1. conn'.at = "none" /\ ~await'.on /\ UNCHANGED <<cursor, load, hydrated, held>>
    BY <1>0, <1>5, DropDoes, RestartDoes DEF NoStream, NoAwait, store
  <2>2. CanResume(cursor)' => CanResume(cursor)
    <3>1. Drop => UNCHANGED <<log, epoch, cursor>>
      BY <1>0, DropDoes DEF server
    <3>. QED BY <1>0, <1>5, <2>1, <3>1, ResumeStays, OldCursor
  <2>. QED BY <1>0, <2>1, <2>2 DEF Loading
<1>6. CASE Frame
  <2>1. /\ conn.at = "open" /\ UNCHANGED <<srv, log, epoch, load, hydrated>>
        /\ conn'.at = "open" /\ conn'.hello = conn.hello
        /\ await.on => UNCHANGED cursor
        /\ await'.on = await.on
        /\ hydrated => UNCHANGED held
    BY <1>0, <1>6, FrameDoes DEF server, TypeOK
  <2>2. ~load.fallback /\ (~hydrated => await.on)
    BY <1>0, <2>1 DEF Loading, Tracked
  <2>. QED BY <1>0, <2>1, <2>2, ResumeStays DEF Loading
<1>7. CASE SnapshotLands
  <2>1. load.at = "read" /\ ~hydrated /\ UNCHANGED <<srv, log, epoch, conn>>
    BY <1>0, <1>7, LandsDoes DEF server, Loading
  <2>2. CASE load.again
    <3>1. UNCHANGED <<hydrated, held, cursor, await>> /\ load'.at = "asked" /\ load'.got = None
          /\ load'.fallback = load.fallback
      BY <1>0, <1>7, <2>2, LandsDoes
    <3>. QED BY <1>0, <2>1, <3>1, ResumeStays DEF Loading
  <2>3. CASE ~load.again
    <3>0. /\ hydrated' /\ await' = NoAwait /\ held' = <<>> /\ load'.at = "none" /\ load'.got = None
          /\ load'.fallback = load.fallback /\ (~await.on => cursor' = cursor)
      BY <1>0, <1>7, <2>3, LandsDoes, Zenon
    <3>1. /\ hydrated' /\ ~await'.on /\ held' = <<>> /\ load'.at = "none" /\ load'.got = None
          /\ load'.fallback = load.fallback /\ (~await.on => cursor' = cursor)
      BY <3>0 DEF NoAwait
    <3>2. load.fallback => ~await.on
      BY <1>0 DEF Loading, Tracked
    <3>. QED BY <1>0, <2>1, <3>1, <3>2 DEF Loading
  <2>. QED BY <2>2, <2>3
<1>8. CASE SnapshotFails
  <2>1. /\ UNCHANGED <<srv, log, epoch, cursor, hydrated, held>> /\ load.at # "none"
        /\ load'.got = None /\ load'.fallback = load.fallback /\ load'.at # "read"
        /\ conn' = conn \/ conn'.at = "none"
    BY <1>0, <1>8, FailsDoes DEF server, NoStream
  <2>. QED BY <1>0, <2>1, ResumeStays DEF Loading
<1>9. CASE SnapshotReads
  <2>1. /\ load.at = "asked" /\ load'.at = "read" /\ load'.got = srv
        /\ load'.again = load.again /\ load'.fallback = load.fallback
        /\ UNCHANGED <<srv, log, epoch, conn, cursor, await, hydrated, held>>
    BY <1>0, <1>9, ReadsDoes DEF server, stream
  <2>. QED BY <1>0, <2>1, ResumeStays DEF Loading
<1>10. CASE LaneSteps \/ UNCHANGED vars
  <2>1. UNCHANGED <<srv, log, epoch, conn, cursor, await, load, hydrated, held>>
    BY <1>10, LaneStepsDo DEF server, stream, vars
  <2>. QED BY <1>0, <2>1, ResumeStays DEF Loading
<1>. QED BY <1>1, <1>2, <1>3, <1>4, <1>5, <1>6, <1>7, <1>8, <1>9, <1>10, StepKinds

\* An edit is pending, on top of its lane or of a new one.
LEMMA EditDoes ==
  ASSUME TypeOK, Edit
  PROVE  /\ view # None /\ ~(lane.cancelled /\ lane.running) /\ lane'.fallback \in {view, lane.fallback}
         /\ limits'.edits = limits.edits + 1 /\ limits'.changes = limits.changes
         /\ lane'.pending = limits.edits + 1 /\ lane'.timer
         /\ view'.v = view.v
         /\ lane.cancelled \/ lane = NoLane =>
              ~lane'.running /\ lane'.inFlight = 0 /\ ~lane'.cancelled /\ lane'.fallback = view
         /\ ~lane.cancelled /\ lane # NoLane =>
              /\ lane'.running = lane.running /\ lane'.inFlight = lane.inFlight
              /\ ~lane'.cancelled /\ lane'.fallback = lane.fallback
         /\ UNCHANGED <<server, stream, load, hydrated, held, req, ghost>>
<1>1. /\ view # None /\ ~(lane.cancelled /\ lane.running)
      /\ limits' = [limits EXCEPT !.edits = limits.edits + 1] /\ view' = [view EXCEPT !.f = limits.edits + 1]
      /\ lane' = [IF lane.cancelled \/ lane = NoLane THEN [NoLane EXCEPT !.fallback = view] ELSE lane
                  EXCEPT !.pending = limits.edits + 1, !.timer = TRUE]
      /\ UNCHANGED <<server, stream, load, hydrated, held, req, ghost>>
  BY Zenon DEF Edit
<1>2. view \in Records
  BY <1>1 DEF TypeOK
<1>3. view'.v = view.v
  BY <1>1, <1>2 DEF Records
<1>4. CASE lane.cancelled \/ lane = NoLane
  <2>1. lane' = [[NoLane EXCEPT !.fallback = view] EXCEPT !.pending = limits.edits + 1, !.timer = TRUE]
    BY <1>1, <1>4
  <2>. QED BY <1>1, <1>3, <1>4, <2>1 DEF TypeOK, NoLane
<1>5. CASE ~lane.cancelled /\ lane # NoLane
  <2>1. lane' = [lane EXCEPT !.pending = limits.edits + 1, !.timer = TRUE]
    BY <1>1, <1>5
  <2>. QED BY <1>1, <1>3, <1>5, <2>1 DEF TypeOK
<1>. QED BY <1>4, <1>5

\* The timer sends what is pending, unless a request is under way.
LEMMA DueDoes ==
  ASSUME TypeOK, Due
  PROVE  /\ lane.timer /\ ~lane'.timer
         /\ lane'.cancelled = lane.cancelled /\ lane'.fallback = lane.fallback
         /\ ~lane.running /\ lane.pending # 0 =>
              lane'.running /\ lane'.inFlight = lane.pending /\ lane'.pending = 0 /\ req' = Sent
         /\ lane.running \/ lane.pending = 0 =>
              /\ lane'.running = lane.running /\ lane'.inFlight = lane.inFlight /\ lane'.pending = lane.pending
              /\ UNCHANGED req
         /\ UNCHANGED <<server, stream, store, limits, ghost>>
<1> DEFINE l == [lane EXCEPT !.timer = FALSE]
<1>1. /\ lane.timer /\ UNCHANGED <<server, stream, store, limits, ghost>>
      /\ CanDrain(l) => lane' = Drained(l) /\ req' = Sent
      /\ ~CanDrain(l) => lane' = l /\ UNCHANGED req
  BY Zenon DEF Due
<1>2. l.running = lane.running /\ ~l.timer /\ l.pending = lane.pending /\ l.inFlight = lane.inFlight
      /\ l.cancelled = lane.cancelled /\ l.fallback = lane.fallback
  BY DEF TypeOK
<1>3. CanDrain(l) <=> ~lane.running /\ lane.pending # 0
  BY <1>2 DEF CanDrain
<1>4. lane' = Drained(l) => /\ lane'.running /\ lane'.inFlight = lane.pending /\ lane'.pending = 0 /\ ~lane'.timer
                            /\ lane'.cancelled = lane.cancelled /\ lane'.fallback = lane.fallback
  BY DEF Drained, TypeOK
<1>. HIDE DEF l
<1>. QED BY <1>1, <1>2, <1>3, <1>4

\* After a request the lane sends what is pending, ends, or waits for its timer.
LEMMA FinallyDoes ==
  ASSUME TypeOK, NEW r, Finally(r)
  PROVE  \/ /\ ~lane.timer /\ lane.pending # 0 /\ req' = Sent
            /\ lane'.running /\ lane'.inFlight = lane.pending /\ lane'.pending = 0 /\ ~lane'.timer
            /\ lane'.cancelled = lane.cancelled /\ lane'.fallback = (IF r = None THEN lane.fallback ELSE r)
         \/ ~lane.timer /\ lane.pending = 0 /\ req' = NoReq /\ lane' = NoLane
         \/ /\ lane.timer /\ req' = NoReq
            /\ ~lane'.running /\ lane'.inFlight = 0 /\ lane'.pending = lane.pending /\ lane'.timer
            /\ lane'.cancelled = lane.cancelled /\ lane'.fallback = (IF r = None THEN lane.fallback ELSE r)
<1> DEFINE l == [lane EXCEPT !.running = FALSE, !.inFlight = 0, !.fallback = IF r = None THEN @ ELSE r]
<1>1. /\ CanDrain(l) => lane' = Drained(l) /\ req' = Sent
      /\ ~CanDrain(l) => req' = NoReq /\ lane' = IF Idle(l) THEN NoLane ELSE l
  BY Zenon DEF Finally, Settle
<1>2. ~l.running /\ l.timer = lane.timer /\ l.pending = lane.pending /\ l.inFlight = 0
      /\ l.cancelled = lane.cancelled /\ l.fallback = (IF r = None THEN lane.fallback ELSE r)
  BY DEF TypeOK
<1>3. (CanDrain(l) <=> ~lane.timer /\ lane.pending # 0) /\ (Idle(l) <=> ~lane.timer /\ lane.pending = 0)
  BY <1>2 DEF CanDrain, Idle
<1>4. lane' = Drained(l) => /\ lane'.running /\ lane'.inFlight = lane.pending /\ lane'.pending = 0
                            /\ lane'.timer = lane.timer /\ lane'.cancelled = lane.cancelled
                            /\ lane'.fallback = (IF r = None THEN lane.fallback ELSE r)
  BY DEF Drained, TypeOK
<1>. HIDE DEF l
<1>. QED BY <1>1, <1>2, <1>3, <1>4

\* Answers and re-reads of a lane that was cancelled are dropped, the others are folded.
LEMMA AnswersDo ==
  ASSUME AnswerLands \/ RereadLands
  PROVE  /\ req.at \in {"answered", "read"} /\ UNCHANGED <<server, stream, load, hydrated, held, limits>>
         /\ lane.cancelled => lane' = NoLane /\ req' = NoReq /\ UNCHANGED <<view, ghost>>
         /\ ~lane.cancelled =>
              /\ Finally(req.got)
              /\ \/ Authoritative(req.got)
                 \/ req.got = None /\ UNCHANGED <<view, ghost>>
  BY Zenon DEF AnswerLands, RereadLands, Abandoned, Closed

\* A failure has the operator read again, unless the lane was cancelled.
LEMMA FailureDoes ==
  ASSUME TypeOK, FailureLands
  PROVE  /\ req.at = "failed" /\ UNCHANGED <<server, stream, store, limits, ghost>>
         /\ lane.cancelled => lane' = NoLane /\ req' = NoReq
         /\ ~lane.cancelled =>
              /\ req'.at = "asked" /\ req'.got = None
              /\ lane'.inFlight = 0 /\ lane'.pending = lane.pending /\ lane'.timer = lane.timer
              /\ lane'.running = lane.running /\ lane'.cancelled = lane.cancelled /\ lane'.fallback = lane.fallback
<1>1. /\ req.at = "failed" /\ UNCHANGED <<server, stream, store, limits, ghost>>
      /\ lane.cancelled => lane' = NoLane /\ req' = NoReq
      /\ ~lane.cancelled => lane' = [lane EXCEPT !.inFlight = 0] /\ req' = [at |-> "asked", got |-> None]
  BY Zenon DEF FailureLands, Abandoned, Closed, store
<1>. QED BY <1>1 DEF TypeOK

\* Requests fail, and the operator is read again.
LEMMA RequestsDo ==
  ASSUME TypeOK, PatchFails \/ Reread \/ RereadFails
  PROVE  /\ UNCHANGED <<server, stream, store, lane>>
         /\ limits'.edits = limits.edits /\ limits'.changes = limits.changes
         /\ ghost'.newest = ghost.newest /\ ghost'.behind = ghost.behind /\ ghost'.gone = ghost.gone
         /\ \/ /\ req.at \in {"sent", "answered"} /\ req'.at = "failed" /\ req'.got = None
               /\ req.at = "sent" => ghost'.lost = ghost.lost \cup {lane.inFlight}
               /\ req.at # "sent" => UNCHANGED ghost
            \/ req.at = "asked" /\ req'.at = "read" /\ req'.got \in {srv, lane.fallback} /\ UNCHANGED ghost
<1>1. /\ UNCHANGED <<server, stream, store, lane>>
      /\ limits' = limits \/ limits' = [limits EXCEPT !.fails = @ + 1]
      /\ \/ /\ req.at \in {"sent", "answered"} /\ req' = [req EXCEPT !.at = "failed", !.got = None]
            /\ ghost' = IF req.at = "sent" THEN [ghost EXCEPT !.lost = @ \cup {lane.inFlight}] ELSE ghost
         \/ req.at = "asked" /\ req' = [at |-> "read", got |-> srv] /\ ghost' = ghost
         \/ req.at = "asked" /\ req' = [at |-> "read", got |-> lane.fallback] /\ ghost' = ghost
  BY Zenon DEF PatchFails, Reread, RereadFails, Fails
<1>2. limits'.edits = limits.edits /\ limits'.changes = limits.changes
  BY <1>1 DEF TypeOK
<1>3. CASE req.at \in {"sent", "answered"} /\ req' = [req EXCEPT !.at = "failed", !.got = None]
           /\ ghost' = IF req.at = "sent" THEN [ghost EXCEPT !.lost = @ \cup {lane.inFlight}] ELSE ghost
  <2>1. req'.at = "failed" /\ req'.got = None
    BY <1>3 DEF TypeOK
  <2>2. ghost'.newest = ghost.newest /\ ghost'.behind = ghost.behind /\ ghost'.gone = ghost.gone
        /\ (req.at = "sent" => ghost'.lost = ghost.lost \cup {lane.inFlight}) /\ (req.at # "sent" => UNCHANGED ghost)
    BY <1>3 DEF TypeOK
  <2>. QED BY <1>1, <1>2, <1>3, <2>1, <2>2
<1>4. CASE req.at = "asked" /\ req' \in {[at |-> "read", got |-> srv], [at |-> "read", got |-> lane.fallback]} /\ ghost' = ghost
  BY <1>1, <1>2, <1>4
<1>. QED BY <1>1, <1>3, <1>4

\* A step that folds a frame into the window, live or from the ones held.
LEMMA FoldDoes ==
  ASSUME TypeOK, NEW r, Fold(r)
  PROVE  /\ r = None => view' = None
         /\ r # None => UNCHANGED lane
         /\ r # None /\ lane = NoLane => view' = r
         /\ r = None /\ lane = NoLane => lane' = NoLane
         /\ r = None /\ lane # NoLane =>
              /\ lane'.cancelled /\ ~lane'.timer /\ lane'.running = lane.running
              /\ lane'.pending = lane.pending /\ lane'.inFlight = lane.inFlight /\ lane'.fallback = lane.fallback
<1>1. view' = Shown(r, Overlay) /\ (r = None => CancelLane) /\ (r # None => UNCHANGED lane)
  BY Zenon DEF Fold
<1>2. lane = NoLane => Overlay = 0
  BY DEF Overlay, NoLane
<1>. QED BY <1>1, <1>2 DEF CancelLane, Shown, TypeOK

\* What the stream and the snapshots do before anything is folded.
StreamSteps == Connect \/ Hello \/ HydrateAnyway \/ Drop \/ SnapshotReads \/ SnapshotFails
LEMMA StreamStepsDo ==
  ASSUME TypeOK, StreamSteps
  PROVE  UNCHANGED <<srv, log, epoch, cursor, view, lane, req, ghost>> /\ limits'.edits = limits.edits /\ limits'.changes = limits.changes
<1>1. /\ UNCHANGED <<srv, log, epoch, cursor, view, lane, req, ghost>>
      /\ \/ limits' = limits
         \/ limits' = [limits EXCEPT !.drops = @ + 1]
         \/ limits' = [limits EXCEPT !.fails = @ + 1]
  BY Zenon DEF StreamSteps, Connect, Hello, HydrateAnyway, Drop, SnapshotReads, SnapshotFails, Fails,
     server, stream, store, patches
<1>. QED BY <1>1 DEF TypeOK

\* The operator of a frame that deletes it is gone.
LEMMA DeletedFrame ==
  ASSUME TypeOK, Numbered, NEW i \in 1..Len(log), log[i] = None
  PROVE  srv = None /\ i = Len(log)
<1>1. Len(log) \in Nat /\ log # <<>>
  BY Types, EmptySeq
<1>. QED BY <1>1 DEF Numbered

\* A folded frame leaves the lane as it was, or cancels it: the operator is gone.
FoldSteps == Frame \/ SnapshotLands
LEMMA FoldStepsDo ==
  ASSUME TypeOK, Numbered, Gone, FoldSteps
  PROVE  /\ UNCHANGED <<srv, log, epoch, req, limits>> /\ ghost'.lost = ghost.lost
         /\ \/ UNCHANGED lane
            \/ /\ srv = None /\ lane # NoLane /\ lane'.cancelled /\ ~lane'.timer /\ lane'.running = lane.running
               /\ lane'.pending = lane.pending /\ lane'.inFlight = lane.inFlight
<1>1. \/ UNCHANGED lane /\ (UNCHANGED ghost \/ \E r : Read(r))
      \/ Frame /\ hydrated /\ Fold(log[conn.next]) /\ Heard(log[conn.next])
      \/ held # <<>> /\ Fold(held[1]) /\ Heard(held[1])
  BY FrameDoes, LandsDoes, Zenon DEF FoldSteps
<1>2. UNCHANGED <<srv, log, epoch, req, limits>>
  BY FrameDoes, LandsDoes, Zenon DEF FoldSteps, server
<1>3. ghost'.lost = ghost.lost
  <2>1. \A r : Read(r) \/ Heard(r) => ghost'.lost = ghost.lost
    BY DEF Read, Heard, TypeOK
  <2>. QED BY <1>1, <2>1
<1>4. CASE Frame /\ hydrated /\ Fold(log[conn.next])
  <2>1. conn.next \in 1..Len(log)
    BY <1>4, FrameDoes, Types DEF Numbered
  <2>2. log[conn.next] = None => srv = None
    BY <2>1, DeletedFrame
  <2>. QED BY <1>2, <1>3, <1>4, <2>2, FoldDoes
<1>5. CASE held # <<>> /\ Fold(held[1])
  <2>1. held[1] = None => srv = None
    BY <1>5, Types DEF Gone, Deaf
  <2>. QED BY <1>2, <1>3, <1>5, <2>1, FoldDoes
<1>. QED BY <1>1, <1>2, <1>3, <1>4, <1>5

\* An applied edit is the server's next version.
LEMMA AppliesDo ==
  ASSUME TypeOK, PatchApplies
  PROVE  /\ req.at = "sent" /\ srv # None /\ srv' # None /\ req'.at = "answered" /\ req'.got = srv'
         /\ srv'.f = lane.inFlight /\ srv'.g = srv.g /\ srv'.v = srv.v + 1 /\ Broadcast(srv') /\ UNCHANGED <<lane, limits, ghost>>
<1>1. /\ req.at = "sent" /\ srv # None /\ req' = [at |-> "answered", got |-> srv']
      /\ Broadcast([srv EXCEPT !.f = lane.inFlight, !.v = @ + 1]) /\ UNCHANGED <<lane, limits, ghost>>
  BY Zenon DEF PatchApplies
<1>2. srv \in [f : Nat, g : Nat, v : Nat] /\ lane.inFlight \in Nat
  BY <1>1, Types, ClientAssumption DEF Records, Versions
<1>3. srv' = [srv EXCEPT !.f = lane.inFlight, !.v = @ + 1]
  BY <1>1 DEF Broadcast
<1>4. srv' = [f |-> lane.inFlight, g |-> srv.g, v |-> srv.v + 1]
  BY <1>2, <1>3
<1>5. srv' # None
  BY <1>2, <1>4, ClientAssumption
<1>. QED BY <1>1, <1>3, <1>4, <1>5

\* A change is the server's next version, and a deletion the last.
LEMMA ChangesDo ==
  ASSUME TypeOK, Change \/ Delete
  PROVE  /\ srv # None /\ Broadcast(srv') /\ UNCHANGED <<req, lane, ghost>> /\ limits'.edits = limits.edits
         /\ \/ srv' # None /\ srv'.f = srv.f /\ srv'.g = srv.g + 1 /\ srv'.v = srv.v + 1 /\ limits'.changes = limits.changes + 1
            \/ srv' = None
<1>1. /\ srv # None /\ UNCHANGED <<req, lane, ghost>>
      /\ \/ Broadcast([srv EXCEPT !.g = @ + 1, !.v = @ + 1]) /\ limits' = [limits EXCEPT !.changes = @ + 1]
         \/ Broadcast(None) /\ limits' = limits
  BY Zenon DEF Change, Delete, patches, Changed
<1>2. srv \in [f : Nat, g : Nat, v : Nat]
  BY <1>1, Types, ClientAssumption DEF Records, Versions
<1>3. CASE Broadcast([srv EXCEPT !.g = @ + 1, !.v = @ + 1]) /\ limits' = [limits EXCEPT !.changes = @ + 1]
  <2>1. srv' = [srv EXCEPT !.g = @ + 1, !.v = @ + 1]
    BY <1>3 DEF Broadcast
  <2>2. srv' = [f |-> srv.f, g |-> srv.g + 1, v |-> srv.v + 1]
    BY <1>2, <2>1
  <2>3. srv' # None
    BY <1>2, <2>2, ClientAssumption
  <2>4. limits'.changes = limits.changes + 1 /\ limits'.edits = limits.edits
    BY <1>3 DEF TypeOK
  <2>5. Broadcast(srv')
    BY <1>3, <2>1
  <2>. QED BY <1>1, <2>2, <2>3, <2>4, <2>5
<1>4. CASE Broadcast(None) /\ limits' = limits
  <2>1. srv' = None
    BY <1>4 DEF Broadcast
  <2>. QED BY <1>1, <1>4, <2>1
<1>. QED BY <1>1, <1>3, <1>4
-----------------------------------------------------------------------------
(* The lane, and what it promises of the edits.                             *)

\* Every step is one of these.
LEMMA LaneKinds ==
  ASSUME [Next]_vars
  PROVE  \/ Change \/ Delete \/ PatchApplies \/ Restart \/ StreamSteps \/ FoldSteps \/ Edit \/ Due \/ FailureLands
         \/ PatchFails \/ Reread \/ RereadFails \/ AnswerLands \/ RereadLands \/ PeekSteps \/ UNCHANGED vars
  BY Zenon DEF Next, StreamSteps, FoldSteps, PeekSteps

\* The re-read of a failed branch switch reads the server, and is folded as it is: the lane and
\* its request stay, and what the history notes is that an operator shown again was gone.
LEMMA PeekStepsDo ==
  ASSUME TypeOK, PeekSteps
  PROVE  /\ UNCHANGED <<srv, log, epoch, conn, cursor, await, load, hydrated, held, lane, req>>
         /\ limits'.edits = limits.edits /\ limits'.changes = limits.changes
         /\ ghost'.gone = ghost.gone /\ ghost'.lost = ghost.lost
         /\ \/ UNCHANGED <<view, ghost>> /\ peek'.got \in {None, srv}
            \/ /\ peek.got # None /\ peek'.got = None /\ view' = peek.got
               /\ ghost'.newest = Newest(peek.got)
               /\ ghost'.behind <=> ghost.behind \/ view = None \/ peek.got.v < ghost.newest
               /\ ghost'.revived <=> ghost.revived \/ ghost.gone
<1>1. /\ UNCHANGED <<srv, log, epoch, conn, cursor, await, load, hydrated, held, lane, req>>
      /\ limits' = limits \/ limits' = [limits EXCEPT !.fails = @ + 1]
      /\ \/ UNCHANGED <<view, ghost>>
            /\ (peek' = [at |-> "asked", got |-> None] \/ peek' = [at |-> "read", got |-> srv] \/ peek' = NoReq)
         \/ /\ peek.got # None /\ peek' = NoReq /\ view' = peek.got
            /\ ghost' = [ghost EXCEPT !.behind = @ \/ view = None \/ peek.got.v < ghost.newest,
                                     !.newest = Newest(peek.got), !.revived = @ \/ ghost.gone]
  BY Zenon DEF PeekSteps, BranchFails, PeekReads, PeekFails, PeekLands, Fails, server, stream, store
<1>2. limits'.edits = limits.edits /\ limits'.changes = limits.changes
  BY <1>1 DEF TypeOK
<1>3. CASE /\ UNCHANGED <<view, ghost>>
           /\ (peek' = [at |-> "asked", got |-> None] \/ peek' = [at |-> "read", got |-> srv] \/ peek' = NoReq)
  BY <1>1, <1>2, <1>3 DEF NoReq
<1>4. CASE /\ peek.got # None /\ peek' = NoReq /\ view' = peek.got
           /\ ghost' = [ghost EXCEPT !.behind = @ \/ view = None \/ peek.got.v < ghost.newest,
                                    !.newest = Newest(peek.got), !.revived = @ \/ ghost.gone]
  <2>1. /\ ghost'.newest = Newest(peek.got) /\ ghost'.gone = ghost.gone /\ ghost'.lost = ghost.lost
        /\ ghost'.behind = (ghost.behind \/ view = None \/ peek.got.v < ghost.newest)
        /\ ghost'.revived = (ghost.revived \/ ghost.gone)
    BY <1>4 DEF TypeOK
  <2>. QED BY <1>1, <1>2, <1>4, <2>1 DEF NoReq
<1>. QED BY <1>1, <1>3, <1>4

\* What it holds is what it read, and it reads the server.
LEMMA PeekStays ==
  ASSUME TypeOK, [Next]_vars
  PROVE  peek'.got \in {peek.got, None, srv}
<1>1. peek' \in {peek, NoReq, [at |-> "asked", got |-> None], [at |-> "read", got |-> srv]}
  BY Zenon DEF Next, PeekSteps, vars, patches, Change, Delete, Connect, Hello, HydrateAnyway, Drop, Restart, Frame,
     SnapshotReads, SnapshotLands, SnapshotFails, Edit, Due, PatchApplies, PatchFails, AnswerLands, FailureLands,
     Reread, RereadFails, RereadLands, BranchFails, PeekReads, PeekFails, PeekLands
<1>. QED BY <1>1 DEF NoReq

\* An operator shown again stays noted.
LEMMA RevivedStays ==
  ASSUME TypeOK, [Next]_vars, ghost.revived
  PROVE  ghost'.revived
<1>1. \/ ghost' = ghost \/ PeekSteps \/ Restart \/ PatchFails
      \/ \E r : Read(r) \/ Heard(r) \/ Answered(r)
  <2>1. CASE Frame
    BY <2>1, Zenon DEF Frame
  <2>2. CASE SnapshotLands
    BY <2>2, Zenon DEF SnapshotLands
  <2>3. CASE AnswerLands \/ RereadLands
    BY <2>3, AnswersDo, Zenon DEF Authoritative, AnswerLands, RereadLands, Abandoned
  <2>4. CASE FailureLands
    BY <2>4, Zenon DEF FailureLands, Abandoned
  <2>5. CASE Change \/ Delete \/ PatchApplies \/ Connect \/ Hello \/ HydrateAnyway \/ Drop \/ SnapshotReads
             \/ SnapshotFails \/ Edit \/ Due \/ Reread \/ RereadFails \/ UNCHANGED vars
    BY <2>5, Zenon DEF vars, Change, Delete, PatchApplies, Connect, Hello, HydrateAnyway, Drop, SnapshotReads,
       SnapshotFails, Edit, Due, Reread, RereadFails
  <2>. QED BY <2>1, <2>2, <2>3, <2>4, <2>5, Zenon DEF Next, PeekSteps
<1>2. CASE Restart \/ PatchFails
  <2>1. ghost' = ghost \/ ghost' = [ghost EXCEPT !.lost = @ \cup {lane.inFlight}]
    BY <1>2, Zenon DEF Restart, PatchFails
  <2>. QED BY <2>1 DEF TypeOK
<1>3. CASE PeekSteps
  BY <1>3, PeekStepsDo
<1>4. ASSUME NEW r, Read(r) \/ Heard(r) \/ Answered(r) PROVE ghost'.revived = ghost.revived
  <2>1. Read(r) => ghost'.revived = ghost.revived
    BY DEF Read, TypeOK
  <2>2. Heard(r) => ghost'.revived = ghost.revived
    BY DEF Heard, TypeOK
  <2>3. Answered(r) => ghost'.revived = ghost.revived
    BY DEF Answered, TypeOK
  <2>. QED BY <1>4, <2>1, <2>2, <2>3
<1>. QED BY <1>1, <1>2, <1>3, <1>4

\* The lane with nothing in it.
LEMMA EmptyLane ==
  /\ ~NoLane.running /\ ~NoLane.timer /\ ~NoLane.cancelled /\ NoLane.pending = 0 /\ NoLane.inFlight = 0
  /\ NoLane.fallback = None
  /\ NoReq.at = "none" /\ NoReq.got = None /\ Sent.at = "sent" /\ Sent.got = None
  BY DEF NoLane, NoReq, Sent

\* Every step keeps the lane and its request in agreement.
LEMMA LaneOKStep ==
  ASSUME IInv, [Next]_vars
  PROVE  LaneOK'
<1>0. /\ TypeOK /\ Numbered /\ Gone /\ LaneOK
      /\ lane.pending \in Nat /\ lane.inFlight \in Nat /\ limits.edits \in Nat
      /\ req.at \in {"none", "sent", "answered", "failed", "asked", "read"}
      /\ lane.running \in BOOLEAN /\ lane.timer \in BOOLEAN /\ lane.cancelled \in BOOLEAN
  BY Types DEF IInv, TypeOK
<1>1. CASE Change \/ Delete
  BY <1>0, <1>1, ChangesDo DEF LaneOK
<1>2. CASE PatchApplies
  BY <1>0, <1>2, AppliesDo DEF LaneOK
<1>3. CASE Restart
  <2>1. UNCHANGED <<srv, lane>> /\ limits'.edits = limits.edits /\ req'.got = req.got
        /\ req'.at = (IF req.at \in {"sent", "asked"} THEN "failed" ELSE req.at)
    BY <1>0, <1>3, RestartDoes
  <2>. QED BY <1>0, <2>1 DEF LaneOK
<1>4. CASE StreamSteps \/ UNCHANGED vars
  <2>1. UNCHANGED <<srv, lane, req>> /\ limits'.edits = limits.edits
    BY <1>0, <1>4, StreamStepsDo DEF vars
  <2>. QED BY <1>0, <2>1 DEF LaneOK
<1>5. CASE FoldSteps
  <2>1. UNCHANGED <<srv, req, limits>>
        /\ \/ UNCHANGED lane
           \/ /\ srv = None /\ lane # NoLane /\ lane'.cancelled /\ ~lane'.timer /\ lane'.running = lane.running
              /\ lane'.pending = lane.pending /\ lane'.inFlight = lane.inFlight
    BY <1>0, <1>5, FoldStepsDo
  <2>. QED BY <1>0, <2>1 DEF LaneOK
<1>6. CASE Edit
  <2>1. UNCHANGED <<srv, req>>
    BY <1>0, <1>6, EditDoes DEF server
  <2>. QED BY <1>0, <1>6, <2>1, EditDoes, EmptyLane DEF LaneOK
<1>7. CASE Due
  <2>1. UNCHANGED <<srv, limits>> /\ lane # NoLane
    BY <1>0, <1>7, DueDoes, EmptyLane DEF server
  <2>. QED BY <1>0, <1>7, <2>1, DueDoes, EmptyLane DEF LaneOK
<1>8. CASE FailureLands
  <2>1. UNCHANGED <<srv, limits>>
    BY <1>0, <1>8, FailureDoes DEF server
  <2>2. lane # NoLane
    BY <1>0, <1>8, FailureDoes, EmptyLane DEF LaneOK
  <2>. QED BY <1>0, <1>8, <2>1, <2>2, FailureDoes, EmptyLane DEF LaneOK
<1>9. CASE PatchFails \/ Reread \/ RereadFails
  <2>1. UNCHANGED <<srv, lane>> /\ limits'.edits = limits.edits
    BY <1>0, <1>9, RequestsDo DEF server
  <2>2. req.at = "asked" => lane # NoLane
    BY <1>0, EmptyLane DEF LaneOK
  <2>. QED BY <1>0, <1>9, <2>1, <2>2, RequestsDo DEF LaneOK
<1>10. CASE AnswerLands \/ RereadLands
  <2>1. UNCHANGED <<srv, limits>> /\ lane # NoLane
    BY <1>0, <1>10, AnswersDo, EmptyLane DEF server, LaneOK
  <2>2. CASE lane.cancelled
    BY <1>0, <1>10, <2>1, <2>2, AnswersDo, EmptyLane DEF LaneOK
  <2>3. CASE ~lane.cancelled
    <3>1. Finally(req.got)
      BY <1>10, <2>3, AnswersDo
    <3>. QED BY <1>0, <2>1, <2>3, <3>1, FinallyDoes, EmptyLane DEF LaneOK
  <2>. QED BY <2>2, <2>3
<1>11. CASE PeekSteps
  BY <1>0, <1>11, PeekStepsDo DEF LaneOK
<1>. QED BY <1>1, <1>2, <1>3, <1>4, <1>5, <1>6, <1>7, <1>8, <1>9, <1>10, <1>11, LaneKinds

\* Every step keeps track of the newest edit.
LEMMA EditsInOrderStep ==
  ASSUME IInv, [Next]_vars
  PROVE  EditsInOrder'
<1>0. /\ TypeOK /\ Numbered /\ Gone /\ LaneOK /\ EditsInOrder
      /\ lane.pending \in Nat /\ lane.inFlight \in Nat /\ limits.edits \in Nat
  BY Types DEF IInv
<1>1. CASE Change \/ Delete
  BY <1>0, <1>1, ChangesDo DEF EditsInOrder
<1>2. CASE PatchApplies
  BY <1>0, <1>2, AppliesDo DEF EditsInOrder
<1>3. CASE Restart
  <2>1. UNCHANGED <<srv, lane>> /\ limits'.edits = limits.edits
        /\ req'.at = (IF req.at \in {"sent", "asked"} THEN "failed" ELSE req.at)
        /\ ghost'.lost = IF req.at = "sent" THEN ghost.lost \cup {lane.inFlight} ELSE ghost.lost
    BY <1>0, <1>3, RestartDoes
  <2>. QED BY <1>0, <2>1 DEF EditsInOrder
<1>4. CASE StreamSteps \/ UNCHANGED vars
  <2>1. UNCHANGED <<srv, lane, req, ghost>> /\ limits'.edits = limits.edits
    BY <1>0, <1>4, StreamStepsDo DEF vars
  <2>. QED BY <1>0, <2>1 DEF EditsInOrder
<1>5. CASE FoldSteps
  <2>1. UNCHANGED <<srv, req, limits>> /\ ghost'.lost = ghost.lost /\ (srv = None \/ UNCHANGED lane)
    BY <1>0, <1>5, FoldStepsDo
  <2>. QED BY <1>0, <2>1 DEF EditsInOrder
<1>6. CASE Edit
  <2>1. UNCHANGED <<srv, req, ghost>>
    BY <1>0, <1>6, EditDoes DEF server
  <2>2. lane'.inFlight <= limits.edits
    BY <1>0, <1>6, EditDoes DEF LaneOK
  <2>. QED BY <1>0, <1>6, <2>1, <2>2, EditDoes DEF EditsInOrder
<1>7. CASE Due
  <2>1. UNCHANGED <<srv, limits, ghost>>
    BY <1>0, <1>7, DueDoes DEF server
  <2>. QED BY <1>0, <1>7, <2>1, DueDoes, EmptyLane DEF EditsInOrder, LaneOK
<1>8. CASE FailureLands
  <2>1. UNCHANGED <<srv, limits, ghost>>
    BY <1>0, <1>8, FailureDoes DEF server
  <2>. QED BY <1>0, <1>8, <2>1, FailureDoes, EmptyLane DEF EditsInOrder, LaneOK
<1>9. CASE PatchFails \/ Reread \/ RereadFails
  <2>1. UNCHANGED <<srv, lane>> /\ limits'.edits = limits.edits
    BY <1>0, <1>9, RequestsDo DEF server
  <2>. QED BY <1>0, <1>9, <2>1, RequestsDo DEF EditsInOrder
<1>10. CASE AnswerLands \/ RereadLands
  <2>1. req.at \in {"answered", "read"} /\ UNCHANGED <<srv, limits>> /\ (lane.cancelled => srv = None)
    BY <1>0, <1>10, AnswersDo DEF server, LaneOK
  <2>2. CASE lane.cancelled
    BY <2>1, <2>2 DEF EditsInOrder
  <2>3. CASE ~lane.cancelled
    <3>1. Finally(req.got) /\ ghost'.lost = ghost.lost
      <4>1. Finally(req.got) /\ (Authoritative(req.got) \/ UNCHANGED ghost)
        BY <1>10, <2>3, AnswersDo
      <4>. QED BY <1>0, <4>1 DEF Authoritative, Answered, TypeOK
    <3>. QED BY <1>0, <2>1, <2>3, <3>1, FinallyDoes, EmptyLane DEF EditsInOrder
  <2>. QED BY <2>2, <2>3
<1>11. CASE PeekSteps
  BY <1>0, <1>11, PeekStepsDo DEF EditsInOrder
<1>. QED BY <1>1, <1>2, <1>3, <1>4, <1>5, <1>6, <1>7, <1>8, <1>9, <1>10, <1>11, LaneKinds

\* No version is more than the changes and the edits sent so far account for.
LEMMA ApplicableFacts ==
  ASSUME TypeOK, LaneOK
  PROVE  /\ Applicable \in Int /\ Applicable <= limits.edits
         /\ limits.edits <= MaxEdits /\ limits.changes <= MaxChanges
         /\ {MaxEdits, MaxChanges, limits.edits, limits.changes} \subseteq Nat
<1>1. lane.pending \in Nat /\ lane.inFlight \in Nat /\ lane.pending <= limits.edits /\ lane.inFlight <= limits.edits
  BY Types DEF LaneOK
<1>2. /\ limits.edits \in Nat /\ limits.changes \in Nat /\ MaxEdits \in Nat /\ MaxChanges \in Nat
      /\ limits.edits <= MaxEdits /\ limits.changes <= MaxChanges
  BY ClientAssumption DEF TypeOK
<1>. QED BY <1>1, <1>2 DEF Applicable

\* Every step keeps the versions accounted for.
LEMMA BoundedStep ==
  ASSUME IInv, [Next]_vars
  PROVE  Bounded'
<1>0. /\ TypeOK /\ Numbered /\ Gone /\ LaneOK /\ EditsInOrder /\ Bounded /\ Len(log) \in Nat
      /\ lane.pending \in Nat /\ lane.inFlight \in Nat /\ limits.edits \in Nat /\ limits.changes \in Nat
      /\ MaxEdits \in Nat /\ MaxChanges \in Nat
      /\ srv # None => srv.v \in Nat
  BY Types, RecordFacts, ClientAssumption DEF IInv
<1>1. CASE Change \/ Delete \/ PatchApplies
  <2>1. srv # None /\ Broadcast(srv')
    BY <1>0, <1>1, ChangesDo, AppliesDo
  <2>2. Len(log') = Len(log) + 1
    <3>1. log' = Append(log, srv') /\ log \in Seq(Records \cup {None})
      BY <1>0, <2>1 DEF Broadcast, TypeOK
    <3>. QED BY <3>1, LenProperties DEF TypeOK
  <2>3. Len(log') <= MaxEdits + MaxChanges + 1
    BY <1>0, <2>1, <2>2, ApplicableFacts DEF Bounded
  <2>4. srv' # None => Len(log') <= srv'.v /\ srv'.v <= limits'.changes + Applicable' /\ srv'.g = limits'.changes
    <3>1. CASE Change \/ Delete
      <4>1. Applicable' = Applicable
        BY <1>0, <3>1, ChangesDo DEF Applicable
      <4>2. srv' # None => srv'.v = srv.v + 1 /\ srv'.g = srv.g + 1 /\ limits'.changes = limits.changes + 1
        BY <1>0, <3>1, ChangesDo
      <4>3. Applicable \in Int /\ Len(log) <= srv.v /\ srv.v <= limits.changes + Applicable /\ srv.g = limits.changes
        BY <1>0, <2>1, ApplicableFacts DEF Bounded
      <4>. QED BY <1>0, <2>1, <2>2, <4>1, <4>2, <4>3
    <3>2. CASE PatchApplies
      <4>1. /\ req.at = "sent" /\ req'.at = "answered" /\ srv'.v = srv.v + 1 /\ srv'.g = srv.g /\ UNCHANGED <<lane, limits>>
        BY <1>0, <3>2, AppliesDo
      <4>2. Applicable = lane.inFlight - 1 /\ lane.inFlight <= Applicable' /\ Applicable' \in Int
        BY <1>0, <2>1, <4>1 DEF Applicable, EditsInOrder
      <4>. QED BY <1>0, <2>1, <2>2, <4>1, <4>2 DEF Bounded
    <3>. QED BY <1>1, <3>1, <3>2
  <2>. QED BY <2>3, <2>4 DEF Bounded
<1>2. ASSUME UNCHANGED srv, Len(log') <= Len(log), Len(log') \in Nat, limits'.changes = limits.changes,
             srv # None => Applicable <= Applicable' /\ Applicable' \in Int
      PROVE  Bounded'
  BY <1>0, <1>2, ApplicableFacts DEF Bounded
<1>3. CASE Restart
  <2>1. UNCHANGED <<srv, lane>> /\ limits'.edits = limits.edits /\ limits'.changes = limits.changes /\ log' = <<>>
        /\ req'.at = (IF req.at \in {"sent", "asked"} THEN "failed" ELSE req.at)
    BY <1>0, <1>3, RestartDoes
  <2>2. srv # None => Applicable <= Applicable' /\ Applicable' \in Int
    BY <1>0, <2>1 DEF Applicable, EditsInOrder
  <2>3. Len(log') = 0
    BY <2>1, EmptySeq
  <2>. QED BY <1>0, <1>2, <2>1, <2>2, <2>3
<1>4. CASE StreamSteps \/ UNCHANGED vars
  <2>1. UNCHANGED <<srv, log, lane, req>> /\ limits'.edits = limits.edits /\ limits'.changes = limits.changes
    BY <1>0, <1>4, StreamStepsDo DEF vars
  <2>2. Applicable' = Applicable
    BY <2>1 DEF Applicable
  <2>. QED BY <1>0, <1>2, <2>1, <2>2, ApplicableFacts
<1>5. CASE FoldSteps
  <2>1. UNCHANGED <<srv, log, req, limits>> /\ (srv # None => UNCHANGED lane)
    BY <1>0, <1>5, FoldStepsDo
  <2>2. srv # None => Applicable' = Applicable
    BY <2>1 DEF Applicable
  <2>. QED BY <1>0, <1>2, <2>1, <2>2, ApplicableFacts
<1>6. CASE Edit
  <2>1. UNCHANGED <<srv, log, req>> /\ limits'.changes = limits.changes
    BY <1>0, <1>6, EditDoes DEF server
  <2>2. lane'.inFlight = lane.inFlight \/ req.at # "sent"
    BY <1>0, <1>6, EditDoes, EmptyLane DEF LaneOK
  <2>3. Applicable <= Applicable' /\ Applicable' \in Int
    BY <1>0, <1>6, <2>1, <2>2, EditDoes DEF Applicable, LaneOK
  <2>. QED BY <1>0, <1>2, <2>1, <2>3
<1>7. CASE Due
  <2>1. UNCHANGED <<srv, log, limits>>
    BY <1>0, <1>7, DueDoes DEF server
  <2>2. Applicable' = Applicable
    BY <1>0, <1>7, <2>1, DueDoes, EmptyLane DEF Applicable, LaneOK
  <2>. QED BY <1>0, <1>2, <2>1, <2>2, ApplicableFacts
<1>8. CASE FailureLands
  <2>1. UNCHANGED <<srv, log, limits>> /\ (lane.cancelled => srv = None)
    BY <1>0, <1>8, FailureDoes DEF server, LaneOK
  <2>2. srv # None => Applicable' = Applicable
    BY <1>0, <1>8, <2>1, FailureDoes, EmptyLane DEF Applicable
  <2>. QED BY <1>0, <1>2, <2>1, <2>2, ApplicableFacts
<1>9. CASE PatchFails \/ Reread \/ RereadFails
  <2>1. UNCHANGED <<srv, log, lane>> /\ limits'.edits = limits.edits /\ limits'.changes = limits.changes
    BY <1>0, <1>9, RequestsDo DEF server
  <2>2. srv # None => Applicable <= Applicable' /\ Applicable' \in Int
    BY <1>0, <1>9, <2>1, RequestsDo DEF Applicable, EditsInOrder
  <2>. QED BY <1>0, <1>2, <2>1, <2>2
<1>10. CASE AnswerLands \/ RereadLands
  <2>1. /\ req.at \in {"answered", "read"} /\ UNCHANGED <<srv, log, limits>> /\ (lane.cancelled => srv = None)
        /\ ~lane.cancelled => Finally(req.got)
    BY <1>0, <1>10, AnswersDo DEF server, LaneOK
  <2>2. srv # None => Applicable' = Applicable
    BY <1>0, <2>1, FinallyDoes, EmptyLane DEF Applicable
  <2>. QED BY <1>0, <1>2, <2>1, <2>2, ApplicableFacts
<1>11. CASE PeekSteps
  <2>1. UNCHANGED <<srv, log, lane, req>> /\ limits'.edits = limits.edits /\ limits'.changes = limits.changes
    BY <1>0, <1>11, PeekStepsDo
  <2>2. Applicable' = Applicable
    BY <2>1 DEF Applicable
  <2>. QED BY <1>0, <1>2, <2>1, <2>2, ApplicableFacts
<1>. QED BY <1>1, <1>3, <1>4, <1>5, <1>6, <1>7, <1>8, <1>9, <1>10, <1>11, LaneKinds
-----------------------------------------------------------------------------
(* Versions: what the window holds is the operator as it is, or older.      *)

\* What is folded, and what the history notes of it.
LEMMA NotesDo ==
  ASSUME TypeOK, NEW r \in Records \cup {None}
  PROVE  /\ Read(r) => /\ ghost'.newest = Newest(r) /\ ~ghost'.behind /\ ghost'.gone = ghost.gone
         /\ Heard(r) => /\ ghost'.newest = Newest(r) /\ ~ghost'.behind /\ (ghost'.gone <=> ghost.gone \/ r = None)
         /\ Authoritative(r) =>
              /\ ghost'.newest = Newest(r) /\ ghost'.gone = ghost.gone
              /\ r # None => /\ view'.v = r.v /\ (lane.pending = 0 => view' = r)
                             /\ ghost'.behind <=> ghost.behind \/ view = None \/ r.v < ghost.newest
              /\ r = None => view' = None
         /\ r = None => Newest(r) = ghost.newest
         /\ r # None => /\ r.v \in Nat /\ Newest(r) \in {ghost.newest, r.v}
                        /\ Newest(r) >= ghost.newest /\ Newest(r) >= r.v
<1>1. ghost.newest \in Nat /\ (r # None => r.v \in Nat)
  BY Types, RecordFacts
<1>2. Read(r) => /\ ghost'.newest = Newest(r) /\ ~ghost'.behind /\ ghost'.gone = ghost.gone
  BY DEF Read, TypeOK
<1>3. Heard(r) => /\ ghost'.newest = Newest(r) /\ ~ghost'.behind /\ (ghost'.gone <=> ghost.gone \/ r = None)
  BY DEF Heard, TypeOK
<1>4. Authoritative(r) =>
        /\ ghost'.newest = Newest(r) /\ ghost'.gone = ghost.gone
        /\ ghost'.behind <=> ghost.behind \/ view = None \/ r.v < ghost.newest
  BY DEF Authoritative, Answered, TypeOK
<1>5. Authoritative(r) => view' = Shown(r, lane.pending)
  BY Zenon DEF Authoritative
<1>6. Shown(r, lane.pending) = (IF r # None /\ lane.pending # 0 THEN [r EXCEPT !.f = lane.pending] ELSE r)
  BY DEF Shown
<1>7. r # None => [r EXCEPT !.f = lane.pending].v = r.v
  BY DEF Records
<1>8. Authoritative(r) => /\ r # None => view'.v = r.v /\ (lane.pending = 0 => view' = r)
                          /\ r = None => view' = None
  BY <1>5, <1>6, <1>7, Zenon
<1>9. /\ r = None => Newest(r) = ghost.newest
      /\ r # None => /\ Newest(r) \in {ghost.newest, r.v}
                     /\ Newest(r) >= ghost.newest /\ Newest(r) >= r.v
  BY <1>1 DEF Newest
<1>. QED BY <1>1, <1>2, <1>3, <1>4, <1>8, <1>9, Zenon

\* The next version is later than all there are.
LEMMA ExactStays ==
  ASSUME srv \in Records, NEW r \in Records \cup {None}, Exact(r),
         \/ UNCHANGED srv
         \/ srv'.v = srv.v + 1
  PROVE  Exact(r)'
<1>1. srv.v \in Nat /\ (r # None => r.v \in Nat)
  BY RecordFacts
<1>. QED BY <1>1 DEF Exact

\* Every step keeps what is held older than the server's, or the same.
LEMMA VersionedStep ==
  ASSUME IInv, [Next]_vars
  PROVE  Versioned'
<1>0. /\ TypeOK /\ Numbered /\ Gone /\ LaneOK /\ Loading /\ Versioned /\ Len(log) \in Nat /\ ghost.newest \in Nat
      /\ log \in Seq(Records \cup {None}) /\ \A i \in 1..Len(log) : log[i] \in Records \cup {None}
      /\ load.got \in Records \cup {None} /\ req.got \in Records \cup {None}
      /\ lane.fallback \in Records \cup {None} /\ view \in Records \cup {None}
      /\ held # <<>> => held = <<held[1]>> /\ held[1] \in Records \cup {None}
      /\ srv \in Records \cup {None} /\ (srv # None => srv.v \in Nat /\ Exact(srv) /\ Exact(None))
      /\ peek.got \in Records \cup {None}
  BY Types, RecordFacts DEF IInv, Exact
<1>p. peek'.got \in {peek.got, None, srv}
  BY <1>0, PeekStays
<1> SUFFICES ASSUME srv' # None PROVE Versioned'
  BY DEF Versioned
<1>1. CASE Change \/ Delete \/ PatchApplies
  <2>1. /\ srv # None /\ srv \in Records /\ Broadcast(srv') /\ srv'.v = srv.v + 1 /\ UNCHANGED <<lane, ghost>>
        /\ UNCHANGED req \/ req'.got = srv'
    BY <1>0, <1>1, ChangesDo, AppliesDo
  <2>p. UNCHANGED peek
    BY <1>1, Zenon DEF Change, Delete, PatchApplies, patches
  <2>2. UNCHANGED <<load, held, view>>
    BY <1>1, Zenon DEF Change, Delete, PatchApplies, store
  <2>3. Len(log') = Len(log) + 1 /\ log'[Len(log) + 1] = srv' /\ \A i \in 1..Len(log) : log'[i] = log[i]
    <3>1. log' = Append(log, srv')
      BY <2>1 DEF Broadcast
    <3>2. Len(log') = Len(log) + 1 /\ \A i \in 1..Len(log) : log'[i] = log[i]
      BY <1>0, <3>1
    <3>. QED BY <1>0, <3>1, <3>2
  <2>4. \A r \in Records \cup {None} : Exact(r) => Exact(r)'
    BY <2>1, ExactStays
  <2>5. (srv'.v <= srv'.v) => Exact(srv)'
    BY DEF Exact
  <2>6. Exact(srv)'
    BY <1>0, <2>1, <2>5
  <2>7. \A i \in 1..Len(log') : Exact(log[i])'
    BY <1>0, <2>1, <2>3, <2>4, <2>6 DEF Versioned
  <2>. QED BY <1>0, <2>1, <2>p, <2>2, <2>4, <2>6, <2>7 DEF Versioned
<1>2. CASE Restart
  <2>1. UNCHANGED <<srv, load, held, view, lane>> /\ log' = <<>> /\ req'.got = req.got /\ ghost'.newest = ghost.newest
    BY <1>0, <1>2, RestartDoes DEF store
  <2>2. \A r \in Records \cup {None} : Exact(r) => Exact(r)'
    BY <1>0, <2>1, ExactStays
  <2>3. peek'.got = peek.got \/ peek'.got = None
    <3>1. peek' = peek \/ peek' = NoReq
      BY <1>2, Zenon DEF Restart
    <3>. QED BY <3>1 DEF NoReq
  <2>. QED BY <1>0, <2>1, <2>2, <2>3, EmptySeq DEF Versioned
<1>3. ASSUME UNCHANGED <<srv, log>>, ghost'.newest <= srv.v,
             Exact(load'.got), Exact(req'.got), Exact(lane'.fallback),
             held' # <<>> => Exact(held'[1]), lane' = NoLane => Exact(view')
      PROVE  Versioned'
  <2>1. \A r : Exact(r)' <=> Exact(r)
    BY <1>3 DEF Exact
  <2>2. srv # None
    BY <1>3
  <2>3. Exact(peek'.got)
    BY <1>0, <1>p, <1>3, <2>2 DEF Versioned
  <2>. QED BY <1>0, <1>3, <2>1, <2>3 DEF Versioned, Exact
<1>4. CASE StreamSteps \/ UNCHANGED vars
  <2>1. UNCHANGED <<srv, log, view, lane, req, ghost>>
    BY <1>0, <1>4, StreamStepsDo DEF vars
  <2>2. load'.got \in {load.got, None, srv}
    <3>1. load' = load \/ Hydrate \/ SnapshotReads \/ SnapshotFails
      BY <1>4, Zenon DEF StreamSteps, Connect, Hello, HydrateAnyway, Drop, store, vars
    <3>. QED BY <1>0, <3>1, HydrateDoes, ReadsDoes, FailsDoes
  <2>3. held' = held \/ held' = <<>>
    BY <1>4, Zenon DEF StreamSteps, Connect, Hello, HydrateAnyway, Drop, SnapshotReads, SnapshotFails, store, vars
  <2>. QED BY <1>0, <1>3, <2>1, <2>2, <2>3 DEF Versioned
<1>5. CASE FoldSteps
  <2>0. UNCHANGED <<srv, log, req>> /\ srv # None
    BY <1>0, <1>5, FoldStepsDo
  <2>1. ASSUME NEW r \in Records \cup {None}, Fold(r), Heard(r), Exact(r), r = None => srv = None,
               held' = held \/ held' = <<>>, load'.got \in {load.got, None}
        PROVE  Versioned'
    <3>1. UNCHANGED lane /\ (lane = NoLane => view' = r)
      BY <1>0, <2>0, <2>1, FoldDoes
    <3>2. ghost'.newest <= srv.v
      BY <1>0, <2>0, <2>1, NotesDo DEF Versioned, Exact
    <3>. QED BY <1>0, <1>3, <2>0, <2>1, <3>1, <3>2 DEF Versioned
  <2>2. CASE Frame
    <3>1. conn.next \in 1..Len(log) /\ UNCHANGED load
      BY <1>0, <2>2, FrameDoes, Types DEF Numbered
    <3>2. Exact(log[conn.next]) /\ log[conn.next] \in Records \cup {None} /\ (log[conn.next] = None => srv = None)
      BY <1>0, <2>0, <3>1, DeletedFrame DEF Versioned
    <3>3. CASE hydrated
      <4>1. Fold(log[conn.next]) /\ Heard(log[conn.next]) /\ UNCHANGED held
        BY <1>0, <2>2, <3>3, FrameDoes
      <4>. QED BY <2>1, <3>1, <3>2, <4>1
    <3>4. CASE ~hydrated
      <4>1. held' = <<log[conn.next]>> /\ UNCHANGED <<view, lane, ghost>>
        BY <1>0, <2>2, <3>4, FrameDoes
      <4>2. held'[1] = log[conn.next]
        BY <4>1
      <4>. QED BY <1>0, <1>3, <2>0, <3>1, <3>2, <4>1, <4>2 DEF Versioned
    <3>. QED BY <3>3, <3>4
  <2>3. CASE SnapshotLands
    <3>1. CASE load.again
      <4>1. view' = load.got /\ UNCHANGED <<held, lane, ghost>> /\ load'.got = None
        BY <1>0, <2>3, <3>1, LandsDoes
      <4>. QED BY <1>0, <1>3, <2>0, <4>1 DEF Versioned
    <3>2. CASE ~load.again /\ held = <<>>
      <4>1. view' = load.got /\ Read(load.got) /\ UNCHANGED lane /\ held' = <<>> /\ load'.got = None
        BY <1>0, <2>3, <3>2, LandsDoes
      <4>2. ghost'.newest <= srv.v
        BY <1>0, <2>0, <4>1, NotesDo DEF Versioned, Exact
      <4>. QED BY <1>0, <1>3, <2>0, <4>1, <4>2 DEF Versioned
    <3>3. CASE ~load.again /\ held # <<>>
      <4>1. Fold(held[1]) /\ Heard(held[1]) /\ held' = <<>> /\ load'.got = None
        BY <1>0, <2>3, <3>3, LandsDoes
      <4>2. Exact(held[1]) /\ held[1] \in Records \cup {None} /\ (held[1] = None => srv = None)
        BY <1>0, <2>0, <3>3 DEF Versioned, Gone, Deaf
      <4>. QED BY <2>1, <4>1, <4>2
    <3>. QED BY <3>1, <3>2, <3>3
  <2>. QED BY <1>5, <2>2, <2>3 DEF FoldSteps
<1>6. CASE Edit
  <2>1. UNCHANGED <<srv, log, load, held, req, ghost>> /\ lane' # NoLane /\ srv # None /\ ~lane.cancelled
    BY <1>0, <1>6, EditDoes, EmptyLane DEF server, LaneOK
  <2>2. Exact(lane'.fallback)
    BY <1>0, <1>6, <2>1, EditDoes DEF Versioned
  <2>. QED BY <1>0, <1>3, <2>1, <2>2 DEF Versioned
<1>7. CASE Due
  <2>1. UNCHANGED <<srv, log, load, held, view, ghost>> /\ srv # None /\ lane'.fallback = lane.fallback
        /\ lane # NoLane /\ (req' = req \/ req'.got = None)
    BY <1>0, <1>7, DueDoes, EmptyLane DEF server, store
  <2>2. lane' # NoLane
    BY <1>0, <1>7, DueDoes, EmptyLane DEF LaneOK
  <2>. QED BY <1>0, <1>3, <2>1, <2>2 DEF Versioned
<1>8. CASE FailureLands
  <2>1. UNCHANGED <<srv, log, load, held, view, ghost>> /\ srv # None /\ ~lane.cancelled
    BY <1>0, <1>8, FailureDoes DEF server, store, LaneOK
  <2>2. lane'.running /\ req'.got = None /\ lane'.fallback = lane.fallback
    BY <1>0, <1>8, <2>1, FailureDoes DEF LaneOK
  <2>3. lane' # NoLane
    BY <2>2, EmptyLane
  <2>. QED BY <1>0, <1>3, <2>1, <2>2, <2>3 DEF Versioned
<1>9. CASE PatchFails \/ Reread \/ RereadFails
  <2>1. UNCHANGED <<srv, log, load, held, view, lane>> /\ ghost'.newest = ghost.newest /\ srv # None
        /\ req'.got \in {None, srv, lane.fallback}
    BY <1>0, <1>9, RequestsDo DEF server, store
  <2>. QED BY <1>0, <1>3, <2>1 DEF Versioned
<1>10. CASE AnswerLands \/ RereadLands
  <2>1. /\ UNCHANGED <<srv, log, load, held>> /\ srv # None /\ ~lane.cancelled
        /\ Finally(req.got) /\ req.got # None /\ Authoritative(req.got)
    BY <1>0, <1>10, AnswersDo DEF server, LaneOK
  <2>2. lane' = NoLane => view' = req.got
    BY <1>0, <2>1, FinallyDoes, NotesDo, EmptyLane
  <2>3. req'.got = None /\ lane'.fallback \in {req.got, None}
    BY <1>0, <2>1, FinallyDoes, EmptyLane
  <2>4. ghost'.newest <= srv.v
    BY <1>0, <2>1, NotesDo DEF Versioned, Exact
  <2>. QED BY <1>0, <1>3, <2>1, <2>2, <2>3, <2>4 DEF Versioned
<1>11. CASE PeekSteps
  <2>1. /\ UNCHANGED <<srv, log, load, held, lane, req>> /\ srv # None
        /\ \/ UNCHANGED <<view, ghost>> /\ peek'.got \in {None, srv}
           \/ peek.got # None /\ peek'.got = None /\ view' = peek.got /\ ghost'.newest = Newest(peek.got)
    BY <1>0, <1>11, PeekStepsDo
  <2>2. ghost'.newest <= srv.v
    BY <1>0, <2>1, NotesDo DEF Versioned, Exact
  <2>3. lane' = NoLane => Exact(view')
    BY <1>0, <2>1 DEF Versioned
  <2>. QED BY <1>0, <1>3, <2>1, <2>2, <2>3 DEF Versioned
<1>. QED BY <1>1, <1>2, <1>4, <1>5, <1>6, <1>7, <1>8, <1>9, <1>10, <1>11, LaneKinds

\* Whatever is folded last at the end of the log is the operator as it is.
LEMMA FreshFold ==
  ASSUME TypeOK, Versioned, UNCHANGED srv, srv # None => Fold(srv) /\ Heard(srv),
         srv = None => view' = None
  PROVE  Fresh'
<1>1. CASE srv # None
  <2>1. srv.v \in Nat /\ ghost.newest \in Nat /\ srv \in Records /\ ghost.newest <= srv.v
    BY <1>1, Types, RecordFacts DEF Versioned
  <2>2. ghost'.newest = srv.v
    BY <1>1, <2>1, NotesDo
  <2>3. UNCHANGED lane /\ (lane = NoLane => view' = srv)
    BY <1>1, FoldDoes
  <2>. QED BY <1>1, <2>2, <2>3 DEF Fresh
<1>2. CASE srv = None
  BY <1>2 DEF Fresh
<1>. QED BY <1>1, <1>2

\* Every step that leaves the window at the log's end leaves it fresh.
LEMMA CurrentStep ==
  ASSUME IInv, TypeOK', [Next]_vars
  PROVE  Current'
<1>0. /\ TypeOK /\ Numbered /\ Tracked /\ Loading /\ LaneOK /\ Versioned /\ Current /\ Gone
      /\ epoch \in Nat /\ Len(log) \in Nat /\ conn.next \in Nat /\ conn.hello \in Nat /\ ghost.newest \in Nat
      /\ load.got \in Records \cup {None} /\ req.got \in Records \cup {None} /\ peek.got \in Records \cup {None}
      /\ lane.fallback \in Records \cup {None} /\ view \in Records \cup {None} /\ srv \in Records \cup {None}
      /\ \A r \in Records : r.v \in Nat
      /\ \A n \in Nat : Here(n) # None /\ Here(n).epoch = epoch /\ Here(n).seq = n
  BY Types, RecordFacts, HereFacts DEF IInv
<1> SUFFICES ASSUME Synced' PROVE Fresh'
  BY DEF Current
<1>1. CASE Change \/ Delete \/ PatchApplies
  <2>1. srv' \in Records \cup {None} /\ Broadcast(srv') /\ UNCHANGED cursor
    BY <1>1, Sends DEF stream
  <2>2. Len(log') = Len(log) + 1 /\ (CanResume(cursor)' => CanResume(cursor))
    BY <1>0, <2>1, ResumeGrows
  <2>3. cursor # None => cursor.seq \in Nat
    BY <1>0, Types
  <2>. QED BY <1>0, <2>1, <2>2, <2>3 DEF Synced, CanResume
<1>2. CASE Restart
  BY <1>0, <1>2, RestartDoes, OldCursor DEF Synced
<1>3. ASSUME UNCHANGED <<log, epoch, cursor>>, hydrated' => hydrated PROVE Synced /\ Fresh
  BY <1>0, <1>3, ResumeStays DEF Synced, Current
<1>4. CASE StreamSteps \/ UNCHANGED vars
  <2>1. UNCHANGED <<srv, log, epoch, cursor, view, lane, req, ghost>>
    BY <1>0, <1>4, StreamStepsDo DEF vars
  <2>2. hydrated' => hydrated
    <3>1. UNCHANGED hydrated \/ Hydrate
      BY <1>4, Zenon DEF StreamSteps, Connect, Hello, HydrateAnyway, Drop, SnapshotReads, SnapshotFails, store, vars
    <3>. QED BY <1>0, <3>1, HydrateDoes
  <2>. QED BY <2>1, <2>2, <1>3 DEF Fresh
<1>5. CASE Frame
  <2>1. /\ conn.at = "open" /\ conn.next \in 1..Len(log) /\ UNCHANGED <<srv, log, epoch, hydrated>>
        /\ ~await.on => cursor' = Here(conn.next)
        /\ hydrated => Fold(log[conn.next]) /\ Heard(log[conn.next])
    BY <1>0, <1>5, FrameDoes DEF server, Numbered
  <2>2. hydrated /\ ~await.on
    BY <1>0, <2>1 DEF Synced, Tracked, Loading
  <2>3. conn.next = Len(log) /\ log # <<>>
    BY <1>0, <2>1, <2>2, EmptySeq DEF Synced
  <2>4. log[conn.next] = srv
    BY <1>0, <2>3 DEF Numbered
  <2>. QED BY <1>0, <2>1, <2>2, <2>4, FreshFold, FoldDoes
<1>6. CASE SnapshotLands
  <2>1. load.at = "read" /\ ~hydrated /\ ~CanResume(cursor) /\ UNCHANGED <<srv, log, epoch, conn, req>>
    BY <1>0, <1>6, LandsDoes DEF server, Loading
  <2>2. ~load.again
    BY <1>0, <1>6, <2>1, LandsDoes DEF Synced
  <2>3. /\ held = <<>> => view' = load.got /\ Read(load.got) /\ UNCHANGED lane
        /\ held # <<>> => Fold(held[1]) /\ Heard(held[1])
        /\ cursor' = IF ~await.on THEN cursor
                     ELSE IF await.newest # None THEN await.newest ELSE await.boundary
    BY <1>0, <1>6, <2>2, LandsDoes
  <2>4. await.on
    BY <2>1, <2>3, ResumeStays DEF Synced
  <2>5. CASE held = <<>>
    <3>1. cursor' = Here(conn.hello)
      BY <1>0, <2>3, <2>4, <2>5 DEF Tracked
    <3>2. conn.hello = Len(log)
      BY <1>0, <2>1, <3>1 DEF Synced
    <3>3. load.got = srv
      BY <1>0, <2>1, <2>2, <2>4, <3>2 DEF Loading
    <3>4. srv # None => srv.v \in Nat /\ ghost'.newest = srv.v
      BY <1>0, <2>3, <2>5, <3>3, NotesDo DEF Versioned
    <3>. QED BY <2>1, <2>3, <2>5, <3>3, <3>4 DEF Fresh
  <2>6. CASE held # <<>>
    <3>1. cursor' = Here(conn.next - 1) /\ conn.next > 1 /\ held = <<log[conn.next - 1]>>
      BY <1>0, <2>3, <2>4, <2>6 DEF Tracked
    <3>2. conn.next - 1 = Len(log) /\ log # <<>>
      BY <1>0, <2>1, <3>1, EmptySeq DEF Synced
    <3>3. held[1] = srv
      BY <1>0, <3>1, <3>2 DEF Numbered
    <3>. QED BY <1>0, <2>1, <2>3, <2>6, <3>3, FreshFold, FoldDoes
  <2>. QED BY <2>5, <2>6
<1>7. CASE Edit
  <2>1. UNCHANGED <<srv, log, epoch, cursor, hydrated, req, ghost>> /\ view # None
    BY <1>0, <1>7, EditDoes DEF server, stream
  <2>2. Fresh
    BY <2>1, <1>3
  <2>3. lane' # NoLane
    BY <1>0, <1>7, EditDoes, EmptyLane
  <2>. QED BY <1>0, <2>1, <2>2, <2>3 DEF Fresh
<1>8. CASE Due
  <2>1. UNCHANGED <<srv, log, epoch, cursor, hydrated, view, ghost>> /\ lane # NoLane
        /\ lane'.fallback = lane.fallback /\ lane'.cancelled = lane.cancelled /\ (req' = req \/ req'.got = None)
    BY <1>0, <1>8, DueDoes, EmptyLane DEF server, stream, store
  <2>2. Fresh
    BY <2>1, <1>3
  <2>3. lane' # NoLane
    BY <1>0, <1>8, DueDoes, EmptyLane DEF LaneOK
  <2>. QED BY <2>1, <2>2, <2>3 DEF Fresh
<1>9. CASE FailureLands
  <2>1. UNCHANGED <<srv, log, epoch, cursor, hydrated, view, ghost>> /\ req'.got = None
    BY <1>0, <1>9, FailureDoes, EmptyLane DEF server, stream, store
  <2>2. Fresh
    BY <2>1, <1>3
  <2>3. CASE lane.cancelled
    BY <1>0, <1>9, <2>1, <2>2, <2>3, FailureDoes DEF Fresh, LaneOK
  <2>4. CASE ~lane.cancelled
    <3>1. lane'.running /\ lane.running /\ lane'.fallback = lane.fallback
      BY <1>0, <1>9, <2>4, FailureDoes DEF LaneOK
    <3>2. lane # NoLane /\ lane' # NoLane
      BY <3>1, EmptyLane
    <3>. QED BY <2>1, <2>2, <2>4, <3>1, <3>2 DEF Fresh
  <2>. QED BY <2>3, <2>4
<1>10. CASE PatchFails \/ Reread \/ RereadFails
  <2>1. /\ UNCHANGED <<srv, log, epoch, cursor, hydrated, view, lane>>
        /\ ghost'.newest = ghost.newest /\ ghost'.behind = ghost.behind
        /\ req'.got = None \/ (req'.got \in {srv, lane.fallback} /\ req.at = "asked")
    BY <1>0, <1>10, RequestsDo DEF server, stream, store
  <2>2. Fresh
    BY <2>1, <1>3
  <2>3. req.at = "asked" => lane # NoLane
    BY <1>0, EmptyLane DEF LaneOK
  <2>. QED BY <2>1, <2>2, <2>3 DEF Fresh
<1>11. CASE AnswerLands \/ RereadLands
  <2>1. /\ UNCHANGED <<srv, log, epoch, cursor, hydrated>> /\ req.at \in {"answered", "read"}
        /\ lane.cancelled => lane' = NoLane /\ req' = NoReq /\ UNCHANGED <<view, ghost>>
        /\ ~lane.cancelled => Finally(req.got)
        /\ ~lane.cancelled => Authoritative(req.got) \/ (req.got = None /\ UNCHANGED <<view, ghost>>)
    BY <1>0, <1>11, AnswersDo DEF server, stream
  <2>2. Fresh /\ lane # NoLane
    BY <1>0, <2>1, <1>3, EmptyLane DEF LaneOK
  <2>3. CASE lane.cancelled
    BY <1>0, <2>1, <2>2, <2>3, EmptyLane DEF Fresh, LaneOK
  <2>4. CASE ~lane.cancelled /\ req.got = None
    <3>1. srv = None /\ req'.got = None
      BY <1>0, <2>1, <2>4, FinallyDoes, EmptyLane DEF LaneOK
    <3>2. lane' = NoLane \/ lane'.fallback = lane.fallback
      BY <1>0, <2>1, <2>4, FinallyDoes
    <3>3. view' = None \/ UNCHANGED <<view, ghost>>
      BY <1>0, <2>1, <2>4, NotesDo
    <3>. QED BY <2>1, <2>2, <2>4, <3>1, <3>2, <3>3 DEF Fresh
  <2>5. CASE ~lane.cancelled /\ req.got # None
    <3>1. Authoritative(req.got) /\ req.got \in Records /\ req.got.v \in Nat
      BY <1>0, <2>1, <2>5
    <3>2. req'.got = None /\ (lane' = NoLane \/ lane'.fallback = req.got)
          /\ (lane' = NoLane => lane.pending = 0)
      BY <1>0, <2>1, <2>5, FinallyDoes, EmptyLane
    <3>3. /\ view'.v = req.got.v /\ (lane.pending = 0 => view' = req.got)
          /\ ghost'.behind <=> ghost.behind \/ view = None \/ req.got.v < ghost.newest
          /\ ghost'.newest \in {ghost.newest, req.got.v}
          /\ ghost'.newest >= ghost.newest /\ ghost'.newest >= req.got.v
      BY <1>0, <2>5, <3>1, NotesDo
    <3>4. CASE srv # None
      <4>1. srv.v \in Nat /\ ghost.newest = srv.v /\ req.got.v <= srv.v /\ (req.got.v = srv.v => req.got = srv)
        BY <1>0, <2>2, <2>5, <3>4 DEF Fresh, Versioned, Exact
      <4>2. ghost'.newest = srv.v
        BY <3>1, <3>3, <4>1
      <4>3. ~ghost'.behind /\ lane' = NoLane => view' = srv
        BY <3>1, <3>2, <3>3, <4>1
      <4>. QED BY <2>1, <3>4, <4>2, <4>3 DEF Fresh
    <3>5. CASE srv = None
      <4>1. view # None => ghost.behind
        BY <2>2, <2>5, <3>5 DEF Fresh
      <4>2. ghost'.behind
        BY <1>0, <3>1, <3>3, <4>1
      <4>. QED BY <2>1, <3>2, <3>3, <3>5, <4>2 DEF Fresh
    <3>. QED BY <3>4, <3>5
  <2>. QED BY <2>3, <2>4, <2>5
<1>12. CASE PeekSteps
  <2>1. /\ UNCHANGED <<srv, log, epoch, cursor, hydrated, lane>>
        /\ \/ UNCHANGED <<view, ghost>>
           \/ /\ peek.got # None /\ view' = peek.got /\ ghost'.newest = Newest(peek.got)
              /\ ghost'.behind <=> ghost.behind \/ view = None \/ peek.got.v < ghost.newest
    BY <1>0, <1>12, PeekStepsDo
  <2>2. Fresh
    BY <2>1, <1>3
  <2>3. CASE UNCHANGED <<view, ghost>>
    BY <2>1, <2>2, <2>3 DEF Fresh
  <2>4. CASE ~UNCHANGED <<view, ghost>>
    <3>1. /\ peek.got # None /\ peek.got.v \in Nat /\ view' = peek.got
          /\ ghost'.newest \in {ghost.newest, peek.got.v}
          /\ ghost'.newest >= ghost.newest /\ ghost'.newest >= peek.got.v
          /\ ghost'.behind <=> ghost.behind \/ view = None \/ peek.got.v < ghost.newest
      BY <1>0, <2>1, <2>4, NotesDo
    <3>2. CASE srv # None
      <4>1. srv.v \in Nat /\ ghost.newest = srv.v /\ peek.got.v <= srv.v /\ (peek.got.v = srv.v => peek.got = srv)
        BY <1>0, <2>2, <3>1, <3>2 DEF Fresh, Versioned, Exact
      <4>2. ghost'.newest = srv.v /\ (~ghost'.behind => view' = srv)
        BY <3>1, <4>1
      <4>. QED BY <2>1, <3>2, <4>2 DEF Fresh
    <3>3. CASE srv = None
      BY <2>1, <2>2, <3>1, <3>3 DEF Fresh
    <3>. QED BY <3>2, <3>3
  <2>. QED BY <2>3, <2>4
<1>. QED BY <1>1, <1>2, <1>4, <1>5, <1>6, <1>7, <1>8, <1>9, <1>10, <1>11, <1>12, LaneKinds DEF FoldSteps
-----------------------------------------------------------------------------
(* Deletion.                                                                *)

\* Every step after the deletion was folded shows nothing, but the re-read of a failed branch switch.
LEMMA GoneStep ==
  ASSUME IInv, TypeOK', [Next]_vars
  PROVE  Gone'
<1>0. /\ TypeOK /\ Numbered /\ Tracked /\ Loading /\ LaneOK /\ Gone
      /\ epoch \in Nat /\ Len(log) \in Nat /\ conn.next \in Nat /\ conn.hello \in Nat
      /\ load.got \in Records \cup {None}
      /\ held # <<>> => held = <<held[1]>>
      /\ \A n \in Nat : Here(n) # None /\ Here(n).epoch = epoch /\ Here(n).seq = n
      /\ load.at = "none" => load.got = None
      /\ held \in {<<>>, <<None>>} => held = <<>> \/ held[1] = None
      /\ ghost.revived => ghost'.revived
  BY Types, HereFacts, RevivedStays DEF IInv, Loading
<1>1. CASE Change \/ Delete \/ PatchApplies
  <2>1. srv # None /\ UNCHANGED <<held, ghost>>
    BY <1>0, <1>1, ChangesDo, AppliesDo, Sends DEF store
  <2>. QED BY <1>0, <2>1 DEF Gone, Deaf
\* Steps that fold nothing.
<1>2. ASSUME UNCHANGED <<srv, log, epoch, cursor, view>>, ghost'.gone = ghost.gone, held' \in {held, <<>>},
             conn'.at # "none" => Past(conn'.next - 1) \/ (conn.at # "none" /\ conn'.next = conn.next),
             load'.got \in {load.got, srv, None},
             ghost.gone /\ (lane = NoLane \/ lane.cancelled) => lane' = NoLane \/ lane'.cancelled
      PROVE  Gone'
  <2>1. (CanResume(cursor)' <=> CanResume(cursor)) /\ \A k : Past(k)' <=> Past(k)
    BY <1>2, ResumeStays DEF Past
  <2>2. Deaf' => Deaf
    BY <1>2 DEF Deaf
  <2>. QED BY <1>0, <1>2, <2>1, <2>2 DEF Gone, Deaf
<1>3. CASE Restart
  <2>1. /\ UNCHANGED <<srv, cursor, load, held, view, lane>> /\ log' = <<>> /\ conn'.at = "none" /\ ghost'.gone = ghost.gone
    BY <1>0, <1>3, RestartDoes DEF store, NoStream
  <2>2. Past(cursor.seq)'
    BY <2>1, EmptySeq DEF Past
  <2>. QED BY <1>0, <2>1, <2>2 DEF Gone, Deaf
<1>4. CASE Connect
  <2>1. /\ UNCHANGED <<srv, log, epoch, cursor, load, held, view, lane, ghost>>
        /\ CanResume(cursor) => conn'.next = cursor.seq + 1
        /\ ~CanResume(cursor) => conn'.next = Len(log) + 1
    BY <1>0, <1>4, ConnectDoes DEF server, store, patches
  <2>2. CanResume(cursor) => cursor.seq \in Nat
    BY <1>0, Types DEF CanResume
  <2>3. Past(Len(log))
    BY <1>0 DEF Past
  <2>4. Deaf => Past(conn'.next - 1)
    BY <1>0, <2>1, <2>2, <2>3 DEF Gone
  <2>5. (CanResume(cursor)' <=> CanResume(cursor)) /\ \A k : Past(k)' <=> Past(k)
    BY <2>1, ResumeStays DEF Past
  <2>. QED BY <1>0, <2>1, <2>4, <2>5 DEF Gone, Deaf
<1>5. CASE Hello
  <2>1. /\ UNCHANGED <<srv, log, epoch, cursor, view, lane, ghost>>
        /\ conn.at = "hello" /\ conn'.next = conn.next
        /\ held' \in {held, <<>>} /\ load'.got = load.got
    BY <1>0, <1>5, HelloDoes, HydrateDoes DEF server, patches
  <2>. QED BY <1>2, <2>1
<1>6. CASE HydrateAnyway
  <2>1. UNCHANGED <<srv, log, epoch, cursor, conn, held, view, lane, ghost>> /\ load'.got = load.got
    BY <1>0, <1>6, AnywayDoes, HydrateDoes DEF server, stream, patches
  <2>. QED BY <1>2, <2>1
<1>7. CASE Drop
  <2>1. UNCHANGED <<srv, log, epoch, cursor, load, held, view, lane, ghost>> /\ conn'.at = "none"
    BY <1>0, <1>7, DropDoes DEF server, store, patches, NoStream
  <2>. QED BY <1>2, <2>1
<1>8. CASE SnapshotReads \/ UNCHANGED vars
  <2>1. UNCHANGED <<srv, log, epoch, cursor, conn, held, view, lane, ghost>> /\ load'.got \in {load.got, srv}
    BY <1>0, <1>8, ReadsDoes DEF server, stream, patches, vars
  <2>. QED BY <1>2, <2>1
<1>9. CASE SnapshotFails
  <2>1. UNCHANGED <<srv, log, epoch, cursor, held, view, lane, ghost>> /\ load'.got = None
        /\ (conn' = conn \/ conn'.at = "none")
    BY <1>0, <1>9, FailsDoes DEF server, patches, NoStream
  <2>. QED BY <1>2, <2>1
\* The deletion, or a frame after it, folded.
<1>10. ASSUME Fold(None), UNCHANGED <<srv, log, epoch>>, srv = None, held' = <<>>, load'.got = None,
              conn'.at # "none" => Past(conn'.next - 1),
              CanResume(cursor)' => Past(cursor'.seq)
       PROVE  Gone'
  <2>1. view' = None /\ (lane' = NoLane \/ lane'.cancelled)
    BY <1>0, <1>10, FoldDoes
  <2>2. \A k : Past(k)' <=> Past(k)
    BY <1>10 DEF Past
  <2>. QED BY <1>10, <2>1, <2>2 DEF Gone
<1>11. CASE Frame
  <2>1. /\ conn.at = "open" /\ conn.next \in 1..Len(log) /\ UNCHANGED <<srv, log, epoch, load, hydrated>>
        /\ conn'.next = conn.next + 1
        /\ ~await.on => cursor' = Here(conn.next)
        /\ await.on => UNCHANGED cursor
        /\ hydrated => Fold(log[conn.next]) /\ Heard(log[conn.next]) /\ UNCHANGED held
        /\ ~hydrated => held' = <<log[conn.next]>> /\ UNCHANGED <<view, lane, ghost>>
    BY <1>0, <1>11, FrameDoes DEF server, Numbered
  <2>2. log[conn.next] \in Records \cup {None}
    BY <1>0, <2>1, Types
  <2>3. Deaf => log[conn.next] = None
    BY <1>0, <2>1 DEF Gone, Past
  <2>4. log[conn.next] = None => srv = None /\ conn.next = Len(log)
    BY <1>0, <2>1, DeletedFrame
  <2>5. log[conn.next] = None => Past(conn.next) /\ Past(conn'.next - 1)
    BY <1>0, <2>1, <2>4 DEF Past
  <2>6. (CanResume(cursor)' /\ ~await.on => cursor'.seq = conn.next) /\ (hydrated <=> ~await.on)
    BY <1>0, <2>1 DEF Tracked, Loading
  <2>7. CASE hydrated
    <3>1. held = <<>> /\ load.got = None
      BY <1>0, <2>7 DEF Loading
    <3>2. ghost'.gone <=> ghost.gone \/ log[conn.next] = None
      BY <1>0, <2>1, <2>2, <2>7, NotesDo
    <3>3. CASE log[conn.next] = None
      BY <1>10, <2>1, <2>4, <2>5, <2>6, <2>7, <3>1, <3>3
    <3>4. CASE log[conn.next] # None
      <4>1. ~Deaf'
        BY <2>1, <2>3, <2>7, <3>1, <3>2, <3>4 DEF Deaf
      <4>. QED BY <4>1 DEF Gone, Deaf
    <3>. QED BY <3>3, <3>4
  <2>8. CASE ~hydrated
    <3>1. UNCHANGED <<cursor, view, lane, ghost>> /\ held' = <<log[conn.next]>> /\ held'[1] = log[conn.next]
      BY <2>1, <2>6, <2>8
    <3>2. Deaf' => log[conn.next] = None
      BY <2>3, <3>1 DEF Deaf
    <3>3. ~CanResume(cursor)'
      BY <1>0, <2>1, <2>8, <3>1, ResumeStays DEF Loading
    <3>4. \A k : Past(k)' <=> Past(k)
      BY <2>1 DEF Past
    <3>5. Deaf' => srv' = None /\ Past(conn'.next - 1)
      BY <2>1, <2>4, <2>5, <3>2
    <3>6. ghost'.gone => /\ ghost'.revived \/ (view' = None /\ (lane' = NoLane \/ lane'.cancelled))
                         /\ held' \in {<<>>, <<None>>} /\ load'.got = None
      BY <1>0, <2>1, <2>3, <3>1 DEF Gone, Deaf
    <3>. QED BY <3>3, <3>4, <3>5, <3>6 DEF Gone
  <2>. QED BY <2>7, <2>8
<1>12. CASE SnapshotLands
  <2>1. load.at = "read" /\ ~hydrated /\ UNCHANGED <<srv, log, epoch, conn>>
    BY <1>0, <1>12, LandsDoes DEF server, Loading
  <2>2. \A k : Past(k)' <=> Past(k)
    BY <2>1 DEF Past
  <2>3. CASE load.again
    <3>1. view' = load.got /\ UNCHANGED <<held, lane, cursor, ghost>> /\ load'.got = None
      BY <1>0, <1>12, <2>3, LandsDoes
    <3>. QED BY <1>0, <2>1, <2>2, <3>1, ResumeStays DEF Gone, Deaf
  <2>4. CASE ~load.again
    <3>1. /\ held' = <<>> /\ load'.got = None
          /\ held = <<>> => view' = load.got /\ Read(load.got) /\ UNCHANGED lane
          /\ held # <<>> => Fold(held[1]) /\ Heard(held[1])
          /\ cursor' = IF ~await.on THEN cursor
                       ELSE IF await.newest # None THEN await.newest ELSE await.boundary
      BY <1>0, <1>12, <2>4, LandsDoes
    <3>2. await.on => conn.at = "open" /\ cursor' = Here(conn.next - 1) /\ conn.next - 1 \in Nat
      BY <1>0, <3>1 DEF Tracked, Numbered
    <3>3. Deaf => /\ srv' = None /\ (conn'.at # "none" => Past(conn'.next - 1))
                  /\ CanResume(cursor)' => Past(cursor'.seq)
      <4>1. CASE await.on
        BY <1>0, <2>1, <3>2, <4>1 DEF Gone
      <4>2. CASE ~await.on
        BY <1>0, <2>1, <3>1, <4>2, ResumeStays DEF Gone
      <4>. QED BY <4>1, <4>2
    <3>4. CASE held = <<>>
      <4>1. ghost'.gone = ghost.gone
        BY <1>0, <3>1, <3>4, NotesDo
      <4>. QED BY <1>0, <2>2, <3>1, <3>3, <3>4, <4>1 DEF Gone, Deaf
    <3>5. CASE held # <<>> /\ held[1] = None
      <4>1. Deaf
        BY <1>0, <3>5 DEF Deaf
      <4>. QED BY <1>10, <2>1, <3>1, <3>3, <3>5, <4>1
    <3>6. CASE held # <<>> /\ held[1] # None
      <4>1. held[1] \in Records \cup {None}
        BY <1>0, <3>6, Types
      <4>2. ~ghost.gone
        BY <1>0, <3>6 DEF Gone
      <4>3. ~ghost'.gone
        BY <1>0, <3>1, <3>6, <4>1, <4>2, NotesDo
      <4>. QED BY <3>1, <4>3 DEF Gone, Deaf
    <3>. QED BY <3>4, <3>5, <3>6
  <2>. QED BY <2>3, <2>4
<1>13. CASE Edit
  <2>1. UNCHANGED <<srv, log, epoch, conn, cursor, load, held, ghost>> /\ view # None
    BY <1>0, <1>13, EditDoes DEF server, stream
  <2>2. ghost.gone => ghost.revived
    BY <1>0, <2>1 DEF Gone
  <2>3. (CanResume(cursor)' <=> CanResume(cursor)) /\ \A k : Past(k)' <=> Past(k)
    BY <2>1, ResumeStays DEF Past
  <2>. QED BY <1>0, <2>1, <2>2, <2>3 DEF Gone, Deaf
<1>14. CASE Due
  <2>1. UNCHANGED <<srv, log, epoch, conn, cursor, held, load, view, ghost>> /\ lane'.cancelled = lane.cancelled /\ lane.timer
    BY <1>0, <1>14, DueDoes DEF server, stream, store
  <2>2. ~(lane = NoLane)
    BY <2>1, EmptyLane
  <2>. QED BY <1>2, <2>1, <2>2
<1>15. CASE FailureLands
  <2>1. UNCHANGED <<srv, log, epoch, conn, cursor, held, load, view, ghost>>
    BY <1>0, <1>15, FailureDoes DEF server, stream, store
  <2>2. lane' = NoLane \/ lane'.cancelled = lane.cancelled
    BY <1>0, <1>15, FailureDoes
  <2>3. lane # NoLane
    BY <1>0, <1>15, FailureDoes, EmptyLane DEF LaneOK
  <2>. QED BY <1>2, <2>1, <2>2, <2>3
<1>16. CASE PatchFails \/ Reread \/ RereadFails
  <2>1. UNCHANGED <<srv, log, epoch, conn, cursor, held, load, view, lane>> /\ ghost'.gone = ghost.gone
    BY <1>0, <1>16, RequestsDo DEF server, stream, store
  <2>. QED BY <1>2, <2>1
<1>17. CASE AnswerLands \/ RereadLands
  <2>1. /\ UNCHANGED <<srv, log, epoch, conn, cursor, held, load>> /\ lane # NoLane
        /\ lane.cancelled => lane' = NoLane /\ UNCHANGED <<view, ghost>>
        /\ ~lane.cancelled => Authoritative(req.got) \/ UNCHANGED ghost
    BY <1>0, <1>17, AnswersDo, EmptyLane DEF server, stream, LaneOK
  <2>2. CASE lane.cancelled
    BY <1>2, <2>1, <2>2
  <2>3. CASE ~lane.cancelled
    <3>1. req.got \in Records \cup {None}
      BY <1>0, Types
    <3>2. ghost'.gone = ghost.gone /\ (ghost.gone => ghost.revived)
      BY <1>0, <2>1, <2>3, <3>1, NotesDo DEF Gone
    <3>3. (CanResume(cursor)' <=> CanResume(cursor)) /\ \A k : Past(k)' <=> Past(k)
      BY <2>1, ResumeStays DEF Past
    <3>. QED BY <1>0, <2>1, <3>2, <3>3 DEF Gone, Deaf
  <2>. QED BY <2>2, <2>3
<1>18. CASE PeekSteps
  <2>1. /\ UNCHANGED <<srv, log, epoch, conn, cursor, held, load, lane>> /\ ghost'.gone = ghost.gone
        /\ UNCHANGED view \/ (ghost.gone => ghost'.revived)
    BY <1>0, <1>18, PeekStepsDo
  <2>2. (CanResume(cursor)' <=> CanResume(cursor)) /\ \A k : Past(k)' <=> Past(k)
    BY <2>1, ResumeStays DEF Past
  <2>. QED BY <1>0, <2>1, <2>2 DEF Gone, Deaf
<1>. QED BY <1>1, <1>3, <1>4, <1>5, <1>6, <1>7, <1>8, <1>9, <1>11, <1>12, <1>13, <1>14, <1>15, <1>16, <1>17, <1>18,
            LaneKinds DEF StreamSteps, FoldSteps
-----------------------------------------------------------------------------
(* Types.                                                                   *)

\* The next version is within the bounds.
LEMMA NextRecords ==
  ASSUME TypeOK, LaneOK, Bounded, srv # None, NEW r
  PROVE  /\ limits.changes < MaxChanges /\ r = Changed => r \in Records
         /\ r = [srv EXCEPT !.f = lane.inFlight, !.v = @ + 1] => r \in Records
         /\ Len(log) + 1 <= MaxEdits + MaxChanges + 1
<1>1. /\ srv \in Records /\ srv.f \in Nat /\ srv.g \in Nat /\ srv.v \in Nat /\ Len(log) \in Nat
      /\ lane.inFlight \in 0..MaxEdits /\ srv.f \in 0..MaxEdits /\ srv.g \in 0..MaxChanges
  BY Types, RecordFacts DEF TypeOK, Records
<1>2. srv.v + 1 \in Versions /\ Len(log) + 1 <= MaxEdits + MaxChanges + 1
  BY <1>1, ApplicableFacts DEF Bounded, Versions
<1>3. limits.changes < MaxChanges => srv.g + 1 \in 0..MaxChanges
  BY <1>1, ApplicableFacts DEF Bounded
<1>4. r = Changed => r = [f |-> srv.f, g |-> srv.g + 1, v |-> srv.v + 1]
  BY <1>1 DEF Changed, Records
<1>5. r = [srv EXCEPT !.f = lane.inFlight, !.v = @ + 1] => r = [f |-> lane.inFlight, g |-> srv.g, v |-> srv.v + 1]
  BY <1>1 DEF Records
<1>. QED BY <1>1, <1>2, <1>3, <1>4, <1>5 DEF Records

\* A fold leaves an operator of the window, and a lane.
LEMMA FoldTypes ==
  ASSUME TypeOK, NEW r \in Records \cup {None}
  PROVE  /\ \A e \in 0..MaxEdits : Shown(r, e) \in Records \cup {None}
         /\ Fold(r) => view' \in Records \cup {None} /\ lane' \in
              [pending : 0..MaxEdits, inFlight : 0..MaxEdits, timer : BOOLEAN, running : BOOLEAN,
               cancelled : BOOLEAN, fallback : Records \cup {None}]
         /\ Newest(r) \in Versions
         /\ Read(r) \/ Heard(r) \/ Authoritative(r) =>
              ghost' \in [newest : Versions, behind : BOOLEAN, gone : BOOLEAN, revived : BOOLEAN, lost : SUBSET (1..MaxEdits)]
         /\ Authoritative(r) => view' \in Records \cup {None}
<1>1. ASSUME NEW e \in 0..MaxEdits PROVE Shown(r, e) \in Records \cup {None}
  <2>1. r # None => [r EXCEPT !.f = e] = [f |-> e, g |-> r.g, v |-> r.v]
    BY DEF Records
  <2>2. r # None => [r EXCEPT !.f = e] \in Records
    BY <2>1 DEF Records
  <2>. QED BY <2>2 DEF Shown
<1>2. Overlay \in 0..MaxEdits /\ lane.pending \in 0..MaxEdits
  BY ClientAssumption DEF Overlay, TypeOK
<1>3. Fold(r) => view' = Shown(r, Overlay) /\ (CancelLane \/ UNCHANGED lane)
  BY Zenon DEF Fold
<1>4. CancelLane \/ UNCHANGED lane => lane' \in
        [pending : 0..MaxEdits, inFlight : 0..MaxEdits, timer : BOOLEAN, running : BOOLEAN,
         cancelled : BOOLEAN, fallback : Records \cup {None}]
  <2>1. [lane EXCEPT !.cancelled = TRUE, !.timer = FALSE] \in
        [pending : 0..MaxEdits, inFlight : 0..MaxEdits, timer : BOOLEAN, running : BOOLEAN,
         cancelled : BOOLEAN, fallback : Records \cup {None}]
    BY DEF TypeOK
  <2>. QED BY <2>1 DEF CancelLane, TypeOK
<1>5. Newest(r) \in Versions
  BY DEF Newest, TypeOK, Records
<1>8. /\ ghost.gone \in BOOLEAN
      /\ \A g, b \in BOOLEAN :
           [newest |-> Newest(r), behind |-> b, gone |-> g, revived |-> ghost.revived, lost |-> ghost.lost]
             \in [newest : Versions, behind : BOOLEAN, gone : BOOLEAN, revived : BOOLEAN, lost : SUBSET (1..MaxEdits)]
  <2>1. ghost.lost \in SUBSET (1..MaxEdits) /\ ghost.gone \in BOOLEAN /\ ghost.revived \in BOOLEAN
    BY DEF TypeOK
  <2>. QED BY <1>5, <2>1
<1>6. Read(r) \/ Heard(r) \/ Authoritative(r) =>
        ghost' \in [newest : Versions, behind : BOOLEAN, gone : BOOLEAN, revived : BOOLEAN, lost : SUBSET (1..MaxEdits)]
  <2>1. Read(r) => ghost' \in [newest : Versions, behind : BOOLEAN, gone : BOOLEAN, revived : BOOLEAN, lost : SUBSET (1..MaxEdits)]
    <3>1. Read(r) => ghost' = [ghost EXCEPT !.behind = FALSE, !.newest = Newest(r)]
      BY Zenon DEF Read
    <3>2. Read(r) => ghost' = [newest |-> Newest(r), behind |-> FALSE, gone |-> ghost.gone, revived |-> ghost.revived, lost |-> ghost.lost]
      BY <3>1 DEF TypeOK
    <3>. QED BY <1>8, <3>2
  <2>2. Heard(r) => ghost' \in [newest : Versions, behind : BOOLEAN, gone : BOOLEAN, revived : BOOLEAN, lost : SUBSET (1..MaxEdits)]
    <3>1. Heard(r) => \/ ghost' = [ghost EXCEPT !.behind = FALSE, !.newest = Newest(r), !.gone = TRUE]
                      \/ ghost' = [ghost EXCEPT !.behind = FALSE, !.newest = Newest(r), !.gone = FALSE]
      <4>1. (ghost.gone \/ r = None) \in BOOLEAN
        BY Zenon
      <4>. QED BY <4>1, Zenon DEF Heard
    <3>2. Heard(r) => \/ ghost' = [newest |-> Newest(r), behind |-> FALSE, gone |-> TRUE, revived |-> ghost.revived, lost |-> ghost.lost]
                      \/ ghost' = [newest |-> Newest(r), behind |-> FALSE, gone |-> FALSE, revived |-> ghost.revived, lost |-> ghost.lost]
      BY <3>1 DEF TypeOK
    <3>. QED BY <1>8, <3>2
  <2>3. Authoritative(r) => ghost' \in [newest : Versions, behind : BOOLEAN, gone : BOOLEAN, revived : BOOLEAN, lost : SUBSET (1..MaxEdits)]
    <3>1. Authoritative(r) => \/ ghost' = [ghost EXCEPT !.behind = TRUE, !.newest = Newest(r)]
                              \/ ghost' = [ghost EXCEPT !.behind = FALSE, !.newest = Newest(r)]
      <4>1. (ghost.behind \/ view = None \/ r.v < ghost.newest) \in BOOLEAN
        BY Zenon
      <4>. QED BY <4>1, Zenon DEF Authoritative, Answered
    <3>2. Authoritative(r) =>
            \/ ghost' = [newest |-> Newest(r), behind |-> TRUE, gone |-> ghost.gone, revived |-> ghost.revived, lost |-> ghost.lost]
            \/ ghost' = [newest |-> Newest(r), behind |-> FALSE, gone |-> ghost.gone, revived |-> ghost.revived, lost |-> ghost.lost]
      BY <3>1 DEF TypeOK
    <3>. QED BY <1>8, <3>2
  <2>. QED BY <2>1, <2>2, <2>3
<1>7. Authoritative(r) => view' = Shown(r, lane.pending)
  BY Zenon DEF Authoritative
<1>. QED BY <1>1, <1>2, <1>3, <1>4, <1>5, <1>6, <1>7

\* A cursor of this log is within the bounds.
LEMMA CursorTypes ==
  ASSUME TypeOK, Bounded, NEW n \in Nat, n <= Len(log)
  PROVE  Here(n) \in Cursors
<1>1. Len(log) \in Nat /\ epoch \in 0..MaxDrops /\ MaxEdits \in Nat /\ MaxChanges \in Nat /\ n \in 0..(MaxEdits + MaxChanges + 1)
  BY Types, ClientAssumption DEF TypeOK, Bounded
<1>. QED BY <1>1 DEF Here, Cursors

\* The sets of TypeOK by name.
Limits == [drops : 0..MaxDrops, fails : 0..MaxFails, edits : 0..MaxEdits, changes : 0..MaxChanges]
Lanes == [pending : 0..MaxEdits, inFlight : 0..MaxEdits, timer : BOOLEAN, running : BOOLEAN,
          cancelled : BOOLEAN, fallback : Records \cup {None}]
Requests == [at : {"none", "sent", "answered", "failed", "asked", "read"}, got : Records \cup {None}]
Loads == [fallback : BOOLEAN, at : {"none", "asked", "read"}, again : BOOLEAN, got : Records \cup {None}]
Ghosts == [newest : Versions, behind : BOOLEAN, gone : BOOLEAN, revived : BOOLEAN, lost : SUBSET (1..MaxEdits)]
Peeks == [at : {"none", "asked", "read"}, got : Records \cup {None}]
Conns == [at : {"none", "hello", "open"}, resumed : BOOLEAN, next : Nat, hello : Nat]
Awaits == [on : BOOLEAN, boundary : Cursors, newest : Cursors]

\* The initial records have their types.
LEMMA EmptyTypes ==
  /\ NoStream \in Conns /\ NoAwait \in Awaits /\ NoReq \in Requests /\ Sent \in Requests /\ NoLane \in Lanes
  BY ClientAssumption DEF NoStream, NoAwait, NoReq, Sent, NoLane, Conns, Awaits, Requests, Lanes, Cursors

\* What counts towards a bound stays within it.
LEMMA LimitTypes ==
  ASSUME TypeOK
  PROVE  /\ \A l : l = [limits EXCEPT !.changes = @ + 1] /\ limits.changes < MaxChanges => l \in Limits
         /\ \A l : l = [limits EXCEPT !.drops = @ + 1] /\ limits.drops < MaxDrops => l \in Limits
         /\ \A l : l = [limits EXCEPT !.fails = @ + 1] /\ limits.fails < MaxFails => l \in Limits
         /\ \A l : l = [limits EXCEPT !.edits = limits.edits + 1] /\ limits.edits < MaxEdits => l \in Limits
<1>1. {MaxChanges, MaxDrops, MaxFails, MaxEdits} \subseteq Nat /\ limits \in Limits
  BY ClientAssumption DEF TypeOK, Limits
<1>. QED BY <1>1 DEF Limits

\* What is lost is an edit.
LEMMA LostTypes ==
  ASSUME TypeOK, LaneOK, req.at = "sent", NEW g, g = [ghost EXCEPT !.lost = @ \cup {lane.inFlight}]
  PROVE  g \in Ghosts
<1>1. lane.inFlight \in 1..MaxEdits /\ ghost \in Ghosts
  BY ClientAssumption DEF TypeOK, LaneOK, Ghosts
<1>. QED BY <1>1 DEF Ghosts

\* The lane after a request, or its timer, is a lane.
LEMMA LaneTypes ==
  ASSUME TypeOK, NEW r \in Records \cup {None}
  PROVE  /\ Finally(r) => lane' \in Lanes /\ req' \in Requests
         /\ Due => lane' \in Lanes /\ req' \in Requests
<1>1. lane \in Lanes /\ req \in Requests /\ 0 \in 0..MaxEdits
  BY ClientAssumption DEF TypeOK, Lanes, Requests
<1>2. ASSUME NEW l \in Lanes, NEW q, q = Drained(l) PROVE q \in Lanes
  <2>1. q = [pending |-> 0, inFlight |-> l.pending, timer |-> l.timer, running |-> TRUE,
            cancelled |-> l.cancelled, fallback |-> l.fallback]
    BY <1>2 DEF Drained, Lanes
  <2>. QED BY <1>1, <2>1 DEF Lanes
<1>3. ASSUME NEW f \in Records \cup {None}, NEW q, q = [lane EXCEPT !.running = FALSE, !.inFlight = 0, !.fallback = f]
      PROVE  q \in Lanes
  <2>1. q = [pending |-> lane.pending, inFlight |-> 0, timer |-> lane.timer, running |-> FALSE,
             cancelled |-> lane.cancelled, fallback |-> f]
    BY <1>1, <1>3 DEF Lanes
  <2>. QED BY <1>1, <2>1 DEF Lanes
<1>4. [lane EXCEPT !.running = FALSE, !.inFlight = 0, !.fallback = IF r = None THEN @ ELSE r] \in Lanes
  <2>1. lane.fallback \in Records \cup {None}
    BY Types
  <2>. QED BY <1>3, <2>1, Zenon
<1>5. [lane EXCEPT !.timer = FALSE] \in Lanes
  BY <1>1 DEF Lanes
<1>6. Finally(r) => lane' \in Lanes /\ req' \in Requests
  BY <1>2, <1>4, EmptyTypes, Zenon DEF Finally, Settle
<1>7. Due => lane' \in Lanes /\ req' \in Requests
  BY <1>1, <1>2, <1>5, EmptyTypes, Zenon DEF Due
<1>. QED BY <1>6, <1>7

\* The re-read of a failed branch switch keeps its type.
LEMMA PeekTypes ==
  ASSUME TypeOK, [Next]_vars
  PROVE  peek' \in Peeks
<1>1. peek \in Peeks /\ srv \in Records \cup {None}
  BY DEF TypeOK, Peeks
<1>2. [Next]_vars => peek' \in {peek, NoReq, [at |-> "asked", got |-> None], [at |-> "read", got |-> srv]}
  BY Zenon DEF Next, vars, patches, Change, Delete, Connect, Hello, HydrateAnyway, Drop, Restart, Frame,
     SnapshotReads, SnapshotLands, SnapshotFails, Edit, Due, PatchApplies, PatchFails, AnswerLands, FailureLands,
     Reread, RereadFails, RereadLands, BranchFails, PeekReads, PeekFails, PeekLands
<1>. QED BY <1>1, <1>2 DEF Peeks, NoReq, TypeOK

\* The type invariant with its sets by name, but for that re-read.
Typed ==
  /\ srv \in Records \cup {None} /\ log \in Seq(Records \cup {None}) /\ epoch \in 0..MaxDrops
  /\ conn \in Conns /\ cursor \in Cursors /\ await \in Awaits
  /\ load \in Loads /\ hydrated \in BOOLEAN /\ held \in {<<>>} \cup {<<r>> : r \in Records \cup {None}}
  /\ view \in Records \cup {None} /\ lane \in Lanes /\ req \in Requests
  /\ limits \in Limits /\ ghost \in Ghosts

\* Every step keeps the types.
LEMMA TypeStep ==
  ASSUME IInv, [Next]_vars
  PROVE  TypeOK'
<1>0. /\ TypeOK /\ Numbered /\ Tracked /\ Loading /\ LaneOK /\ Bounded /\ Gone
      /\ \A r \in Records \cup {None} : <<r>> \in {<<q>> : q \in Records \cup {None}}
  BY DEF IInv
<1>t. Typed
  BY <1>0, Zenon DEF TypeOK, Typed, Conns, Awaits, Loads, Lanes, Requests, Limits, Ghosts
<1>p. peek' \in Peeks
  BY <1>0, PeekTypes
<1> SUFFICES Typed'
  BY <1>p, Zenon DEF TypeOK, Typed, Peeks, Conns, Awaits, Loads, Lanes, Requests, Limits, Ghosts
<1>1. CASE Change \/ Delete \/ PatchApplies
  <2>1. srv # None /\ Broadcast(srv') /\ UNCHANGED <<conn, cursor, await, load, hydrated, held, view, lane, ghost>>
    BY <1>1, Zenon DEF Change, Delete, PatchApplies, Broadcast, stream, store, patches
  <2>2. srv' \in Records \cup {None}
    <3>1. \/ srv' = Changed /\ limits.changes < MaxChanges
          \/ srv' = None
          \/ srv' = [srv EXCEPT !.f = lane.inFlight, !.v = @ + 1]
      BY <1>1, Zenon DEF Change, Delete, PatchApplies, Broadcast
    <3>. QED BY <1>0, <2>1, <3>1, NextRecords
  <2>3. log' \in Seq(Records \cup {None}) /\ epoch' = epoch
    <3>1. log' = Append(log, srv') /\ epoch' = epoch
      BY <2>1 DEF Broadcast
    <3>. QED BY <1>t, <2>2, <3>1, AppendProperties DEF Typed
  <2>4. limits' \in Limits
    <3>1. limits' = limits \/ (limits' = [limits EXCEPT !.changes = @ + 1] /\ limits.changes < MaxChanges)
      BY <1>1, Zenon DEF Change, Delete, PatchApplies
    <3>. QED BY <1>0, <1>t, <3>1, LimitTypes DEF Typed
  <2>5. req' \in Requests
    <3>1. req' = req \/ req' = [at |-> "answered", got |-> srv']
      BY <1>1, Zenon DEF Change, Delete, PatchApplies, patches
    <3>. QED BY <1>t, <2>2, <3>1 DEF Typed, Requests
  <2>. QED BY <1>t, <2>1, <2>2, <2>3, <2>4, <2>5, Zenon DEF Typed
<1>2. CASE Connect
  <2>1. /\ UNCHANGED <<srv, log, epoch, cursor, await, load, hydrated, held, view, lane, req, limits, ghost>>
        /\ conn' = [at |-> "hello", resumed |-> CanResume(cursor), hello |-> Len(log),
                    next |-> (IF CanResume(cursor) THEN cursor.seq ELSE Len(log)) + 1]
    BY <1>2, Zenon DEF Connect, server, store, patches
  <2>2. CanResume(cursor) \in BOOLEAN /\ Len(log) \in Nat /\ (CanResume(cursor) => cursor.seq \in Nat)
    BY <1>0, Types DEF CanResume
  <2>3. conn' \in Conns
    <3>1. CASE CanResume(cursor)
      <4>1. conn' = [at |-> "hello", resumed |-> TRUE, hello |-> Len(log), next |-> cursor.seq + 1]
        BY <2>1, <3>1
      <4>. QED BY <2>2, <3>1, <4>1 DEF Conns
    <3>2. CASE ~CanResume(cursor)
      <4>0. CanResume(cursor) = FALSE
        BY <2>2, <3>2, Zenon
      <4>1. conn' = [at |-> "hello", resumed |-> FALSE, hello |-> Len(log), next |-> Len(log) + 1]
        BY <2>1, <4>0
      <4>. QED BY <2>2, <4>1 DEF Conns
    <3>. QED BY <3>1, <3>2
  <2>. QED BY <1>t, <2>1, <2>3, Zenon DEF Typed
\* A load that begins, again or anew.
<1>3. Hydrate => load' \in Loads /\ hydrated' \in BOOLEAN
  BY <1>t DEF Hydrate, Typed, Loads
<1>4. CASE Hello
  <2>1. /\ UNCHANGED <<srv, log, epoch, cursor, view, lane, req, limits, ghost>>
        /\ conn' = [conn EXCEPT !.at = "open"] /\ conn.at = "hello"
        /\ \/ UNCHANGED <<await, load, hydrated, held>>
           \/ await' = [on |-> TRUE, boundary |-> Here(conn.hello), newest |-> None] /\ held' = <<>> /\ Hydrate
    BY <1>4, Zenon DEF Hello, server, patches
  <2>2. conn' \in Conns
    BY <1>t, <2>1 DEF Typed, Conns
  <2>3. Here(conn.hello) \in Cursors
    BY <1>0, <2>1, Types, CursorTypes DEF Numbered
  <2>4. await' \in Awaits
    <3>1. [on |-> TRUE, boundary |-> Here(conn.hello), newest |-> None] \in Awaits
      <4>1. None \in Cursors
        BY DEF Cursors
      <4>. QED BY <2>3, <4>1 DEF Awaits
    <3>. QED BY <1>t, <2>1, <3>1 DEF Typed
  <2>. QED BY <1>t, <1>3, <2>1, <2>2, <2>4 DEF Typed
<1>5. CASE HydrateAnyway
  <2>1. Hydrate /\ UNCHANGED <<srv, log, epoch, conn, cursor, await, held, view, lane, req, limits, ghost>>
    BY <1>5, Zenon DEF HydrateAnyway, server, stream, patches
  <2>. QED BY <1>t, <1>3, <2>1, Zenon DEF Typed
<1>6. CASE Drop \/ Restart
  <2>1. /\ conn' = NoStream /\ await' = NoAwait /\ limits.drops < MaxDrops
        /\ limits' = [limits EXCEPT !.drops = @ + 1] /\ UNCHANGED <<srv, cursor, load, hydrated, held, view, lane>>
        /\ \/ UNCHANGED <<log, epoch, req, ghost>>
           \/ /\ epoch' = epoch + 1 /\ log' = <<>>
              /\ req' = [req EXCEPT !.at = IF @ \in {"sent", "asked"} THEN "failed" ELSE @]
              /\ ghost' = IF req.at = "sent" THEN [ghost EXCEPT !.lost = @ \cup {lane.inFlight}] ELSE ghost
    BY <1>6, Zenon DEF Drop, Restart, Lost, server, store, patches
  <2>2. limits' \in Limits
    BY <1>0, <2>1, LimitTypes
  <2>3. epoch' \in 0..MaxDrops
    <3>1. epoch \in Nat /\ limits.drops \in Nat /\ epoch <= limits.drops /\ MaxDrops \in Nat
      BY <1>0, Types, ClientAssumption DEF Numbered
    <3>. QED BY <1>t, <2>1, <3>1 DEF Typed
  <2>4. log' \in Seq(Records \cup {None})
    BY <1>t, <2>1, EmptySeq DEF Typed
  <2>5. req' \in Requests
    BY <1>t, <2>1 DEF Typed, Requests
  <2>6. ghost' \in Ghosts
    BY <1>0, <1>t, <2>1, LostTypes DEF Typed
  <2>. QED BY <1>t, <2>1, <2>2, <2>3, <2>4, <2>5, <2>6, EmptyTypes, Zenon DEF Typed
\* A fold.
<1>7. ASSUME NEW r \in Records \cup {None}
      PROVE  /\ Fold(r) => view' \in Records \cup {None} /\ lane' \in Lanes
             /\ Read(r) \/ Heard(r) \/ Authoritative(r) => ghost' \in Ghosts
             /\ Authoritative(r) => view' \in Records \cup {None}
  BY <1>0, <1>7, FoldTypes, Zenon DEF Lanes, Ghosts
<1>8. CASE Frame
  <2>1. /\ conn' = [conn EXCEPT !.next = @ + 1] /\ EarnedCursor /\ conn.at = "open" /\ conn.next <= Len(log)
        /\ UNCHANGED <<srv, log, epoch, load, hydrated, req, limits>>
        /\ \/ Fold(log[conn.next]) /\ Heard(log[conn.next]) /\ UNCHANGED held
           \/ held' = <<log[conn.next]>> /\ UNCHANGED <<view, lane, ghost>>
    BY <1>8, Zenon DEF Frame, server
  <2>2. conn.next \in 1..Len(log) /\ log[conn.next] \in Records \cup {None} /\ conn.next \in Nat
    BY <1>0, <2>1, Types DEF Numbered
  <2>3. conn' \in Conns
    BY <1>t, <2>1 DEF Typed, Conns
  <2>4. Here(conn.next) \in Cursors
    BY <1>0, <2>1, <2>2, CursorTypes
  <2>5. cursor' \in Cursors /\ await' \in Awaits
    <3>1. \/ await' = [await EXCEPT !.newest = Here(conn.next)] /\ UNCHANGED cursor
          \/ cursor' = Here(conn.next) /\ UNCHANGED await
      BY <2>1, Zenon DEF EarnedCursor
    <3>. QED BY <1>t, <2>4, <3>1 DEF Typed, Awaits
  <2>6. CASE Fold(log[conn.next]) /\ Heard(log[conn.next]) /\ UNCHANGED held
    BY <1>t, <1>7, <2>1, <2>2, <2>3, <2>5, <2>6, Zenon DEF Typed
  <2>7. CASE held' = <<log[conn.next]>> /\ UNCHANGED <<view, lane, ghost>>
    <3>1. held' \in {<<>>} \cup {<<q>> : q \in Records \cup {None}}
      BY <1>0, <2>2, <2>7
    <3>. QED BY <1>t, <2>1, <2>3, <2>5, <2>7, <3>1, Zenon DEF Typed
  <2>. QED BY <2>1, <2>6, <2>7
<1>9. CASE SnapshotReads
  <2>1. /\ load' = [load EXCEPT !.at = "read", !.got = srv]
        /\ UNCHANGED <<srv, log, epoch, conn, cursor, await, hydrated, held, view, lane, req, limits, ghost>>
    BY <1>9, Zenon DEF SnapshotReads, server, stream, patches
  <2>2. load' \in Loads
    BY <1>t, <2>1 DEF Typed, Loads
  <2>. QED BY <1>t, <2>1, <2>2, Zenon DEF Typed
\* A load that ends, or begins anew.
<1>10. Rehydrates \/ Loaded => load' \in Loads
  <2>1. Rehydrates => load' \in Loads
    <3>1. Rehydrates => load' = [fallback |-> load.fallback, at |-> "asked", again |-> FALSE, got |-> None]
      BY <1>t DEF Rehydrates, Typed, Loads
    <3>2. load.fallback \in BOOLEAN
      BY <1>t DEF Typed, Loads
    <3>3. [fallback |-> load.fallback, at |-> "asked", again |-> FALSE, got |-> None] \in Loads
      BY <3>2 DEF Loads
    <3>. QED BY <3>1, <3>3, Zenon
  <2>2. Loaded => load' \in Loads
    <3>1. Loaded => load' = [fallback |-> load.fallback, at |-> "none", again |-> load.again, got |-> None]
      BY <1>t DEF Loaded, Typed, Loads
    <3>. QED BY <1>t, <3>1 DEF Typed, Loads
  <2>. QED BY <2>1, <2>2
<1>11. CASE SnapshotLands
  <2>1. UNCHANGED <<srv, log, epoch, conn, req, limits>>
    BY <1>11, Zenon DEF SnapshotLands, server
  <2>2. load.got \in Records \cup {None}
    BY <1>0, Types
  <2>3. CASE load.again
    <3>1. view' = load.got /\ Rehydrates /\ UNCHANGED <<hydrated, held, lane, cursor, await, ghost>>
      BY <1>11, <2>3, Zenon DEF SnapshotLands
    <3>. QED BY <1>t, <1>10, <2>1, <2>2, <3>1, Zenon DEF Typed
  <2>4. CASE ~load.again
    <3>1. /\ hydrated' = TRUE /\ held' = <<>> /\ Loaded /\ await' = NoAwait
          /\ \/ view' = load.got /\ Read(load.got) /\ UNCHANGED lane
             \/ held # <<>> /\ Fold(held[1]) /\ Heard(held[1])
          /\ cursor' = IF ~await.on THEN cursor
                       ELSE IF await.newest # None THEN await.newest ELSE await.boundary
      BY <1>11, <2>4, Zenon DEF SnapshotLands
    <3>2. cursor' \in Cursors
      BY <1>t, <3>1 DEF Typed, Awaits
    <3>3. view' \in Records \cup {None} /\ lane' \in Lanes /\ ghost' \in Ghosts
      <4>1. held # <<>> => held[1] \in Records \cup {None}
        BY <1>0, Types
      <4>. QED BY <1>t, <1>7, <2>2, <3>1, <4>1, Zenon DEF Typed
    <3>4. hydrated' \in BOOLEAN /\ held' \in {<<>>} \cup {<<r>> : r \in Records \cup {None}}
      BY <3>1
    <3>. QED BY <1>10, <1>t, <2>1, <3>1, <3>2, <3>3, <3>4, EmptyTypes, Zenon DEF Typed
  <2>. QED BY <2>3, <2>4
<1>12. CASE SnapshotFails
  <2>1. /\ limits' = [limits EXCEPT !.fails = @ + 1] /\ limits.fails < MaxFails
        /\ Rehydrates \/ Loaded
        /\ UNCHANGED <<conn, await>> \/ (conn' = NoStream /\ await' = NoAwait)
        /\ UNCHANGED <<srv, log, epoch, cursor, hydrated, held, view, lane, req, ghost>>
    BY <1>12, Zenon DEF SnapshotFails, Fails, CanFail, Lost, server, patches
  <2>2. limits' \in Limits
    BY <1>0, <2>1, LimitTypes
  <2>. QED BY <1>t, <1>10, <2>1, <2>2, EmptyTypes, Zenon DEF Typed
<1>13. CASE Edit
  <2>1. /\ view # None /\ limits.edits < MaxEdits
        /\ limits' = [limits EXCEPT !.edits = limits.edits + 1] /\ view' = [view EXCEPT !.f = limits.edits + 1]
        /\ lane' = [IF lane.cancelled \/ lane = NoLane THEN [NoLane EXCEPT !.fallback = view] ELSE lane
                    EXCEPT !.pending = limits.edits + 1, !.timer = TRUE]
        /\ UNCHANGED <<srv, log, epoch, conn, cursor, await, load, hydrated, held, req, ghost>>
    BY <1>13, Zenon DEF Edit, server, stream
  <2>2. limits' \in Limits
    BY <1>0, <2>1, LimitTypes
  <2>3. limits.edits + 1 \in 0..MaxEdits /\ view \in Records
    BY <1>t, <2>1, ClientAssumption DEF Typed, Limits
  <2>4. view' \in Records
    <3>1. view' = [f |-> limits.edits + 1, g |-> view.g, v |-> view.v]
      BY <2>1, <2>3 DEF Records
    <3>. QED BY <2>3, <3>1 DEF Records
  <2>5. ASSUME NEW l \in Lanes, lane' = [l EXCEPT !.pending = limits.edits + 1, !.timer = TRUE]
        PROVE  lane' \in Lanes
    <3>1. lane' = [pending |-> limits.edits + 1, inFlight |-> l.inFlight, timer |-> TRUE, running |-> l.running,
                   cancelled |-> l.cancelled, fallback |-> l.fallback]
      BY <2>5 DEF Lanes
    <3>. QED BY <2>3, <3>1 DEF Lanes
  <2>6. [NoLane EXCEPT !.fallback = view] \in Lanes
    BY <2>3, EmptyTypes DEF Lanes
  <2>7. lane' \in Lanes
    <3>1. CASE lane.cancelled \/ lane = NoLane
      BY <2>1, <2>5, <2>6, <3>1
    <3>2. CASE ~(lane.cancelled \/ lane = NoLane)
      BY <1>t, <2>1, <2>5, <3>2 DEF Typed
    <3>. QED BY <3>1, <3>2
  <2>. QED BY <1>t, <2>1, <2>2, <2>4, <2>7, Zenon DEF Typed
<1>14. CASE Due
  <2>1. UNCHANGED <<srv, log, epoch, conn, cursor, await, load, hydrated, held, view, limits, ghost>>
    BY <1>14, Zenon DEF Due, server, stream, store
  <2>. QED BY <1>0, <1>t, <1>14, <2>1, LaneTypes, Zenon DEF Typed
<1>15. CASE PatchFails
  <2>1. /\ req.at \in {"sent", "answered"} /\ req' = [req EXCEPT !.at = "failed", !.got = None]
        /\ UNCHANGED limits \/ (limits' = [limits EXCEPT !.fails = @ + 1] /\ limits.fails < MaxFails)
        /\ ghost' = IF req.at = "sent" THEN [ghost EXCEPT !.lost = @ \cup {lane.inFlight}] ELSE ghost
        /\ UNCHANGED <<srv, log, epoch, conn, cursor, await, load, hydrated, held, view, lane>>
    BY <1>15, Zenon DEF PatchFails, Fails, CanFail, server, stream, store
  <2>2. limits' \in Limits
    BY <1>0, <1>t, <2>1, LimitTypes DEF Typed
  <2>3. req' \in Requests
    BY <1>t, <2>1 DEF Typed, Requests
  <2>4. ghost' \in Ghosts
    BY <1>0, <1>t, <2>1, LostTypes DEF Typed
  <2>. QED BY <1>t, <2>1, <2>2, <2>3, <2>4, Zenon DEF Typed
<1>16. CASE FailureLands
  <2>1. /\ UNCHANGED <<srv, log, epoch, conn, cursor, await, load, hydrated, held, view, limits, ghost>>
        /\ \/ lane' = NoLane /\ req' = NoReq
           \/ lane' = [lane EXCEPT !.inFlight = 0] /\ req' = [at |-> "asked", got |-> None]
    BY <1>16, Zenon DEF FailureLands, Abandoned, server, stream
  <2>2. [lane EXCEPT !.inFlight = 0] \in Lanes /\ [at |-> "asked", got |-> None] \in Requests
    BY <1>t, ClientAssumption DEF Typed, Lanes, Requests
  <2>. QED BY <1>t, <2>1, <2>2, EmptyTypes, Zenon DEF Typed
<1>17. CASE Reread \/ RereadFails
  <2>1. /\ UNCHANGED <<srv, log, epoch, conn, cursor, await, load, hydrated, held, view, lane, ghost>>
        /\ req' = [at |-> "read", got |-> srv] \/ req' = [at |-> "read", got |-> lane.fallback]
        /\ UNCHANGED limits \/ (limits' = [limits EXCEPT !.fails = @ + 1] /\ limits.fails < MaxFails)
    BY <1>17, Zenon DEF Reread, RereadFails, Fails, CanFail, server, stream, store
  <2>2. limits' \in Limits
    BY <1>0, <1>t, <2>1, LimitTypes DEF Typed
  <2>3. req' \in Requests
    BY <1>t, <2>1 DEF Typed, Requests, Lanes
  <2>. QED BY <1>t, <2>1, <2>2, <2>3, Zenon DEF Typed
<1>18. CASE AnswerLands \/ RereadLands
  <2>1. UNCHANGED <<srv, log, epoch, conn, cursor, await, load, hydrated, held, limits>>
    BY <1>18, AnswersDo DEF server, stream
  <2>2. req.got \in Records \cup {None}
    BY <1>0, Types
  <2>3. lane' \in Lanes /\ req' \in Requests
    BY <1>0, <1>18, <2>2, AnswersDo, LaneTypes, EmptyTypes, Zenon
  <2>4. view' \in Records \cup {None} /\ ghost' \in Ghosts
    <3>1. UNCHANGED <<view, ghost>> \/ Authoritative(req.got)
      BY <1>18, AnswersDo, Zenon
    <3>. QED BY <1>t, <1>7, <2>2, <3>1 DEF Typed
  <2>. QED BY <1>t, <2>1, <2>3, <2>4, Zenon DEF Typed
<1>19. CASE UNCHANGED vars
  BY <1>t, <1>19, Zenon DEF vars, Typed
<1>20. CASE BranchFails \/ PeekReads \/ PeekFails
  <2>1. /\ UNCHANGED <<srv, log, epoch, conn, cursor, await, load, hydrated, held, view, lane, req, ghost>>
        /\ UNCHANGED limits \/ (limits' = [limits EXCEPT !.fails = @ + 1] /\ limits.fails < MaxFails)
    BY <1>20, Zenon DEF BranchFails, PeekReads, PeekFails, Fails, CanFail, server, stream, store
  <2>2. limits' \in Limits
    BY <1>0, <1>t, <2>1, LimitTypes DEF Typed
  <2>. QED BY <1>t, <2>1, <2>2, Zenon DEF Typed
<1>21. CASE PeekLands
  <2>1. /\ UNCHANGED <<srv, log, epoch, conn, cursor, await, load, hydrated, held, lane, req, limits>>
        /\ \/ UNCHANGED <<view, ghost>>
           \/ /\ view' = peek.got
              /\ ghost' = [ghost EXCEPT !.behind = @ \/ view = None \/ peek.got.v < ghost.newest,
                                       !.newest = Newest(peek.got), !.revived = @ \/ ghost.gone]
    BY <1>21, Zenon DEF PeekLands, server, stream
  <2>2. peek.got \in Records \cup {None} /\ Newest(peek.got) \in Versions
    BY <1>0, Types, FoldTypes
  <2>3. ASSUME NEW b \in BOOLEAN, NEW v \in BOOLEAN, NEW g,
               g = [ghost EXCEPT !.behind = b, !.newest = Newest(peek.got), !.revived = v]
        PROVE  g \in Ghosts
    <3>1. g = [newest |-> Newest(peek.got), behind |-> b, gone |-> ghost.gone, revived |-> v, lost |-> ghost.lost]
      BY <1>t, <2>3 DEF Typed, Ghosts
    <3>2. ghost.gone \in BOOLEAN /\ ghost.lost \in SUBSET (1..MaxEdits)
      BY <1>t DEF Typed, Ghosts
    <3>. QED BY <2>2, <3>1, <3>2 DEF Ghosts
  <2>4. ghost' \in Ghosts
    <3>1. /\ (ghost.behind \/ view = None \/ peek.got.v < ghost.newest) \in BOOLEAN
          /\ (ghost.revived \/ ghost.gone) \in BOOLEAN
      BY Zenon
    <3>. QED BY <1>t, <2>1, <2>3, <3>1, Zenon DEF Typed
  <2>. QED BY <1>t, <2>1, <2>2, <2>4, Zenon DEF Typed
<1>. QED BY <1>1, <1>2, <1>4, <1>5, <1>6, <1>8, <1>9, <1>11, <1>12, <1>13, <1>14, <1>15, <1>16, <1>17, <1>18, <1>19,
            <1>20, <1>21,
            LaneKinds, Zenon DEF StreamSteps, FoldSteps, PeekSteps
-----------------------------------------------------------------------------
\* The inductive invariant holds at first, and every step keeps it.
LEMMA InitHolds == Init => IInv
<1> SUFFICES ASSUME Init PROVE IInv
  OBVIOUS
<1>0. /\ srv = [f |-> 0, g |-> 0, v |-> 0] /\ log = <<>> /\ epoch = 0
      /\ conn = NoStream /\ cursor = None /\ await = NoAwait
      /\ load = [fallback |-> TRUE, at |-> "none", again |-> FALSE, got |-> None]
      /\ hydrated = FALSE /\ held = <<>> /\ view = None
      /\ lane = NoLane /\ req = NoReq /\ peek = NoReq
      /\ limits = [drops |-> 0, fails |-> 0, edits |-> 0, changes |-> 0]
      /\ ghost = [newest |-> 0, behind |-> FALSE, gone |-> FALSE, revived |-> FALSE, lost |-> {}]
  BY Zenon DEF Init
<1>1. {ReplayMax, MaxEdits, MaxChanges, MaxDrops, MaxFails} \subseteq Nat /\ Len(log) = 0
  BY <1>0, ClientAssumption, EmptySeq
<1>2. Typed
  <2>1. srv \in Records /\ log \in Seq(Records \cup {None}) /\ epoch \in 0..MaxDrops
    BY <1>0, <1>1, EmptySeq DEF Records, Versions
  <2>2. load \in Loads /\ limits \in Limits /\ ghost \in Ghosts /\ cursor \in Cursors
    BY <1>0, <1>1 DEF Loads, Limits, Ghosts, Versions, Cursors
  <2>. QED BY <1>0, <2>1, <2>2, EmptyTypes DEF Typed
<1>p. peek \in Peeks
  BY <1>0 DEF NoReq, Peeks
<1>3. TypeOK
  BY <1>2, <1>p, Zenon DEF TypeOK, Typed, Peeks, Conns, Awaits, Loads, Lanes, Requests, Limits, Ghosts
<1>4. Numbered /\ Tracked /\ Loading
  BY <1>0, <1>1 DEF Numbered, Tracked, Loading, NoStream, NoAwait, CanResume
<1>5. LaneOK /\ EditsInOrder
  BY <1>0, <1>1, EmptyLane DEF LaneOK, EditsInOrder
<1>6. Bounded /\ Versioned
  BY <1>0, <1>1, EmptyLane DEF Bounded, Applicable, Versioned, Exact
<1>7. Current /\ Gone
  BY <1>0, <1>1 DEF Current, Synced, Gone, Deaf
<1>. QED BY <1>3, <1>4, <1>5, <1>6, <1>7 DEF IInv

LEMMA StepHolds == IInv /\ [Next]_vars => IInv'
<1> SUFFICES ASSUME IInv, [Next]_vars PROVE IInv'
  OBVIOUS
<1>1. TypeOK'
  BY TypeStep
<1>. QED BY <1>1, NumberedStep, TrackedStep, LoadingStep, LaneOKStep, EditsInOrderStep, BoundedStep, VersionedStep,
            CurrentStep, GoneStep, Zenon DEF IInv

\* Every reachable state is in the inductive invariant.
THEOREM Inductive == Spec => []IInv
  BY InitHolds, StepHolds, PTL DEF Spec

\* In every state the variables of ClientView have their types: no version, sequence number or count
\* leaves the bounds of the instance.
THEOREM TypeCorrect == Spec => []TypeOK
<1>1. IInv => TypeOK
  BY DEF IInv
<1>. QED BY <1>1, Inductive, PTL

\* A window that was sent all there is, and loads nothing, shows what the server has
\* (GET /api/events of server/index.ts, live-events.ts and store.tsx), unless an older answer was folded last.
THEOREM CaughtUpCurrent == Spec => []CaughtUpIsCurrent
<1>1. IInv => CaughtUpIsCurrent
  <2> SUFFICES ASSUME IInv, CaughtUp PROVE view = srv \/ ghost.behind
    BY DEF CaughtUpIsCurrent
  <2>1. conn.at = "open" /\ conn.next > Len(log) /\ load.at = "none" /\ (lane = NoLane \/ lane.cancelled)
    BY DEF CaughtUp
  <2>2. TypeOK /\ Numbered /\ Tracked /\ Loading /\ LaneOK /\ Current
    BY DEF IInv
  <2>3. Len(log) \in Nat /\ conn.next \in Nat
    BY <2>2, Types
  <2>4. hydrated /\ cursor = Here(conn.next - 1) /\ conn.next - 1 = Len(log)
    BY <2>1, <2>2, <2>3 DEF Tracked, Numbered
  <2>5. CanResume(cursor) /\ cursor.seq = Len(log)
    BY <2>2, <2>3, <2>4, EndResumes, Types, HereFacts
  <2>6. Fresh
    BY <2>2, <2>4, <2>5 DEF Current, Synced
  <2>. QED BY <2>1, <2>2, <2>6 DEF Fresh, LaneOK
<1>. QED BY <1>1, Inductive, PTL

\* An edit that was not refused or lost is what the server has when its lane is empty
\* (bot-patch-queue.ts: coalescing, one request at a time).
THEOREM EditsLand == Spec => []EditLands
<1>1. IInv => EditLands
  <2> SUFFICES ASSUME IInv, lane = NoLane, srv # None, limits.edits \notin ghost.lost PROVE srv.f = limits.edits
    BY DEF EditLands
  <2>. QED BY EmptyLane DEF IInv, LaneOK, EditsInOrder
<1>. QED BY <1>1, Inductive, PTL

\* Once the deletion was folded, no answer, re-read of the lane, snapshot or frame shows the operator
\* again (handleFrame of "bot.deleted", cancel of bot-patch-queue.ts), in any window where the re-read
\* after a failed branch switch (reconcileBot of store.tsx), which asks no one, has not done so.
THEOREM DeletedStays == Spec => []DeletedStaysGone
<1>1. IInv => DeletedStaysGone
  BY DEF IInv, Gone, DeletedStaysGone
<1>. QED BY <1>1, Inductive, PTL
=============================================================================

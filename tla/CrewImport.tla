------------------------------ MODULE CrewImport ------------------------------
(***************************************************************************)
(* Crew imports: the journal of server/crew-import-transactions.ts, the    *)
(* mutation of POST /api/teams/import and the artifact-scoped undo of      *)
(* server/index.ts, with crashes between any two durable writes, writes    *)
(* that fail, and the recovery that runs before the server takes requests. *)
(* The transactions are serialized; only at a real await do other handlers *)
(* run: they attach cadences and crews to imported operators.              *)
(***************************************************************************)
EXTENDS Naturals, Sequences, FiniteSets

CONSTANTS Keys,       \* idempotency keys
          Olds,       \* operators of the workspace before the imports
          Plan,       \* kinds of the artifacts an import creates, in order
          None,
          MaxGens,    \* imports prepared with one key
          MaxImports, \* imports prepared in all
          MaxCrashes,
          MaxFails    \* durable writes that fail

Kinds == {"bot", "group", "routine"}

ASSUME ImportAssumption ==
  /\ Plan \in Seq(Kinds) /\ Len(Plan) > 0 /\ None \notin Keys
  /\ Olds \cap (Keys \X (1..MaxGens) \X (1..Len(Plan))) = {}
  /\ {MaxGens, MaxImports, MaxCrashes, MaxFails} \subseteq Nat

VARIABLES
  journal, \* crew-import-transactions.json: key -> its transaction
  mem,     \* Store and RoutineManager: live operators, crews, cadences; hidden operators
  disk,    \* their files
  op,      \* the serialized operation under way
  leases,  \* crewImportUndoLeases, by the key whose operators are leased
  deps,    \* foreign crews and cadences: the imported operator they name, and by which door
  server,  \* down, in its boot, or up
  crashes, fails

vars == <<journal, mem, disk, op, leases, deps, server, crashes, fails>>

\* The artifact a key's generation plans at position i, and what kind it is.
Arts == Keys \X (1..MaxGens) \X (1..Len(Plan))
Kind(x) == Plan[x[3]]
Bots == Olds \cup {x \in Arts : Kind(x) = "bot"}

States == {"absent", "prepared", "committed", "undoing", "undone", "rolled_back",
           "rollback_failed"}
Phases == {"idle", "plan", "select", "record", "create", "archive", "unwind", "guard",
           "undo", "rollback", "mark"}
Workspace == [bot : SUBSET Bots, group : SUBSET Arts, routine : SUBSET Arts,
              hidden : SUBSET Bots]

TypeOK ==
  /\ journal \in [Keys -> [state : States, gen : 0..MaxGens, done : 0..Len(Plan),
                           prior : SUBSET Bots]]
  /\ mem \in Workspace /\ disk \in Workspace
  /\ op \in [phase : Phases, key : Keys \cup {None}, made : SUBSET Arts,
             left : SUBSET Arts, back : SUBSET Bots]
  /\ leases \subseteq Keys /\ deps \subseteq (Bots \X {"route", "card"})
  /\ server \in {"down", "boot", "up"} /\ crashes \in 0..MaxCrashes /\ fails \in 0..MaxFails

NoOp == [phase |-> "idle", key |-> None, made |-> {}, left |-> {}, back |-> {}]

Init ==
  /\ journal = [k \in Keys |-> [state |-> "absent", gen |-> 0, done |-> 0, prior |-> {}]]
  /\ mem = [bot |-> Olds, group |-> {}, routine |-> {}, hidden |-> {}]
  /\ disk = mem /\ op = NoOp /\ leases = {} /\ deps = {} /\ server = "up"
  /\ crashes = 0 /\ fails = 0

---------------------------------------------------------------------------
(* Durable writes.  A file is written whole from memory; a write that       *)
(* fails leaves memory ahead of it, except for the journal and cadences.    *)

Failed == fails < MaxFails /\ fails' = fails + 1

Saved(kind, m) ==
  IF kind = "bot" THEN [disk EXCEPT !.bot = m.bot, !.hidden = m.hidden]
                  ELSE [disk EXCEPT ![kind] = m[kind]]

Stored(kind, m) == mem' = m /\ disk' = Saved(kind, m) /\ UNCHANGED fails

Put(k, state) == journal' = [journal EXCEPT ![k].state = state] /\ UNCHANGED fails

\* What a key's journal record says it created, or was about to.
Recorded(k) == {<<k, journal[k].gen, i>> : i \in 1..journal[k].done}

Alive(x) == x \in mem[Kind(x)]

---------------------------------------------------------------------------
(* Where an operation goes when a step is done, or throws.                  *)

At(phase) == op' = [op EXCEPT !.phase = phase]

\* The catch of the mutation: what it created, then the archived flags.
Unwind ==
  /\ op' = [op EXCEPT !.phase = "unwind", !.left = {x \in op.made : Alive(x)},
                      !.back = journal[op.key].prior]
  /\ UNCHANGED leases

\* Mutants: only what this process created is removed; or nothing is leased.
CompensateMade(k, phase) ==
  /\ op' = [phase |-> phase, key |-> k, made |-> {}, back |-> journal[k].prior, left |-> op.made]
  /\ leases' = leases \cup {k}

CompensateUnleased(k, phase) ==
  /\ op' = [phase |-> phase, key |-> k, made |-> {}, back |-> journal[k].prior,
            left |-> {x \in Recorded(k) : x \in mem'[Kind(x)]}]
  /\ UNCHANGED leases

\* undoCrewImportArtifacts: every operator of the import is leased first.
Compensate(k, phase) ==
  /\ op' = [phase |-> phase, key |-> k, made |-> {}, back |-> journal[k].prior,
            left |-> {x \in Recorded(k) : x \in mem'[Kind(x)]}]
  /\ leases' = leases \cup {k}

\* A failure while up ends the request, one during recovery ends the process.
Answer == op' = NoOp /\ UNCHANGED server
Die == op' = NoOp /\ server' = "down"
Fall == IF server = "up" THEN Answer ELSE Die

---------------------------------------------------------------------------
(* execute and the import's mutation.                                       *)

\* A fresh or rolled-back key; the other states answer without a change.
Begin(k) ==
  /\ server = "up" /\ op = NoOp
  /\ journal[k].state \in {"absent", "rolled_back"} /\ journal[k].gen < MaxGens
  /\ Cardinality({c \in Keys \X (1..MaxGens) : c[2] <= journal[c[1]].gen}) < MaxImports
  /\ journal' = [journal EXCEPT ![k] =
                   [state |-> "prepared", gen |-> @.gen + 1, done |-> 0, prior |-> {}]]
  /\ op' = [NoOp EXCEPT !.phase = "plan", !.key = k]
  /\ UNCHANGED <<mem, disk, leases, deps, server, crashes, fails>>

\* archivedPriorStates: in replace mode, the operators that are not hidden.  A full
\* workspace, or a failed write, throws.
RecordPrior ==
  /\ op.phase = "plan"
  /\ UNCHANGED <<mem, disk, deps, server, crashes>>
  /\ \/ /\ \E prior \in {{}, mem.bot \ mem.hidden} :
             journal' = [journal EXCEPT ![op.key].prior = prior]
        /\ At("select") /\ UNCHANGED <<leases, fails>>
     \/ (Failed \/ UNCHANGED fails) /\ Compensate(op.key, "rollback") /\ UNCHANGED journal

\* defaultSelection asks the providers: the one real await of the mutation.
Select ==
  /\ op.phase = "select"
  /\ (At("record") /\ UNCHANGED leases) \/ Unwind
  /\ UNCHANGED <<journal, mem, disk, deps, server, crashes, fails>>

\* artifactCreated: the planned identity is on disk before the artifact exists.
RecordArtifact ==
  /\ op.phase = "record"
  /\ \/ /\ journal' = [journal EXCEPT ![op.key].done = @ + 1]
        /\ At("create") /\ UNCHANGED <<leases, fails>>
     \/ Failed /\ Unwind /\ UNCHANGED journal
  /\ UNCHANGED <<mem, disk, deps, server, crashes>>

\* createBot, createGroup and the patch that follows, or RoutineManager.create.
CreateArtifact ==
  /\ op.phase = "create"
  /\ LET n == journal[op.key].done
         x == <<op.key, journal[op.key].gen, n>>
         kind == Plan[n]
         m == [mem EXCEPT ![kind] = @ \cup {x}] IN
     \/ /\ Stored(kind, m) /\ UNCHANGED leases
        /\ op' = [op EXCEPT !.made = @ \cup {x},
                            !.phase = IF n = Len(Plan) THEN "archive" ELSE "record",
                            !.back = IF n = Len(Plan) THEN journal[op.key].prior ELSE {}]
     \/ /\ Failed /\ Unwind
        /\ IF kind = "routine" THEN UNCHANGED <<mem, disk>>
           ELSE mem' = m /\ disk' \in {disk, Saved(kind, m)}
  /\ UNCHANGED <<journal, deps, server, crashes>>

\* Replace mode hides the old crew last, one operator and one write at a time.
Archive ==
  /\ op.phase = "archive"
  /\ \E b \in op.back :
       LET m == [mem EXCEPT !.hidden = IF b \in mem.bot THEN @ \cup {b} ELSE @] IN
       \/ /\ Stored("bot", m) /\ UNCHANGED leases
          /\ op' = [op EXCEPT !.back = @ \ {b}]
       \/ Failed /\ Unwind /\ mem' = m /\ UNCHANGED disk
  /\ UNCHANGED <<journal, deps, server, crashes>>

\* The receipt.  If its write fails the import is rolled back by that receipt.
Commit ==
  /\ op.phase = "archive" /\ op.back = {}
  /\ UNCHANGED <<mem, disk, deps, server, crashes>>
  /\ \/ Put(op.key, "committed") /\ op' = NoOp /\ UNCHANGED leases
     \/ Failed /\ UNCHANGED journal /\ Compensate(op.key, "rollback")

---------------------------------------------------------------------------
(* undo: the intent, the guards, then undoCrewImportArtifacts.              *)

RequestUndo(k) ==
  /\ server = "up" /\ op = NoOp /\ journal[k].state = "committed"
  /\ Put(k, "undoing") /\ op' = [NoOp EXCEPT !.phase = "guard", !.key = k]
  /\ UNCHANGED <<mem, disk, leases, deps, server, crashes>>

InUse(k) == \E d \in deps : d[1] \in Recorded(k)

\* A busy operator, or a foreign crew or cadence that names one, keeps the import.
Guard ==
  /\ op.phase = "guard" /\ UNCHANGED <<mem, disk, deps, crashes, server>>
  /\ \/ /\ op' = NoOp /\ UNCHANGED leases
        /\ Put(op.key, "committed") \/ (Failed /\ UNCHANGED journal)
     \/ ~InUse(op.key) /\ Compensate(op.key, "undo") /\ UNCHANGED <<journal, fails>>

\* Cadences first, then crews, then operators.
Rank(x) == CASE Kind(x) = "routine" -> 1 [] Kind(x) = "group" -> 2 [] OTHER -> 3

\* What follows a throw of a compensating step.
Broken ==
  CASE op.phase = "unwind" -> Compensate(op.key, "rollback") /\ UNCHANGED server
    [] op.phase = "rollback" -> At("mark") /\ UNCHANGED <<leases, server>>
    [] op.phase = "undo" -> Fall /\ UNCHANGED leases

Remove ==
  /\ op.phase \in {"unwind", "rollback", "undo"}
  /\ \E x \in op.left :
       /\ \A y \in op.left : Rank(x) <= Rank(y)
       /\ LET m == [mem EXCEPT ![Kind(x)] = @ \ {x}] IN
          \/ /\ Stored(Kind(x), m) /\ op' = [op EXCEPT !.left = @ \ {x}]
             /\ UNCHANGED <<leases, server>>
          \/ /\ Failed /\ mem' \in (IF Kind(x) = "routine" THEN {mem} ELSE {mem, m})
             /\ UNCHANGED disk /\ Broken
  /\ UNCHANGED <<journal, deps, crashes>>

Restore ==
  /\ op.phase \in {"unwind", "rollback", "undo"} /\ op.left = {}
  /\ \E b \in op.back :
       LET m == [mem EXCEPT !.hidden = @ \ {b}]
           next == op' = [op EXCEPT !.back = @ \ {b}] /\ UNCHANGED <<leases, server>> IN
       \/ b \in mem.bot /\ Stored("bot", m) /\ next
       \/ b \notin mem.bot /\ next /\ UNCHANGED <<mem, disk, fails>>
       \/ b \in mem.bot /\ Failed /\ mem' = m /\ UNCHANGED disk /\ Broken
  /\ UNCHANGED <<journal, deps, crashes>>

\* The compensation is whole: the leases go, and the journal says so.
Finish ==
  /\ op.phase \in {"unwind", "rollback", "undo"} /\ op.left = {} /\ op.back = {}
  /\ UNCHANGED <<mem, disk, deps, crashes>>
  /\ \/ /\ op.phase = "unwind" /\ Compensate(op.key, "rollback")
        /\ UNCHANGED <<journal, server, fails>>
     \/ /\ op.phase # "unwind" /\ leases' = leases \ {op.key}
        /\ \/ /\ Put(op.key, IF op.phase = "undo" THEN "undone" ELSE "rolled_back") /\ Answer
           \/ /\ Failed /\ UNCHANGED journal
              /\ IF op.phase = "rollback" /\ server = "boot"
                   THEN At("mark") /\ UNCHANGED server ELSE Fall

\* rollback_failed, where that write succeeds.
Mark ==
  /\ op.phase = "mark" /\ Fall
  /\ Put(op.key, "rollback_failed") \/ (Failed /\ UNCHANGED journal)
  /\ UNCHANGED <<mem, disk, leases, deps, crashes>>

---------------------------------------------------------------------------
(* Crash, restart and recover.                                              *)

Crash ==
  /\ server # "down" /\ crashes < MaxCrashes /\ crashes' = crashes + 1
  /\ server' = "down" /\ op' = NoOp
  /\ UNCHANGED <<journal, mem, disk, leases, deps, fails>>

Start ==
  /\ server = "down" /\ server' = "boot" /\ mem' = disk /\ leases' = {}
  /\ UNCHANGED <<journal, disk, op, deps, crashes, fails>>

Pending(k) == journal[k].state \in {"prepared", "rollback_failed", "undoing"}

\* Mutants: a failed rollback is not recovered; an interrupted undo is rolled back.
RecoverPrepared(k) ==
  /\ server = "boot" /\ op = NoOp /\ journal[k].state = "prepared"
  /\ UNCHANGED <<journal, mem, disk, deps, server, crashes, fails>>
  /\ Compensate(k, "rollback")

RecoverBack(k) ==
  /\ server = "boot" /\ op = NoOp /\ Pending(k)
  /\ UNCHANGED <<journal, mem, disk, deps, server, crashes, fails>>
  /\ Compensate(k, "rollback")

\* One pending transaction; the guards of an undo hold here too, and end the boot.
Recover(k) ==
  /\ server = "boot" /\ op = NoOp /\ Pending(k)
  /\ UNCHANGED <<journal, mem, disk, deps, crashes, fails>>
  /\ IF journal[k].state # "undoing" THEN Compensate(k, "rollback") /\ UNCHANGED server
     ELSE IF InUse(k) THEN Die /\ UNCHANGED leases
     ELSE Compensate(k, "undo") /\ UNCHANGED server

Ready ==
  /\ server = "boot" /\ op = NoOp /\ \A k \in Keys : ~Pending(k)
  /\ server' = "up" /\ UNCHANGED <<journal, mem, disk, op, leases, deps, crashes, fails>>

---------------------------------------------------------------------------
(* Other handlers, at the awaits.                                           *)

AtAwait ==
  /\ server = "up"
  /\ \/ op.phase \in {"idle", "select"}
     \/ /\ op.phase \in {"rollback", "undo"} /\ op.left # {}
        /\ \A x \in op.left : Kind(x) = "bot"

\* A crew or a cadence of the user on a live imported operator.  The routes refuse a
\* leased one; confirmation cards and direct-message channels do not look.
Attach(b, door) ==
  /\ AtAwait /\ b \in mem.bot \ Olds /\ deps = {}
  /\ door = "card" \/ b[1] \notin leases
  /\ deps' = {<<b, door>>}
  /\ UNCHANGED <<journal, mem, disk, op, leases, server, crashes, fails>>

Detach ==
  /\ AtAwait /\ deps # {} /\ deps' = {}
  /\ UNCHANGED <<journal, mem, disk, op, leases, server, crashes, fails>>

---------------------------------------------------------------------------
System ==
  \/ RecordPrior \/ Select \/ RecordArtifact \/ CreateArtifact \/ Archive \/ Commit
  \/ Guard \/ Remove \/ Restore \/ Finish \/ Mark
  \/ Start \/ Ready \/ \E k \in Keys : Recover(k)

Next ==
  \/ System \/ Crash \/ Detach
  \/ \E k \in Keys : Begin(k) \/ RequestUndo(k)
  \/ \E b \in Bots, door \in {"route", "card"} : Attach(b, door)

Spec == Init /\ [][Next]_vars
FairSpec == Spec /\ WF_vars(System)

---------------------------------------------------------------------------
(* Properties.                                                              *)

Settled(k) == server = "up" /\ op.key # k /\ ~Pending(k)
ArtsOf(k, m) == {x \in Arts : x[1] = k /\ x \in m[Kind(x)]}

\* An import that committed is whole, in memory and on disk; one that failed, was
\* recovered or was undone left nothing behind, whatever crashed or failed.
CrewIsWhole ==
  \A k \in Keys : Settled(k) =>
    \A m \in {mem, disk} :
      ArtsOf(k, m) = IF journal[k].state = "committed" THEN Recorded(k) ELSE {}

\* Nobody stays hidden without a replacing import that stands: a failed, recovered or
\* undone replacement gives every operator it hid back.
RosterIsBack ==
  (\A k \in Keys : Settled(k)) =>
    mem.hidden \cap mem.bot
      \subseteq UNION {journal[k].prior : k \in {j \in Keys : journal[j].state = "committed"}}

AllOrNothing == CrewIsWhole /\ RosterIsBack

\* No crew or cadence the routes accepted names an operator that an undo or a rollback
\* deleted, although the deletion awaits between its guards and its last operator.
NoOrphans == \A d \in deps : d[2] = "route" /\ server = "up" => d[1] \in mem.bot

\* A server that went down comes up again, except under an undo whose guard says no:
\* its recovery ends the process at every start.
BootEnds == (server = "down") ~> (server = "up" \/ \E k \in Keys : journal[k].state = "undoing" /\ InUse(k))

\* The refinement: a crash, a failed write or a repeated request never makes a second
\* crew for a key, takes a committed one back without an undo, or revives an undone one.
Crew == [k \in Keys |-> IF journal[k].state \in {"committed", "undoing", "undone"}
                        THEN journal[k].gen ELSE 0]
Retired == {k \in Keys : journal[k].state = "undone"}
Promise == INSTANCE AtomicImport WITH
  Crews <- 1..MaxGens, NoCrew <- 0, crew <- Crew, retired <- Retired
ImplementsAtomicImport == Promise!Spec

\* Every start comes up.
AlwaysBoots == (server = "down") ~> (server = "up")
===============================================================================

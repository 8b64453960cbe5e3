------------------------------- MODULE Erasure -------------------------------
(***************************************************************************)
(* Deleting one operator, or one of its runs, with the private data that    *)
(* goes with it: the order of writes in server/store.ts, and the journals   *)
(* of server/thread-erasure.ts and server/bot-workspace-erasure.ts, which    *)
(* the next start takes up.  A write is whole and durable, or it fails; a    *)
(* crash comes between any two of them.  A crew and its runs are deleted by  *)
(* the same calls, without the desk.                                        *)
(***************************************************************************)
EXTENDS Naturals, Sequences, FiniteSets

CONSTANTS
  Threads,   \* the runs the operator starts with
  MayFail,   \* what fails: a write of "journal", "desks", "roster" or "steps"; or "data", an erasure itself
  MaxFails,
  LateTurns  \* whether something is heard of a turn after its run was deleted

ASSUME ErasureAssumption ==
  /\ MayFail \subseteq {"journal", "desks", "roster", "steps", "data"}
  /\ MaxFails \in Nat /\ LateTurns \in BOOLEAN

\* The steps of a thread's erasure, in order.
Steps == <<"transcript", "attachments", "events", "decisions", "routines">>
Kinds == {"transcript", "attachments", "events", "decisions", "routines"}

VARIABLES
  server,  \* "down", "boot" (retrying what is pending) or "up"
  mem,     \* the runs the store names; none when the operator is deleted
  file,    \* ... that bots.json names
  plan,    \* thread -> its entry in the journal of erasures: its state, and the complete steps
  planFile,
  desk,    \* the workspace's entry: "none", "pending" or "complete"
  deskFile,
  left,    \* thread -> what there is of its private data
  folder,  \* whether the workspace exists
  at,      \* where the deletion in progress is
  batch,   \* its threads; those it has not purged, when at = "purge"
  job,     \* thread -> the steps its erasure has yet to try, and its "end"; {} without one
  late,    \* the threads with a turn
  fails

vars == <<server, mem, file, plan, planFile, desk, deskFile, left, folder, at, batch, job, late, fails>>
durable == <<file, planFile, deskFile, left, folder>>

Entries == [state : {"none", "pending", "complete"}, done : SUBSET Kinds]
TypeOK ==
  /\ server \in {"down", "boot", "up"} /\ mem \subseteq Threads /\ file \subseteq Threads
  /\ {plan, planFile} \subseteq [Threads -> Entries]
  /\ {desk, deskFile} \subseteq {"none", "pending", "complete"}
  /\ left \in [Threads -> SUBSET Kinds] /\ folder \in BOOLEAN
  /\ at \in {"idle", "journal", "desk", "roster", "purge", "clear"} /\ batch \subseteq Threads
  /\ job \in [Threads -> SUBSET (Kinds \cup {"end"})]
  /\ late \subseteq Threads /\ fails \in 0..MaxFails

Init ==
  /\ server = "up" /\ mem = Threads /\ file = Threads
  /\ plan = [t \in Threads |-> [state |-> "none", done |-> {}]] /\ planFile = plan /\ desk = "none" /\ deskFile = "none"
  /\ left = [t \in Threads |-> Kinds] /\ folder = TRUE
  /\ at = "idle" /\ batch = {} /\ job = [t \in Threads |-> {}] /\ late = {} /\ fails = 0

Fails(what) == what \in MayFail /\ fails < MaxFails /\ fails' = fails + 1

\* A write of value to a file that holds old, or its failure.
Written(what, f, value, old) == (f = value /\ UNCHANGED fails) \/ (f = old /\ Fails(what))

ToTry(e) == (Kinds \ e.done) \cup {"end"}

\* From a deletion's first write to the first await of its erasures nothing else
\* runs, and neither does from one await to the next.
Waits(t) == "decisions" \in job[t] /\ job[t] \subseteq {"decisions", "routines", "end"}
Held == at # "idle" \/ \E t \in Threads : job[t] # {} /\ ~Waits(t)
Serving == server = "up" /\ ~Held
-----------------------------------------------------------------------------
(* The deletion.                                                           *)

\* An operator keeps at least one run, and a run that has a turn.
DeleteTask(t) ==
  /\ Serving /\ t \in mem \ late /\ Cardinality(mem) > 1 /\ at' = "journal" /\ batch' = {t}
  /\ UNCHANGED <<server, mem, plan, desk, job, late, fails, durable>>

DeleteBot ==
  /\ Serving /\ mem # {} /\ at' = "journal" /\ batch' = mem
  /\ UNCHANGED <<server, mem, plan, desk, job, late, fails, durable>>

\* prepareMany: what is not in the journal is entered, in memory and then, by one
\* write, in the file; it throws when that fails.  Mutated form: it does not write.
Entered(e) == IF e.state = "none" THEN [e EXCEPT !.state = "pending"] ELSE e
Enter == plan' = [t \in Threads |-> IF t \in batch THEN Entered(plan[t]) ELSE plan[t]]
PrepareUnsaved ==
  /\ at = "journal" /\ Enter /\ at' = (IF batch = mem THEN "desk" ELSE "roster")
  /\ UNCHANGED <<server, mem, desk, job, batch, late, fails, durable>>
Prepare ==
  /\ at = "journal" /\ Enter
  /\ \/ /\ (IF plan' = plan THEN UNCHANGED planFile ELSE planFile' = plan')
        /\ at' = (IF batch = mem THEN "desk" ELSE "roster") /\ UNCHANGED <<batch, fails>>
     \/ plan' # plan /\ Fails("journal") /\ at' = "idle" /\ batch' = {} /\ UNCHANGED planFile
  /\ UNCHANGED <<server, mem, file, desk, deskFile, left, folder, job, late>>

\* BotWorkspaceErasureManager.prepare: a failed write is noted, and no more.
PrepareDesk ==
  /\ at = "desk" /\ at' = "roster"
  /\ IF desk # "none" THEN UNCHANGED <<desk, deskFile, fails>>
     ELSE desk' = "pending" /\ Written("desks", deskFile', "pending", deskFile)
  /\ UNCHANGED <<server, mem, file, plan, planFile, left, folder, batch, job, late>>

\* saveBots, the commit; when it fails the store goes on without the threads.
SaveBots ==
  /\ at = "roster" /\ mem' = mem \ batch
  /\ \/ file' = mem' /\ at' = "purge" /\ UNCHANGED <<batch, fails>>
     \/ Fails("roster") /\ at' = "idle" /\ batch' = {} /\ UNCHANGED file
  /\ UNCHANGED <<server, plan, planFile, desk, deskFile, left, folder, job, late>>

\* deletePreparedThreadRecord: the store's own purge, whose failure is swallowed,
\* and the erasure its listener starts.
Purge(t) ==
  /\ at = "purge" /\ t \in batch /\ batch' = batch \ {t}
  /\ \A u \in Threads : job[u] # {} => Waits(u)
  /\ \/ left' = [left EXCEPT ![t] = @ \ {"transcript"}] /\ UNCHANGED fails
     \/ Fails("data") /\ UNCHANGED left
  /\ job' = [job EXCEPT ![t] = IF plan[t].state = "pending" /\ @ = {} THEN ToTry(plan[t]) ELSE @]
  /\ UNCHANGED <<server, mem, file, plan, planFile, desk, deskFile, folder, at, late>>

Purged ==
  /\ at = "purge" /\ batch = {} /\ at' = (IF mem = {} THEN "clear" ELSE "idle")
  /\ UNCHANGED <<server, mem, plan, desk, batch, job, late, fails, durable>>

\* Any other change of the roster writes what memory holds.
SaveLater ==
  /\ Serving /\ file # mem /\ file' = mem
  /\ UNCHANGED <<server, mem, plan, planFile, desk, deskFile, left, folder, at, batch, job, late, fails>>
-----------------------------------------------------------------------------
(* The erasures.                                                           *)

\* ThreadErasureManager.save between two steps; its failure ends the erasure, and
\* at boot the server.
Saves(t, rest) ==
  \/ planFile' = plan' /\ job' = [job EXCEPT ![t] = rest] /\ UNCHANGED <<server, fails>>
  \/ /\ Fails("steps") /\ UNCHANGED planFile
     /\ IF server = "boot" THEN server' = "down" /\ job' = [u \in Threads |-> {}]
                           ELSE job' = [job EXCEPT ![t] = {}] /\ UNCHANGED server

\* One step of perform, and the write after it.  What fails stays pending, and the
\* next step is tried.
Perform(t) == \E i \in 1..5 : LET s == Steps[i] IN
  /\ s \in job[t] /\ \A j \in 1..(i - 1) : Steps[j] \notin job[t]
  /\ \/ /\ left' = [left EXCEPT ![t] = @ \ {s}] /\ plan' = [plan EXCEPT ![t].done = @ \cup {s}]
        /\ Saves(t, job[t] \ {s})
     \/ /\ Fails("data") /\ planFile' = plan /\ job' = [job EXCEPT ![t] = @ \ {s}]
        /\ UNCHANGED <<server, left, plan>>
  /\ UNCHANGED <<mem, file, desk, deskFile, folder, at, batch, late>>

\* ... and its end: the entry is complete when every step is.
Finish(t) ==
  /\ job[t] = {"end"}
  /\ plan' = [plan EXCEPT ![t].state = IF plan[t].done = Kinds THEN "complete" ELSE @]
  /\ Saves(t, {})
  /\ UNCHANGED <<mem, file, desk, deskFile, left, folder, at, batch, late>>

\* BotWorkspaceErasureManager.perform, for an operator the store no longer names.
ClearDesk ==
  IF desk # "pending" \/ mem # {} THEN UNCHANGED <<desk, deskFile, folder, fails>>
  ELSE \/ /\ folder' = FALSE /\ Written("desks", deskFile', "complete", deskFile)
          /\ desk' = (IF deskFile' = "complete" THEN "complete" ELSE "pending")
       \/ Fails("data") /\ deskFile' = desk /\ UNCHANGED <<folder, desk>>

Deleted ==
  /\ at = "clear" /\ at' = "idle" /\ ClearDesk
  /\ UNCHANGED <<server, mem, file, plan, planFile, left, batch, job, late>>

\* A turn starts; the last event of one, also of a deleted run, is written to its
\* log, and a failed setup to its transcript.
Turn(t) ==
  /\ Serving /\ t \in mem \ late /\ late' = late \cup {t}
  /\ UNCHANGED <<server, mem, plan, desk, at, batch, job, fails, durable>>
Ends(t) ==
  /\ Serving /\ t \in late /\ (t \in mem \/ LateTurns) /\ late' = late \ {t}
  /\ \E s \in {"events", "transcript"} : left' = [left EXCEPT ![t] = @ \cup {s}]
  /\ UNCHANGED <<server, mem, file, plan, planFile, desk, deskFile, folder, at, batch, job, fails>>
-----------------------------------------------------------------------------
(* Crash and restart.                                                      *)

Crash ==
  /\ server # "down" /\ server' = "down"
  /\ at' = "idle" /\ batch' = {} /\ job' = [t \in Threads |-> {}] /\ late' = {}
  /\ UNCHANGED <<mem, plan, desk, fails, durable>>

\* The journals are read, and what is pending is retried for what the roster no
\* longer names.  Mutated forms: for all; only in the life that deleted it.
Start(due) ==
  /\ server = "down" /\ server' = "boot" /\ mem' = file /\ plan' = planFile /\ desk' = deskFile
  /\ job' = [t \in Threads |-> IF t \in due /\ planFile[t].state = "pending" THEN ToTry(planFile[t]) ELSE {}]
  /\ UNCHANGED <<at, batch, late, fails, durable>>
BootAll  == Start(Threads)
BootOnly == Start({})
Boot     == Start(Threads \ file)

\* Then the workspace is, and the server answers requests.
Booted ==
  /\ server = "boot" /\ \A t \in Threads : job[t] = {}
  /\ server' = "up" /\ ClearDesk
  /\ UNCHANGED <<mem, file, plan, planFile, left, at, batch, job, late>>
-----------------------------------------------------------------------------
Deletes == DeleteBot \/ Prepare \/ PrepareDesk \/ SaveBots \/ Purged \/ Deleted \/ SaveLater
Next ==
  \/ Deletes \/ Crash \/ Boot \/ Booted
  \/ \E t \in Threads : DeleteTask(t) \/ Purge(t) \/ Perform(t) \/ Finish(t) \/ Turn(t) \/ Ends(t)

Spec == Init /\ [][Next]_vars

\* The server runs its code, is stopped now and then, and started again; some of
\* its lives are long enough.
FairSpec ==
  /\ Spec /\ WF_vars(Crash) /\ WF_vars(Boot) /\ SF_vars(Booted)
  /\ \A t \in Threads : SF_vars(Perform(t)) /\ SF_vars(Finish(t))
-----------------------------------------------------------------------------
(* What must hold.                                                         *)

\* "A crash can therefore leave either the still-live owner or a complete recovery
\* plan": a run bots.json no longer names is in the journal's file.
OwnerOrPlan == \A t \in Threads \ file : planFile[t].state # "none"

\* "A kill during deletion" never purges "a transcript whose bot/group record still
\* survives", and no surviving operator loses its desk.
OwnersKeepTheirs == (\A t \in file : left[t] = Kinds) /\ (file # {} => folder)

\* "Cleanup is pending and will retry after restart": what was deleted is erased at
\* last, and for good, with the workspace of a deleted operator.
DeletedIsErased ==
  /\ \A t \in Threads : t \notin file ~> [](left[t] = {})
  /\ file = {} ~> ~folder
=============================================================================

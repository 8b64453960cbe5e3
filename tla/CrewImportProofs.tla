--------------------------- MODULE CrewImportProofs ---------------------------
(* For any keys, plan, number of imports, crashes and failed writes: no route   *)
(* leaves an orphan, the journal keeps what the endpoints promise, and an import *)
(* is all or nothing unless a removal is lost while a failed import unwinds.    *)
EXTENDS CrewImport, TLAPS

\* An artifact is in a workspace: the memory's, or the files'.
In(x, w) == x \in w[Kind(x)]

\* The steps of the import's mutation, and those of a whole compensation.
Making == {"plan", "select", "record", "create", "archive"}
Compensating == {"rollback", "undo"}

\* What a generation has once its first n artifacts are created.
First(k, n) == {<<k, journal[k].gen, i>> : i \in 1..n}

RollsBack(k) == journal[k].state \in {"prepared", "rollback_failed"}

\* What an operation's phase says of the server and of its key's journal record.
PhaseShape ==
  /\ \A k \in Keys : journal[k].gen = 0 => journal[k].state = "absent"
  /\ \A k \in Keys : journal[k].state = "absent" => journal[k].done = 0
  /\ op.phase = "idle" => op = NoOp
  /\ op.phase # "idle" => op.key \in Keys /\ server # "down"
  /\ op.phase \in Making \cup {"unwind"} => server = "up" /\ journal[op.key].state = "prepared"
  /\ op.phase \in {"rollback", "mark"} => RollsBack(op.key)
  /\ op.phase \in {"guard", "undo"} => journal[op.key].state = "undoing"
  /\ op.phase = "guard" => server = "up"

\* What it says of the artifacts: the record runs ahead of the mutation by the one it
\* creates, and a compensation removes what the record names and memory still has.
MakingShape ==
  /\ op.phase \in {"plan", "select"} => journal[op.key].done = 0
  /\ op.phase = "plan" => journal[op.key].prior = {}
  /\ op.phase = "record" => journal[op.key].done < Len(Plan)
  /\ op.phase = "create" => journal[op.key].done > 0
  /\ op.phase \in Making =>
       op.made = First(op.key, IF op.phase = "create" THEN journal[op.key].done - 1
                                                      ELSE journal[op.key].done)
  /\ op.phase \in Compensating \cup {"archive"} => op.back \subseteq journal[op.key].prior
  /\ op.phase = "unwind" => op.left \subseteq Recorded(op.key)
  /\ op.phase \in Compensating => op.left = {x \in Recorded(op.key) : Alive(x)}

\* A recovery starts from the files, and a write that fails ends it.
BootShape == server = "boot" /\ op.phase # "mark" => mem = disk

Shape == TypeOK /\ PhaseShape /\ MakingShape /\ BootShape
-----------------------------------------------------------------------------
(* Artifacts and workspaces.                                                *)

Grown(w, x) == [w EXCEPT ![Kind(x)] = @ \cup {x}]
Shrunk(w, x) == [w EXCEPT ![Kind(x)] = @ \ {x}]

LEMMA ArtFacts ==
  /\ Len(Plan) \in Nat /\ Len(Plan) > 0 /\ \A i \in 1..Len(Plan) : Plan[i] \in Kinds
  /\ \A x \in Arts : /\ x[1] \in Keys /\ x[2] \in 1..MaxGens /\ x[3] \in 1..Len(Plan)
                     /\ x = <<x[1], x[2], x[3]>> /\ Kind(x) \in Kinds
                     /\ x \notin Olds /\ (x \in Bots <=> Kind(x) = "bot")
<1>1. Plan \in Seq(Kinds) /\ Len(Plan) > 0
  BY ImportAssumption
<1>2. Len(Plan) \in Nat /\ \A i \in 1..Len(Plan) : Plan[i] \in Kinds
  BY <1>1, SMT
<1>3. Arts \cap Olds = {}
  BY ImportAssumption DEF Arts
<1>4. ASSUME NEW x \in Arts
      PROVE  /\ x[1] \in Keys /\ x[2] \in 1..MaxGens /\ x[3] \in 1..Len(Plan)
             /\ x = <<x[1], x[2], x[3]>>
  BY DEF Arts
<1>5. \A x \in Arts : Kind(x) \in Kinds
  BY <1>2, <1>4 DEF Kind
<1>6. \A x \in Arts : x \notin Olds /\ (x \in Bots <=> Kind(x) = "bot")
  BY <1>3 DEF Bots
<1> QED BY <1>1, <1>2, <1>4, <1>5, <1>6

LEMMA GrownFacts ==
  ASSUME NEW w \in Workspace, NEW x \in Arts
  PROVE  /\ Grown(w, x) \in Workspace
         /\ \A y \in Arts : In(y, Grown(w, x)) <=> In(y, w) \/ y = x
         /\ Grown(w, x).hidden = w.hidden
         /\ Grown(w, x).bot = IF Kind(x) = "bot" THEN w.bot \cup {x} ELSE w.bot
<1>1. Kind(x) \in Kinds /\ (x \in Bots <=> Kind(x) = "bot")
  BY ArtFacts
<1>2. \A y \in Arts : Kind(y) \in Kinds
  BY ArtFacts
<1> DEFINE m == Grown(w, x)
<1>3. CASE Kind(x) = "bot"
  <2>1. m = [w EXCEPT !.bot = @ \cup {x}]
    BY <1>3 DEF Grown
  <2>2. m \in Workspace
    BY <1>1, <1>3, <2>1, SMT DEF Workspace
  <2> QED BY <1>1, <1>2, <1>3, <2>1, <2>2, SMT DEF In, Kinds, Workspace
<1>4. CASE Kind(x) = "group"
  <2>1. m = [w EXCEPT !.group = @ \cup {x}]
    BY <1>4 DEF Grown
  <2>2. m \in Workspace
    BY <1>1, <1>4, <2>1, SMT DEF Workspace
  <2> QED BY <1>1, <1>2, <1>4, <2>1, <2>2, SMT DEF In, Kinds, Workspace
<1>5. CASE Kind(x) = "routine"
  <2>1. m = [w EXCEPT !.routine = @ \cup {x}]
    BY <1>5 DEF Grown
  <2>2. m \in Workspace
    BY <1>1, <1>5, <2>1, SMT DEF Workspace
  <2> QED BY <1>1, <1>2, <1>5, <2>1, <2>2, SMT DEF In, Kinds, Workspace
<1> QED BY <1>1, <1>3, <1>4, <1>5 DEF Kinds

LEMMA ShrunkFacts ==
  ASSUME NEW w \in Workspace, NEW x \in Arts
  PROVE  /\ Shrunk(w, x) \in Workspace
         /\ \A y \in Arts : In(y, Shrunk(w, x)) <=> In(y, w) /\ y # x
         /\ Shrunk(w, x).hidden = w.hidden
         /\ Shrunk(w, x).bot = IF Kind(x) = "bot" THEN w.bot \ {x} ELSE w.bot
<1>1. Kind(x) \in Kinds /\ (x \in Bots <=> Kind(x) = "bot")
  BY ArtFacts
<1>2. \A y \in Arts : Kind(y) \in Kinds
  BY ArtFacts
<1> DEFINE m == Shrunk(w, x)
<1>3. CASE Kind(x) = "bot"
  <2>1. m = [w EXCEPT !.bot = @ \ {x}]
    BY <1>3 DEF Shrunk
  <2>2. m \in Workspace
    BY <1>1, <1>3, <2>1, SMT DEF Workspace
  <2> QED BY <1>1, <1>2, <1>3, <2>1, <2>2, SMT DEF In, Kinds, Workspace
<1>4. CASE Kind(x) = "group"
  <2>1. m = [w EXCEPT !.group = @ \ {x}]
    BY <1>4 DEF Shrunk
  <2>2. m \in Workspace
    BY <1>1, <1>4, <2>1, SMT DEF Workspace
  <2> QED BY <1>1, <1>2, <1>4, <2>1, <2>2, SMT DEF In, Kinds, Workspace
<1>5. CASE Kind(x) = "routine"
  <2>1. m = [w EXCEPT !.routine = @ \ {x}]
    BY <1>5 DEF Shrunk
  <2>2. m \in Workspace
    BY <1>1, <1>5, <2>1, SMT DEF Workspace
  <2> QED BY <1>1, <1>2, <1>5, <2>1, <2>2, SMT DEF In, Kinds, Workspace
<1> QED BY <1>1, <1>3, <1>4, <1>5 DEF Kinds

LEMMA SavedFacts ==
  ASSUME disk \in Workspace, NEW m \in Workspace, NEW kind \in Kinds
  PROVE  /\ Saved(kind, m) \in Workspace
         /\ \A y \in Arts : In(y, Saved(kind, m)) <=> IF Kind(y) = kind THEN In(y, m) ELSE In(y, disk)
         /\ Saved(kind, m).hidden = IF kind = "bot" THEN m.hidden ELSE disk.hidden
         /\ Saved(kind, m).bot = IF kind = "bot" THEN m.bot ELSE disk.bot
<1>1. \A y \in Arts : Kind(y) \in Kinds
  BY ArtFacts
<1> DEFINE d == Saved(kind, m)
<1>2. CASE kind = "bot"
  <2>1. PICK e : e = [disk EXCEPT !.bot = m.bot]
    OBVIOUS
  <2>2. e = [bot |-> m.bot, group |-> disk.group, routine |-> disk.routine, hidden |-> disk.hidden]
    BY <2>1, SMT DEF Workspace
  <2>3. d = [e EXCEPT !.hidden = m.hidden]
    BY <1>2, <2>1 DEF Saved
  <2>4. d = [bot |-> m.bot, group |-> disk.group, routine |-> disk.routine, hidden |-> m.hidden]
    BY <2>2, <2>3, SMT
  <2>5. d \in Workspace
    BY <2>4, SMT DEF Workspace
  <2> QED BY <1>1, <1>2, <2>4, <2>5, SMT DEF Workspace, In, Kinds
<1>3. CASE kind = "group"
  <2>1. d = [disk EXCEPT !.group = m.group]
    BY <1>3 DEF Saved
  <2>2. d \in Workspace
    BY <2>1, SMT DEF Workspace
  <2> QED BY <1>1, <1>3, <2>1, <2>2, SMT DEF Workspace, In, Kinds
<1>4. CASE kind = "routine"
  <2>1. d = [disk EXCEPT !.routine = m.routine]
    BY <1>4 DEF Saved
  <2>2. d \in Workspace
    BY <2>1, SMT DEF Workspace
  <2> QED BY <1>1, <1>4, <2>1, <2>2, SMT DEF Workspace, In, Kinds
<1> QED BY <1>2, <1>3, <1>4 DEF Kinds

LEMMA RecordedFacts ==
  ASSUME Shape, NEW k \in Keys
  PROVE  /\ Recorded(k) \subseteq Arts
         /\ \A x \in Arts : x \in Recorded(k) <=>
              x[1] = k /\ x[2] = journal[k].gen /\ x[3] <= journal[k].done
         /\ \A n \in Nat : n <= journal[k].done => First(k, n) \subseteq Recorded(k)
<1>1. journal[k].gen \in 0..MaxGens /\ journal[k].done \in 0..Len(Plan)
  BY DEF Shape, TypeOK
<1>2. journal[k].gen = 0 => journal[k].done = 0
  BY DEF Shape, PhaseShape
<1>3. Recorded(k) \subseteq Arts
  BY <1>1, <1>2, ArtFacts, ImportAssumption, SMT DEF Recorded, Arts
<1>4. \A x \in Arts : x \in Recorded(k) <=>
        x[1] = k /\ x[2] = journal[k].gen /\ x[3] <= journal[k].done
  BY <1>1, ArtFacts, SMT DEF Recorded
<1>5. \A n \in Nat : n <= journal[k].done => First(k, n) \subseteq Recorded(k)
  BY <1>1, SMT DEF First, Recorded
<1> QED BY <1>3, <1>4, <1>5
-----------------------------------------------------------------------------
(* Updates of the journal and of the operation.                             *)

Operations == [phase : Phases, key : Keys \cup {None}, made : SUBSET Arts, left : SUBSET Arts,
               back : SUBSET Bots]

\* A record updated at three or at two of its fields.
LEMMA UnwindFacts ==
  ASSUME TypeOK, Unwind
  PROVE  op' = [phase |-> "unwind", key |-> op.key, made |-> op.made,
                left |-> {x \in op.made : Alive(x)}, back |-> journal[op.key].prior]
<1> DEFINE L == {x \in op.made : Alive(x)}
<1> HIDE DEF L
<1>1. op \in Operations
  BY DEF TypeOK, Operations
<1>2. PICK o : o = [op EXCEPT !.phase = "unwind"]
  OBVIOUS
<1>3. o = [phase |-> "unwind", key |-> op.key, made |-> op.made, left |-> op.left, back |-> op.back]
  BY <1>1, <1>2, SMT DEF Operations
<1>4. PICK q : q = [o EXCEPT !.left = L]
  OBVIOUS
<1>5. q = [phase |-> "unwind", key |-> op.key, made |-> op.made, left |-> L, back |-> op.back]
  BY <1>3, <1>4, SMT
<1>6. op' = [q EXCEPT !.back = journal[op.key].prior]
  BY <1>2, <1>4 DEF Unwind, L
<1>7. op' = [phase |-> "unwind", key |-> op.key, made |-> op.made, left |-> L,
             back |-> journal[op.key].prior]
  BY <1>5, <1>6, SMT
<1> QED BY <1>7 DEF L

LEMMA CreatedFacts ==
  ASSUME TypeOK, NEW m, NEW p, NEW b
  PROVE  [op EXCEPT !.made = m, !.phase = p, !.back = b]
           = [phase |-> p, key |-> op.key, made |-> m, left |-> op.left, back |-> b]
<1>1. op \in Operations
  BY DEF TypeOK, Operations
<1>2. PICK o : o = [op EXCEPT !.made = m]
  OBVIOUS
<1>3. o = [phase |-> op.phase, key |-> op.key, made |-> m, left |-> op.left, back |-> op.back]
  BY <1>1, <1>2, SMT DEF Operations
<1>4. PICK q : q = [o EXCEPT !.phase = p]
  OBVIOUS
<1>5. q = [phase |-> p, key |-> op.key, made |-> m, left |-> op.left, back |-> op.back]
  BY <1>3, <1>4, SMT
<1>6. [op EXCEPT !.made = m, !.phase = p, !.back = b] = [q EXCEPT !.back = b]
  BY <1>2, <1>4
<1>7. [q EXCEPT !.back = b] = [phase |-> p, key |-> op.key, made |-> m, left |-> op.left, back |-> b]
  BY <1>5, SMT
<1> QED BY <1>6, <1>7

LEMMA AtFacts ==
  ASSUME TypeOK, NEW p \in Phases, At(p)
  PROVE  /\ op' \in Operations
         /\ op'.phase = p /\ op'.key = op.key /\ op'.made = op.made /\ op'.left = op.left
         /\ op'.back = op.back
<1>1. op' = [phase |-> p, key |-> op.key, made |-> op.made, left |-> op.left, back |-> op.back]
  BY SMT DEF TypeOK, At
<1> QED BY <1>1, SMT DEF TypeOK, Operations

LEMMA BackFacts ==
  ASSUME TypeOK, NEW b
  PROVE  [op EXCEPT !.back = b]
           = [phase |-> op.phase, key |-> op.key, made |-> op.made, left |-> op.left, back |-> b]
  BY SMT DEF TypeOK

LEMMA LeftFacts ==
  ASSUME TypeOK, NEW l
  PROVE  [op EXCEPT !.left = l]
           = [phase |-> op.phase, key |-> op.key, made |-> op.made, left |-> l, back |-> op.back]
  BY SMT DEF TypeOK

LEMMA BegunFacts ==
  ASSUME NEW p, NEW k
  PROVE  [NoOp EXCEPT !.phase = p, !.key = k]
           = [phase |-> p, key |-> k, made |-> {}, left |-> {}, back |-> {}]
<1>1. PICK o : o = [NoOp EXCEPT !.phase = p]
  OBVIOUS
<1>2. o = [phase |-> p, key |-> None, made |-> {}, left |-> {}, back |-> {}]
  BY <1>1, SMT DEF NoOp
<1>3. [NoOp EXCEPT !.phase = p, !.key = k] = [o EXCEPT !.key = k]
  BY <1>1
<1>4. [o EXCEPT !.key = k] = [phase |-> p, key |-> k, made |-> {}, left |-> {}, back |-> {}]
  BY <1>2, SMT
<1> QED BY <1>3, <1>4

Transactions == [state : States, gen : 0..MaxGens, done : 0..Len(Plan), prior : SUBSET Bots]

\* A transaction whose state changes keeps its generation, its artifacts and its roster.
LEMMA PutFacts ==
  ASSUME TypeOK, NEW k \in Keys, NEW s \in States, Put(k, s)
  PROVE  /\ journal' \in [Keys -> Transactions]
         /\ \A j \in Keys : /\ journal'[j].state = IF j = k THEN s ELSE journal[j].state
                            /\ journal'[j].gen = journal[j].gen
                            /\ journal'[j].done = journal[j].done
                            /\ journal'[j].prior = journal[j].prior
                            /\ Recorded(j)' = Recorded(j)
         /\ fails' = fails
<1>1. journal \in [Keys -> Transactions]
  BY DEF TypeOK, Transactions
<1>2. journal' = [journal EXCEPT ![k] = [journal[k] EXCEPT !.state = s]] /\ fails' = fails
  BY DEF Put
<1>3. PICK t : t = [journal[k] EXCEPT !.state = s]
  OBVIOUS
<1>4. t = [state |-> s, gen |-> journal[k].gen, done |-> journal[k].done, prior |-> journal[k].prior]
  BY <1>1, <1>3, SMT DEF Transactions
<1>5. t \in Transactions
  BY <1>1, <1>4, SMT DEF Transactions
<1>6. journal' = [journal EXCEPT ![k] = t]
  BY <1>2, <1>3
<1>7. journal' \in [Keys -> Transactions] /\ \A j \in Keys : journal'[j] = IF j = k THEN t ELSE journal[j]
  BY <1>1, <1>5, <1>6, SMT
<1>8. \A j \in Keys : journal'[j].gen = journal[j].gen /\ journal'[j].done = journal[j].done
  BY <1>4, <1>7, SMT
<1>9. \A j \in Keys : Recorded(j)' = Recorded(j)
  BY <1>8 DEF Recorded
<1> QED BY <1>2, <1>4, <1>7, <1>8, <1>9, SMT
-----------------------------------------------------------------------------
(* Types and shapes.  The ends that many steps have: nothing is under way any *)
(* more, a compensation begins, or the import's own catch.                  *)

LEMMA IdleShape ==
  ASSUME TypeOK', op' = NoOp, server' = "boot" => mem' = disk',
         \A k \in Keys : /\ journal'[k].gen = 0 => journal'[k].state = "absent"
                         /\ journal'[k].state = "absent" => journal'[k].done = 0
  PROVE  Shape'
  BY SMT DEF Shape, PhaseShape, MakingShape, BootShape, NoOp, Making, Compensating

LEMMA CompensateShape ==
  ASSUME Shape, NEW k \in Keys, NEW phase \in Compensating, Compensate(k, phase),
         UNCHANGED <<journal, deps, server, crashes>>, mem' \in Workspace, disk' \in Workspace,
         fails' \in 0..MaxFails, server # "down", server = "boot" => mem' = disk',
         phase = "rollback" => RollsBack(k), phase = "undo" => journal[k].state = "undoing"
  PROVE  Shape'
<1> DEFINE L == {x \in Recorded(k) : x \in mem'[Kind(x)]}
<1>1. op' = [phase |-> phase, key |-> k, made |-> {}, back |-> journal[k].prior, left |-> L]
  BY DEF Compensate
<1>2. Recorded(k) \subseteq Arts /\ L \subseteq Arts
  BY RecordedFacts
<1> HIDE DEF L
<1>3. op' \in Operations
  BY <1>1, <1>2, SMT DEF Operations, Shape, TypeOK, Phases, Compensating
<1>4. leases' \subseteq Keys
  BY DEF Compensate, Shape, TypeOK
<1>5. TypeOK'
  BY <1>3, <1>4, SMT DEF Operations, Shape, TypeOK
<1>6. PhaseShape'
  BY <1>1, SMT DEF Shape, PhaseShape, RollsBack, Making, Compensating
<1>7. L = {x \in Recorded(k)' : Alive(x)'}
  BY DEF L, Recorded, Alive, Kind
<1>8. MakingShape'
  BY <1>1, <1>7, SMT DEF MakingShape, Making, Compensating
<1>9. BootShape'
  BY DEF BootShape
<1> QED BY <1>5, <1>6, <1>8, <1>9 DEF Shape

LEMMA UnwindShape ==
  ASSUME Shape, Unwind, op.phase \in Making,
         UNCHANGED <<journal, deps, server, crashes>>, mem' \in Workspace, disk' \in Workspace,
         fails' \in 0..MaxFails
  PROVE  Shape'
<1> DEFINE L == {x \in op.made : Alive(x)}
<1>1. op' = [phase |-> "unwind", key |-> op.key, made |-> op.made, left |-> L,
             back |-> journal[op.key].prior]
  BY UnwindFacts DEF Shape
<1>2. op.key \in Keys /\ server = "up" /\ journal[op.key].state = "prepared"
  BY SMT DEF Shape, PhaseShape, Making
<1>3. L \subseteq Recorded(op.key) /\ Recorded(op.key) \subseteq Arts
  <2>1. journal[op.key].done \in Nat /\ (op.phase = "create" => journal[op.key].done > 0)
    BY <1>2, SMT DEF Shape, TypeOK, MakingShape
  <2>2. PICK n \in Nat : n <= journal[op.key].done /\ op.made = First(op.key, n)
    BY <2>1, SMT DEF Shape, MakingShape
  <2> QED BY <1>2, <2>2, RecordedFacts
<1> HIDE DEF L
<1>4. op' \in Operations
  BY <1>1, <1>2, <1>3, SMT DEF Operations, Shape, TypeOK, Phases
<1> leases' = leases
  BY DEF Unwind
<1>5. TypeOK'
  BY <1>4, SMT DEF Operations, Shape, TypeOK
<1>6. PhaseShape'
  BY <1>1, <1>2, SMT DEF Shape, PhaseShape, RollsBack, Making
<1>7. op'.left \subseteq {<<op'.key, journal'[op'.key].gen, i>> : i \in 1..journal'[op'.key].done}
  BY <1>1, <1>3 DEF Recorded
<1>10. MakingShape'
  BY <1>1, <1>7, SMT DEF MakingShape, Making, Compensating, Recorded
<1>11. BootShape'
  BY <1>2, SMT DEF BootShape
<1> QED BY <1>5, <1>6, <1>10, <1>11 DEF Shape
-----------------------------------------------------------------------------
LEMMA ShapeInit == Init => Shape
<1> SUFFICES ASSUME Init PROVE Shape
  OBVIOUS
<1>1. Olds \subseteq Bots
  BY DEF Bots
<1>2. TypeOK
  BY <1>1, ImportAssumption, ArtFacts, SMT
     DEF Init, TypeOK, Workspace, NoOp, States, Phases
<1>3. PhaseShape /\ MakingShape /\ BootShape
  BY SMT DEF Init, PhaseShape, MakingShape, BootShape, NoOp, Making, Compensating
<1> QED BY <1>2, <1>3 DEF Shape

LEMMA ShapeBegin == ASSUME Shape, NEW k \in Keys, Begin(k) PROVE Shape'
<1> DEFINE t == [state |-> "prepared", gen |-> journal[k].gen + 1, done |-> 0, prior |-> {}]
<1>1. journal[k].gen \in Nat /\ journal[k].gen < MaxGens
  BY ImportAssumption, SMT DEF Begin, Shape, TypeOK
<1>2. t \in Transactions
  BY <1>1, ImportAssumption, ArtFacts, SMT DEF Transactions, States
<1>3. journal' = [journal EXCEPT ![k] = t]
  BY DEF Begin
<1> HIDE DEF t
<1>4. journal' \in [Keys -> Transactions] /\ \A j \in Keys : journal'[j] = IF j = k THEN t ELSE journal[j]
  BY <1>2, <1>3, SMT DEF Shape, TypeOK, Transactions
<1>5. op' = [phase |-> "plan", key |-> k, made |-> {}, left |-> {}, back |-> {}]
  BY BegunFacts DEF Begin
<1>6. TypeOK'
  BY <1>4, <1>5, SMT DEF Begin, Shape, TypeOK, Transactions, Phases
<1>7. PhaseShape'
  BY <1>1, <1>4, <1>5, SMT DEF t, Begin, Shape, PhaseShape, Making
<1>8. MakingShape'
  BY <1>4, <1>5, SMT DEF t, MakingShape, Making, Compensating, First
<1>9. BootShape'
  BY SMT DEF Begin, BootShape
<1> QED BY <1>6, <1>7, <1>8, <1>9 DEF Shape

LEMMA ShapeRecordPrior == ASSUME Shape, RecordPrior PROVE Shape'
<1> PICK k \in Keys : k = op.key
  BY SMT DEF RecordPrior, Shape, PhaseShape
<1>1. /\ op.phase = "plan" /\ server = "up" /\ journal[k].state = "prepared"
      /\ UNCHANGED <<mem, disk, deps, server, crashes>>
  BY SMT DEF RecordPrior, Shape, PhaseShape, Making
<1>2. ASSUME NEW prior \in {{}, mem.bot \ mem.hidden},
             journal' = [journal EXCEPT ![op.key].prior = prior], At("select"), UNCHANGED <<leases, fails>>
      PROVE  Shape'
  <2>1. prior \subseteq Bots
    BY SMT DEF Shape, TypeOK, Workspace
  <2>2. PICK t : t = [journal[k] EXCEPT !.prior = prior]
    OBVIOUS
  <2>3. journal[k] \in Transactions
    BY SMT DEF Shape, TypeOK, Transactions
  <2>4. t = [state |-> journal[k].state, gen |-> journal[k].gen, done |-> journal[k].done, prior |-> prior]
    BY <2>2, <2>3, SMT DEF Transactions
  <2>5. t \in Transactions
    BY <2>1, <2>3, <2>4, SMT DEF Transactions
  <2>6. journal' = [journal EXCEPT ![k] = t]
    BY <1>2, <2>2
  <2>7. journal' \in [Keys -> Transactions] /\ \A j \in Keys : journal'[j] = IF j = k THEN t ELSE journal[j]
    BY <2>5, <2>6, SMT DEF Shape, TypeOK, Transactions
  <2>9. /\ op'.phase = "select" /\ op'.key = k /\ op'.made = op.made /\ op'.left = op.left
        /\ op'.back = op.back /\ op' \in Operations
    BY <1>2, AtFacts, "select" \in Phases DEF Shape, Phases
  <2>10. TypeOK'
    BY <1>1, <1>2, <2>7, <2>9, SMT DEF Shape, TypeOK, Transactions, Operations
  <2>11. PhaseShape'
    BY <1>1, <2>4, <2>7, <2>9, SMT DEF Shape, PhaseShape, Making
  <2>12. MakingShape'
    BY <1>1, <2>4, <2>7, <2>9, SMT DEF Shape, MakingShape, Making, Compensating, First
  <2> QED BY <1>1, <2>10, <2>11, <2>12, SMT DEF Shape, BootShape
<1>3. ASSUME Failed \/ UNCHANGED fails, Compensate(op.key, "rollback"), UNCHANGED journal
      PROVE  Shape'
  <2>1. fails' \in 0..MaxFails
    BY <1>3, ImportAssumption, SMT DEF Failed, Shape, TypeOK
  <2>2. mem \in Workspace /\ disk \in Workspace
    BY DEF Shape, TypeOK
  <2>3. Compensate(k, "rollback") /\ "rollback" \in Compensating
    BY <1>3 DEF Compensating
  <2> QED BY <1>1, <1>3, <2>1, <2>2, <2>3, CompensateShape, SMT DEF RollsBack
<1> QED BY <1>2, <1>3 DEF RecordPrior

LEMMA ShapeSelect == ASSUME Shape, Select PROVE Shape'
<1>1. /\ op.phase = "select" /\ op.key \in Keys /\ server = "up" /\ journal[op.key].state = "prepared"
      /\ mem \in Workspace /\ disk \in Workspace
      /\ UNCHANGED <<journal, mem, disk, deps, server, crashes, fails>>
  BY SMT DEF Select, Shape, PhaseShape, Making, TypeOK
<1>2. ASSUME At("record"), UNCHANGED leases PROVE Shape'
  <2>1. /\ op'.phase = "record" /\ op'.key = op.key /\ op'.made = op.made /\ op'.left = op.left
        /\ op'.back = op.back /\ op' \in Operations
    BY <1>2, AtFacts, "record" \in Phases DEF Shape, Phases
  <2>2. TypeOK'
    BY <1>1, <1>2, <2>1, SMT DEF Shape, TypeOK, Operations
  <2>3. PhaseShape'
    BY <1>1, <2>1, SMT DEF Shape, PhaseShape, Making
  <2>4. MakingShape'
    BY <1>1, <2>1, ArtFacts, SMT DEF Shape, MakingShape, Making, Compensating, First
  <2> QED BY <1>1, <2>2, <2>3, <2>4, SMT DEF Shape, BootShape
<1>3. ASSUME Unwind PROVE Shape'
  BY <1>1, <1>3, UnwindShape DEF Shape, TypeOK, Making
<1> QED BY <1>2, <1>3 DEF Select

LEMMA ShapeRecordArtifact == ASSUME Shape, RecordArtifact PROVE Shape'
<1> PICK k \in Keys : k = op.key
  BY SMT DEF RecordArtifact, Shape, PhaseShape
<1>1. /\ op.phase = "record" /\ server = "up" /\ journal[k].state = "prepared"
      /\ mem \in Workspace /\ disk \in Workspace
      /\ UNCHANGED <<mem, disk, deps, server, crashes>>
  BY SMT DEF RecordArtifact, Shape, PhaseShape, Making, TypeOK
<1>2. ASSUME journal' = [journal EXCEPT ![op.key].done = @ + 1], At("create"), UNCHANGED <<leases, fails>>
      PROVE  Shape'
  <2>1. PICK t : t = [journal[k] EXCEPT !.done = @ + 1]
    OBVIOUS
  <2>2. journal[k] \in Transactions
    BY SMT DEF Shape, TypeOK, Transactions
  <2>3. t = [state |-> journal[k].state, gen |-> journal[k].gen, done |-> journal[k].done + 1,
             prior |-> journal[k].prior]
    BY <2>1, <2>2, SMT DEF Transactions
  <2>4. journal[k].done < Len(Plan) /\ journal[k].done \in Nat
    BY <1>1, <2>2, ArtFacts, SMT DEF Shape, MakingShape, Transactions
  <2>5. t \in Transactions
    BY <2>2, <2>3, <2>4, ArtFacts, SMT DEF Transactions
  <2>6. journal' = [journal EXCEPT ![k] = t]
    BY <1>2, <2>1
  <2>7. journal' \in [Keys -> Transactions] /\ \A j \in Keys : journal'[j] = IF j = k THEN t ELSE journal[j]
    BY <2>5, <2>6, SMT DEF Shape, TypeOK, Transactions
  <2>9. /\ op'.phase = "create" /\ op'.key = k /\ op'.made = op.made /\ op'.left = op.left
        /\ op'.back = op.back /\ op' \in Operations
    BY <1>2, AtFacts, "create" \in Phases DEF Shape, Phases
  <2>8. UNCHANGED <<leases, fails>>
    BY <1>2
  <2>10. TypeOK'
    BY <1>1, <2>7, <2>8, <2>9, SMT DEF Shape, TypeOK, Transactions, Operations
  <2>11. PhaseShape'
    BY <1>1, <2>3, <2>7, <2>9, SMT DEF Shape, PhaseShape, Making
  <2>12. MakingShape'
    BY <1>1, <2>3, <2>4, <2>7, <2>9, SMT DEF Shape, MakingShape, Making, Compensating, First
  <2> QED BY <1>1, <2>10, <2>11, <2>12, SMT DEF Shape, BootShape
<1>3. ASSUME Failed, Unwind, UNCHANGED journal PROVE Shape'
  <2>1. fails' \in 0..MaxFails
    BY <1>3, ImportAssumption, SMT DEF Failed, Shape, TypeOK
  <2> QED BY <1>1, <1>3, <2>1, UnwindShape, "record" \in Making DEF Making
<1> QED BY <1>2, <1>3 DEF RecordArtifact

\* The artifact that is created, where memory and files go, and whether that worked.
LEMMA CreateFacts ==
  ASSUME Shape, CreateArtifact
  PROVE  \E k \in Keys, x \in Arts :
           /\ op.key = k /\ op.phase = "create" /\ server = "up" /\ journal[k].state = "prepared"
           /\ x = <<k, journal[k].gen, journal[k].done>> /\ x \in Recorded(k)
           /\ UNCHANGED <<journal, deps, server, crashes>>
           /\ mem' \in Workspace /\ disk' \in Workspace /\ fails' \in 0..MaxFails
           /\ \/ /\ mem' = Grown(mem, x) /\ disk' = Saved(Kind(x), Grown(mem, x)) /\ UNCHANGED <<leases, fails>>
                 /\ op' = [phase |-> IF journal[k].done = Len(Plan) THEN "archive" ELSE "record",
                           key |-> k, made |-> op.made \cup {x}, left |-> op.left,
                           back |-> IF journal[k].done = Len(Plan) THEN journal[k].prior ELSE {}]
              \/ /\ Unwind /\ fails' > 0
                 /\ \/ mem' = mem /\ disk' = disk
                    \/ mem' = Grown(mem, x) /\ disk' \in {disk, Saved(Kind(x), Grown(mem, x))}
<1>0. op.phase = "create"
  BY DEF CreateArtifact
<1> PICK k \in Keys : k = op.key
  BY <1>0, SMT DEF Shape, PhaseShape
<1> DEFINE n == journal[k].done
           x == <<k, journal[k].gen, n>>
<1> op.phase = "create" /\ UNCHANGED <<journal, deps, server, crashes>>
  BY DEF CreateArtifact
<1>1. /\ op.phase = "create" /\ server = "up" /\ journal[k].state = "prepared"
      /\ UNCHANGED <<journal, deps, server, crashes>>
  BY SMT DEF Shape, PhaseShape, Making
<1>2. n \in 1..Len(Plan) /\ journal[k].gen \in 1..MaxGens
  BY <1>1, ImportAssumption, ArtFacts, SMT DEF Shape, TypeOK, MakingShape, PhaseShape
<1>3. x \in Arts /\ Kind(x) = Plan[n] /\ x \in Recorded(k)
  BY <1>2 DEF Arts, Kind, Recorded
<1>4. Grown(mem, x) \in Workspace /\ Saved(Kind(x), Grown(mem, x)) \in Workspace
  BY <1>3, GrownFacts, SavedFacts, ArtFacts DEF Shape, TypeOK
<1>5. [mem EXCEPT ![Plan[n]] = @ \cup {x}] = Grown(mem, x)
  BY <1>3 DEF Grown
<1> HIDE DEF x
<1>6. CASE /\ Stored(Plan[n], Grown(mem, x)) /\ UNCHANGED leases
           /\ op' = [op EXCEPT !.made = @ \cup {x},
                               !.phase = IF n = Len(Plan) THEN "archive" ELSE "record",
                               !.back = IF n = Len(Plan) THEN journal[k].prior ELSE {}]
  <2>1. op' = [phase |-> IF n = Len(Plan) THEN "archive" ELSE "record",
               key |-> k, made |-> op.made \cup {x}, left |-> op.left,
               back |-> IF n = Len(Plan) THEN journal[k].prior ELSE {}]
    BY <1>6, CreatedFacts DEF Shape
  <2>2. mem' = Grown(mem, x) /\ disk' = Saved(Kind(x), Grown(mem, x)) /\ UNCHANGED <<leases, fails>>
    BY <1>3, <1>6 DEF Stored
  <2>3. fails' \in 0..MaxFails
    BY <2>2 DEF Shape, TypeOK
  <2> QED BY <1>1, <1>3, <1>4, <2>1, <2>2, <2>3 DEF x
<1>7. CASE /\ Failed /\ Unwind
           /\ IF Plan[n] = "routine" THEN UNCHANGED <<mem, disk>>
              ELSE mem' = Grown(mem, x) /\ disk' \in {disk, Saved(Plan[n], Grown(mem, x))}
  <2>1. fails' \in 0..MaxFails /\ fails' > 0
    BY <1>7, ImportAssumption, SMT DEF Failed, Shape, TypeOK
  <2>2. \/ mem' = mem /\ disk' = disk
        \/ mem' = Grown(mem, x) /\ disk' \in {disk, Saved(Kind(x), Grown(mem, x))}
    BY <1>3, <1>7
  <2>3. mem' \in Workspace /\ disk' \in Workspace
    BY <1>4, <2>2 DEF Shape, TypeOK
  <2> QED BY <1>1, <1>3, <1>7, <2>1, <2>2, <2>3 DEF x
<1> QED BY <1>5, <1>6, <1>7 DEF CreateArtifact, x

LEMMA ShapeCreateArtifact == ASSUME Shape, CreateArtifact PROVE Shape'
<1> PICK k \in Keys, x \in Arts :
           /\ op.key = k /\ op.phase = "create" /\ server = "up" /\ journal[k].state = "prepared"
           /\ x = <<k, journal[k].gen, journal[k].done>> /\ x \in Recorded(k)
           /\ UNCHANGED <<journal, deps, server, crashes>>
           /\ mem' \in Workspace /\ disk' \in Workspace /\ fails' \in 0..MaxFails
           /\ \/ /\ UNCHANGED <<leases, fails>>
                 /\ op' = [phase |-> IF journal[k].done = Len(Plan) THEN "archive" ELSE "record",
                           key |-> k, made |-> op.made \cup {x}, left |-> op.left,
                           back |-> IF journal[k].done = Len(Plan) THEN journal[k].prior ELSE {}]
              \/ Unwind
  BY CreateFacts
<1>1. CASE /\ UNCHANGED <<leases, fails>>
           /\ op' = [phase |-> IF journal[k].done = Len(Plan) THEN "archive" ELSE "record",
                     key |-> k, made |-> op.made \cup {x}, left |-> op.left,
                     back |-> IF journal[k].done = Len(Plan) THEN journal[k].prior ELSE {}]
  <2>1. journal[k] \in Transactions
    BY SMT DEF Shape, TypeOK, Transactions
  <2>2. op' \in Operations
    <3>1. /\ (IF journal[k].done = Len(Plan) THEN "archive" ELSE "record") \in Phases
          /\ (IF journal[k].done = Len(Plan) THEN journal[k].prior ELSE {}) \in SUBSET Bots
      BY <2>1, SMT DEF Phases, Transactions
    <3>2. PICK p \in Phases, b \in SUBSET Bots :
            op' = [phase |-> p, key |-> k, made |-> op.made \cup {x}, left |-> op.left, back |-> b]
      BY <1>1, <3>1
    <3>3. op.made \cup {x} \in SUBSET Arts /\ op.left \in SUBSET Arts
      BY SMT DEF Shape, TypeOK
    <3> QED BY <3>2, <3>3, SMT DEF Operations
  <2>3. TypeOK'
    BY <1>1, <2>2, SMT DEF Shape, TypeOK, Operations
  <2>4. PhaseShape'
    BY <1>1, SMT DEF Shape, PhaseShape, Making
  <2>5. journal[k].done \in 1..Len(Plan)
    BY <2>1, ArtFacts, SMT DEF Shape, MakingShape, Transactions
  <2>6. op.made \cup {x} = First(k, journal[k].done)
    BY <2>5, ArtFacts, SMT DEF Shape, MakingShape, First, Making
  <2>7. MakingShape'
    BY <1>1, <2>5, <2>6, ArtFacts, SMT DEF MakingShape, Making, Compensating, First
  <2> QED BY <2>3, <2>4, <2>7, SMT DEF Shape, BootShape
<1>2. CASE Unwind
  BY <1>2, UnwindShape DEF Making
<1> QED BY <1>1, <1>2

-----------------------------------------------------------------------------
(* The archived flags, and what follows a compensating step that throws.    *)

Rehidden(w, H) == [w EXCEPT !.hidden = H]

LEMMA RehiddenFacts ==
  ASSUME NEW w \in Workspace, NEW H \in SUBSET Bots
  PROVE  /\ Rehidden(w, H) \in Workspace
         /\ \A y \in Arts : In(y, Rehidden(w, H)) <=> In(y, w)
         /\ Rehidden(w, H).hidden = H /\ Rehidden(w, H).bot = w.bot
<1>1. \A y \in Arts : Kind(y) \in Kinds
  BY ArtFacts
<1>2. Rehidden(w, H) = [bot |-> w.bot, group |-> w.group, routine |-> w.routine, hidden |-> H]
  BY SMT DEF Rehidden, Workspace
<1>3. Rehidden(w, H) \in Workspace
  BY <1>2, SMT DEF Workspace
<1> QED BY <1>1, <1>2, <1>3, SMT DEF Workspace, In, Kinds

LEMMA ArchiveFacts ==
  ASSUME Shape, Archive
  PROVE  \E k \in Keys, b \in op.back, H \in SUBSET Bots :
           /\ op.key = k /\ op.phase = "archive" /\ server = "up" /\ journal[k].state = "prepared"
           /\ b \in journal[k].prior /\ mem.hidden \subseteq H /\ H \subseteq mem.hidden \cup {b}
           /\ UNCHANGED <<journal, deps, server, crashes>>
           /\ mem' = Rehidden(mem, H) /\ mem' \in Workspace /\ disk' \in Workspace
           /\ fails' \in 0..MaxFails
           /\ \/ /\ disk' = Saved("bot", Rehidden(mem, H)) /\ UNCHANGED <<leases, fails>>
                 /\ op' = [op EXCEPT !.back = @ \ {b}]
              \/ Unwind /\ disk' = disk /\ fails' > 0
<1>1. op.phase = "archive" /\ UNCHANGED <<journal, deps, server, crashes>>
  BY DEF Archive
<1>2. PICK k \in Keys : k = op.key
  BY <1>1, SMT DEF Shape, PhaseShape
<1>3. server = "up" /\ journal[k].state = "prepared"
  BY <1>1, <1>2, SMT DEF Shape, PhaseShape, Making
<1> DEFINE H(b) == IF b \in mem.bot THEN mem.hidden \cup {b} ELSE mem.hidden
<1>4. PICK b \in op.back :
        \/ /\ Stored("bot", [mem EXCEPT !.hidden = H(b)]) /\ UNCHANGED leases
           /\ op' = [op EXCEPT !.back = @ \ {b}]
        \/ Failed /\ Unwind /\ mem' = [mem EXCEPT !.hidden = H(b)] /\ UNCHANGED disk
  BY DEF Archive
<1>5. op.back \subseteq journal[k].prior
  BY <1>1, <1>2, SMT DEF Shape, MakingShape, Compensating
<1>6. H(b) \in SUBSET Bots /\ mem.hidden \subseteq H(b) /\ H(b) \subseteq mem.hidden \cup {b}
  BY <1>4, SMT DEF Shape, TypeOK, Workspace
<1>7. PICK G \in SUBSET Bots : G = H(b)
  BY <1>6
<1> HIDE DEF H
<1>8. mem' = Rehidden(mem, G) /\ disk' \in {disk, Saved("bot", Rehidden(mem, G))}
  BY <1>4, <1>7 DEF Stored, Rehidden
<1>9. mem' \in Workspace /\ disk' \in Workspace
  BY <1>8, RehiddenFacts, SavedFacts DEF Shape, TypeOK, Kinds
<1>10. \/ /\ disk' = Saved("bot", Rehidden(mem, G)) /\ UNCHANGED <<leases, fails>>
          /\ op' = [op EXCEPT !.back = @ \ {b}]
       \/ Unwind /\ disk' = disk /\ Failed
  BY <1>4, <1>7 DEF Stored, Rehidden
<1>11. fails' \in 0..MaxFails /\ (Failed => fails' > 0)
  BY <1>10, ImportAssumption, SMT DEF Failed, Shape, TypeOK
<1> QED BY <1>1, <1>2, <1>3, <1>5, <1>6, <1>7, <1>8, <1>9, <1>10, <1>11

LEMMA ShapeArchive == ASSUME Shape, Archive PROVE Shape'
<1> PICK k \in Keys, b \in op.back :
           /\ op.key = k /\ op.phase = "archive" /\ server = "up" /\ journal[k].state = "prepared"
           /\ UNCHANGED <<journal, deps, server, crashes>>
           /\ mem' \in Workspace /\ disk' \in Workspace /\ fails' \in 0..MaxFails
           /\ \/ UNCHANGED leases /\ op' = [op EXCEPT !.back = @ \ {b}]
              \/ Unwind
  BY ArchiveFacts
<1>1. CASE UNCHANGED leases /\ op' = [op EXCEPT !.back = @ \ {b}]
  <2>1. op' = [phase |-> "archive", key |-> k, made |-> op.made, left |-> op.left, back |-> op.back \ {b}]
    BY <1>1, BackFacts DEF Shape
  <2>2. TypeOK'
    BY <1>1, <2>1, SMT DEF Shape, TypeOK
  <2>3. PhaseShape'
    BY <2>1, SMT DEF Shape, PhaseShape, Making
  <2>4. MakingShape'
    BY <2>1, SMT DEF Shape, MakingShape, Making, Compensating, First
  <2> QED BY <2>2, <2>3, <2>4, SMT DEF Shape, BootShape
<1>2. CASE Unwind
  BY <1>2, UnwindShape DEF Making
<1> QED BY <1>1, <1>2

LEMMA ShapeCommit == ASSUME Shape, Commit PROVE Shape'
<1>1. /\ op.phase = "archive" /\ server = "up" /\ op.key \in Keys /\ journal[op.key].state = "prepared"
      /\ UNCHANGED <<mem, disk, deps, server, crashes>> /\ mem \in Workspace /\ disk \in Workspace
  BY SMT DEF Commit, Shape, PhaseShape, TypeOK, Making
<1> PICK k \in Keys : k = op.key
  BY <1>1
<1>2. ASSUME Put(op.key, "committed"), op' = NoOp, UNCHANGED leases PROVE Shape'
  <2>1. Put(k, "committed") /\ "committed" \in States
    BY <1>2 DEF States
  <2>2. TypeOK'
    BY <1>1, <1>2, <2>1, PutFacts, SMT DEF Shape, TypeOK, NoOp, Transactions, Phases
  <2> QED BY <1>1, <1>2, <2>1, <2>2, PutFacts, IdleShape, SMT DEF Shape, PhaseShape
<1>3. ASSUME Failed, UNCHANGED journal, Compensate(op.key, "rollback") PROVE Shape'
  <2>1. fails' \in 0..MaxFails
    BY <1>3, ImportAssumption, SMT DEF Failed, Shape, TypeOK
  <2>2. Compensate(k, "rollback") /\ "rollback" \in Compensating
    BY <1>3 DEF Compensating
  <2> QED BY <1>1, <1>3, <2>1, <2>2, CompensateShape, SMT DEF RollsBack
<1> QED BY <1>2, <1>3 DEF Commit

LEMMA ShapeRequestUndo == ASSUME Shape, NEW k \in Keys, RequestUndo(k) PROVE Shape'
<1>1. op' = [phase |-> "guard", key |-> k, made |-> {}, left |-> {}, back |-> {}]
  BY BegunFacts DEF RequestUndo
<1>2. /\ server = "up" /\ journal[k].state = "committed" /\ Put(k, "undoing") /\ "undoing" \in States
      /\ UNCHANGED <<mem, disk, leases, deps, server, crashes>>
  BY DEF RequestUndo, States
<1>3. TypeOK'
  BY <1>1, <1>2, PutFacts, SMT DEF Shape, TypeOK, Transactions, Phases
<1>4. PhaseShape'
  BY <1>1, <1>2, PutFacts, SMT DEF Shape, PhaseShape, Making
<1>5. MakingShape' /\ BootShape'
  BY <1>1, <1>2, SMT DEF MakingShape, BootShape, Making, Compensating
<1> QED BY <1>3, <1>4, <1>5 DEF Shape

LEMMA ShapeGuard == ASSUME Shape, Guard PROVE Shape'
<1>1. /\ op.phase = "guard" /\ server = "up" /\ op.key \in Keys /\ journal[op.key].state = "undoing"
      /\ UNCHANGED <<mem, disk, deps, server, crashes>> /\ mem \in Workspace /\ disk \in Workspace
  BY SMT DEF Guard, Shape, PhaseShape, TypeOK
<1> PICK k \in Keys : k = op.key
  BY <1>1
<1>2. ASSUME op' = NoOp, UNCHANGED leases, Put(op.key, "committed") \/ (Failed /\ UNCHANGED journal)
      PROVE  Shape'
  <2>1. CASE Put(op.key, "committed")
    <3>1. Put(k, "committed") /\ "committed" \in States
      BY <2>1 DEF States
    <3>2. TypeOK'
      BY <1>1, <1>2, <3>1, PutFacts, SMT DEF Shape, TypeOK, NoOp, Transactions, Phases
    <3> QED BY <1>1, <1>2, <3>1, <3>2, PutFacts, IdleShape, SMT DEF Shape, PhaseShape
  <2>2. CASE Failed /\ UNCHANGED journal
    <3>1. TypeOK'
      BY <1>1, <1>2, <2>2, ImportAssumption, SMT DEF Shape, TypeOK, NoOp, Phases, Failed
    <3> QED BY <1>1, <1>2, <2>2, <3>1, IdleShape, SMT DEF Shape, PhaseShape
  <2> QED BY <1>2, <2>1, <2>2
<1>3. ASSUME Compensate(op.key, "undo"), UNCHANGED <<journal, fails>> PROVE Shape'
  <2>1. Compensate(k, "undo") /\ "undo" \in Compensating /\ fails' \in 0..MaxFails
    BY <1>3 DEF Compensating, Shape, TypeOK
  <2> QED BY <1>1, <1>3, <2>1, CompensateShape, SMT
<1> QED BY <1>2, <1>3 DEF Guard

LEMMA BrokenFacts ==
  ASSUME Broken
  PROVE  /\ op.phase = "unwind" => Compensate(op.key, "rollback") /\ UNCHANGED server
         /\ op.phase = "rollback" => At("mark") /\ UNCHANGED <<leases, server>>
         /\ op.phase = "undo" => /\ op' = NoOp /\ UNCHANGED leases
                                 /\ server' = (IF server = "up" THEN "up" ELSE "down")
  BY DEF Broken, Fall, Answer, Die

LEMMA BrokenShape ==
  ASSUME Shape, Broken, op.phase \in Compensating \cup {"unwind"}, UNCHANGED <<journal, deps, crashes>>,
         mem' \in Workspace, disk' \in Workspace, fails' \in 0..MaxFails
  PROVE  Shape'
<1> PICK k \in Keys : k = op.key
  BY SMT DEF Shape, PhaseShape, Compensating
<1>1. CASE op.phase = "unwind"
  <2>1. /\ server = "up" /\ journal[k].state = "prepared" /\ Compensate(k, "rollback")
        /\ UNCHANGED server /\ "rollback" \in Compensating
    BY <1>1, BrokenFacts DEF Shape, PhaseShape, Compensating
  <2> QED BY <2>1, CompensateShape, SMT DEF RollsBack
<1>2. CASE op.phase = "rollback"
  <2>1. At("mark") /\ UNCHANGED <<leases, server>> /\ "mark" \in Phases
    BY <1>2, BrokenFacts DEF Phases
  <2>2. op'.phase = "mark" /\ op'.key = k /\ op' \in Operations
    BY <2>1, AtFacts DEF Shape
  <2>3. TypeOK'
    BY <2>1, <2>2, SMT DEF Shape, TypeOK, Operations
  <2>4. PhaseShape'
    BY <1>2, <2>1, <2>2, SMT DEF Shape, PhaseShape, Making, RollsBack
  <2>5. MakingShape' /\ BootShape'
    BY <2>2, SMT DEF MakingShape, BootShape, Making, Compensating
  <2> QED BY <2>3, <2>4, <2>5 DEF Shape
<1>3. CASE op.phase = "undo"
  <2>1. op' = NoOp /\ UNCHANGED leases /\ server' = (IF server = "up" THEN "up" ELSE "down")
    BY <1>3, BrokenFacts
  <2>2. TypeOK'
    BY <2>1, SMT DEF Shape, TypeOK, NoOp, Phases
  <2> QED BY <2>1, <2>2, IdleShape, SMT DEF Shape, PhaseShape
<1> QED BY <1>1, <1>2, <1>3 DEF Compensating

LEMMA RemoveFacts ==
  ASSUME Shape, Remove
  PROVE  \E k \in Keys, x \in op.left :
           /\ op.key = k /\ op.phase \in Compensating \cup {"unwind"}
           /\ x \in Arts /\ x \in Recorded(k) /\ \A y \in op.left : Rank(x) <= Rank(y)
           /\ UNCHANGED <<journal, deps, crashes>>
           /\ mem' \in Workspace /\ disk' \in Workspace /\ fails' \in 0..MaxFails
           /\ \/ /\ mem' = Shrunk(mem, x) /\ disk' = Saved(Kind(x), Shrunk(mem, x))
                 /\ UNCHANGED <<leases, server, fails>>
                 /\ op' = [phase |-> op.phase, key |-> k, made |-> op.made, left |-> op.left \ {x},
                           back |-> op.back]
              \/ mem' \in {mem, Shrunk(mem, x)} /\ disk' = disk /\ Broken /\ fails' = fails + 1
<1>1. /\ op.phase \in Compensating \cup {"unwind"} /\ UNCHANGED <<journal, deps, crashes>>
  BY DEF Remove, Compensating
<1>2. PICK k \in Keys : k = op.key
  BY <1>1, SMT DEF Shape, PhaseShape, Compensating
<1>3. PICK x \in op.left :
        /\ \A y \in op.left : Rank(x) <= Rank(y)
        /\ \/ /\ Stored(Kind(x), Shrunk(mem, x)) /\ op' = [op EXCEPT !.left = @ \ {x}]
              /\ UNCHANGED <<leases, server>>
           \/ /\ Failed /\ mem' \in (IF Kind(x) = "routine" THEN {mem} ELSE {mem, Shrunk(mem, x)})
              /\ UNCHANGED disk /\ Broken
  BY DEF Remove, Shrunk
<1>4. x \in Arts /\ x \in Recorded(k)
  <2>1. op.left \subseteq Recorded(k)
    BY <1>1, <1>2, SMT DEF Shape, MakingShape
  <2> QED BY <1>3, <2>1, RecordedFacts
<1>5. Shrunk(mem, x) \in Workspace /\ Saved(Kind(x), Shrunk(mem, x)) \in Workspace
  BY <1>4, ShrunkFacts, SavedFacts, ArtFacts DEF Shape, TypeOK
<1>6. CASE /\ Stored(Kind(x), Shrunk(mem, x)) /\ op' = [op EXCEPT !.left = @ \ {x}]
           /\ UNCHANGED <<leases, server>>
  <2>1. op' = [phase |-> op.phase, key |-> k, made |-> op.made, left |-> op.left \ {x}, back |-> op.back]
    BY <1>2, <1>6, LeftFacts DEF Shape
  <2>2. mem' = Shrunk(mem, x) /\ disk' = Saved(Kind(x), Shrunk(mem, x)) /\ UNCHANGED fails
    BY <1>6 DEF Stored
  <2>3. mem' \in Workspace /\ disk' \in Workspace /\ fails' \in 0..MaxFails
    BY <1>5, <2>2 DEF Shape, TypeOK
  <2> QED BY <1>1, <1>2, <1>3, <1>4, <1>6, <2>1, <2>2, <2>3
<1>7. CASE /\ Failed /\ mem' \in (IF Kind(x) = "routine" THEN {mem} ELSE {mem, Shrunk(mem, x)})
           /\ UNCHANGED disk /\ Broken
  <2>1. mem' \in {mem, Shrunk(mem, x)} /\ disk' = disk
    BY <1>7
  <2>2. mem' \in Workspace /\ disk' \in Workspace
    BY <1>5, <2>1 DEF Shape, TypeOK
  <2>3. fails' \in 0..MaxFails /\ fails' = fails + 1
    BY <1>7, ImportAssumption, SMT DEF Failed, Shape, TypeOK
  <2> QED BY <1>1, <1>2, <1>3, <1>4, <1>7, <2>1, <2>2, <2>3
<1> QED BY <1>3, <1>6, <1>7

\* A file written from memory agrees with it where the two agreed before.
LEMMA SavedWhole ==
  ASSUME mem = disk, mem \in Workspace, NEW x \in Arts
  PROVE  Saved(Kind(x), Shrunk(mem, x)) = Shrunk(mem, x)
<1>1. Kind(x) \in Kinds /\ Shrunk(mem, x) \in Workspace
  BY ArtFacts, ShrunkFacts
<1>2. CASE Kind(x) = "bot"
  <2>1. PICK e : e = [disk EXCEPT !.bot = Shrunk(mem, x).bot]
    OBVIOUS
  <2>2. Shrunk(mem, x) = [mem EXCEPT !.bot = @ \ {x}]
    BY <1>2 DEF Shrunk
  <2>3. Saved(Kind(x), Shrunk(mem, x)) = [e EXCEPT !.hidden = Shrunk(mem, x).hidden]
    BY <1>2, <2>1 DEF Saved
  <2>4. e = [bot |-> Shrunk(mem, x).bot, group |-> disk.group, routine |-> disk.routine, hidden |-> disk.hidden]
    BY <2>1, SMT DEF Workspace
  <2> QED BY <2>2, <2>3, <2>4, SMT DEF Workspace
<1>3. CASE Kind(x) = "group"
  <2>1. Shrunk(mem, x) = [mem EXCEPT !.group = @ \ {x}]
    BY <1>3 DEF Shrunk
  <2>2. Saved(Kind(x), Shrunk(mem, x)) = [disk EXCEPT !.group = Shrunk(mem, x).group]
    BY <1>3 DEF Saved
  <2> QED BY <2>1, <2>2, SMT DEF Workspace
<1>4. CASE Kind(x) = "routine"
  <2>1. Shrunk(mem, x) = [mem EXCEPT !.routine = @ \ {x}]
    BY <1>4 DEF Shrunk
  <2>2. Saved(Kind(x), Shrunk(mem, x)) = [disk EXCEPT !.routine = Shrunk(mem, x).routine]
    BY <1>4 DEF Saved
  <2> QED BY <2>1, <2>2, SMT DEF Workspace
<1> QED BY <1>1, <1>2, <1>3, <1>4 DEF Kinds

LEMMA ShapeRemove == ASSUME Shape, Remove PROVE Shape'
<1>1. PICK k \in Keys, x \in op.left :
           /\ op.key = k /\ op.phase \in Compensating \cup {"unwind"}
           /\ x \in Arts /\ x \in Recorded(k)
           /\ UNCHANGED <<journal, deps, crashes>>
           /\ mem' \in Workspace /\ disk' \in Workspace /\ fails' \in 0..MaxFails
           /\ \/ /\ mem' = Shrunk(mem, x) /\ disk' = Saved(Kind(x), Shrunk(mem, x))
                 /\ UNCHANGED <<leases, server, fails>>
                 /\ op' = [phase |-> op.phase, key |-> k, made |-> op.made, left |-> op.left \ {x},
                           back |-> op.back]
              \/ Broken
  BY RemoveFacts
<1>2. CASE /\ mem' = Shrunk(mem, x) /\ disk' = Saved(Kind(x), Shrunk(mem, x))
           /\ UNCHANGED <<leases, server, fails>>
           /\ op' = [phase |-> op.phase, key |-> k, made |-> op.made, left |-> op.left \ {x},
                     back |-> op.back]
  <2>1. TypeOK'
    BY <1>1, <1>2, SMT DEF Shape, TypeOK
  <2>2. PhaseShape'
    BY <1>1, <1>2, SMT DEF Shape, PhaseShape, NoOp, RollsBack, Compensating, Making
  <2>3. Recorded(k) = {<<k, journal'[k].gen, i>> : i \in 1..journal'[k].done}
    BY <1>1 DEF Recorded
  <2>4. op.phase = "unwind" => op.left \ {x} \subseteq Recorded(k)
    BY <1>1, SMT DEF Shape, MakingShape
  <2>5. op.phase \in Compensating => op.left \ {x} = {y \in Recorded(k) : y \in mem'[Kind(y)]}
    <3>1. op.phase \in Compensating => op.left = {y \in Recorded(k) : In(y, mem)}
      BY <1>1, SMT DEF Shape, MakingShape, Alive, In
    <3>2. \A y \in Recorded(k) : In(y, mem') <=> In(y, mem) /\ y # x
      BY <1>1, <1>2, ShrunkFacts, RecordedFacts DEF Shape, TypeOK
    <3> QED BY <3>1, <3>2 DEF In
  <2>6. MakingShape'
    BY <1>1, <1>2, <2>3, <2>4, <2>5, SMT
    DEF Shape, MakingShape, Making, Compensating, Recorded, Alive, Kind
  <2>7. BootShape'
    BY <1>1, <1>2, SavedWhole, SMT DEF Shape, TypeOK, BootShape
  <2> QED BY <2>1, <2>2, <2>6, <2>7 DEF Shape
<1>3. CASE Broken
  BY <1>1, <1>3, BrokenShape
<1> QED BY <1>1, <1>2, <1>3

LEMMA RestoreFacts ==
  ASSUME Shape, Restore
  PROVE  \E k \in Keys, b \in op.back, H \in SUBSET Bots :
           /\ op.key = k /\ op.phase \in Compensating \cup {"unwind"} /\ op.left = {}
           /\ H = mem.hidden \ {b}
           /\ UNCHANGED <<journal, deps, crashes>>
           /\ mem' \in Workspace /\ disk' \in Workspace /\ fails' \in 0..MaxFails
           /\ \/ /\ \/ mem' = Rehidden(mem, H) /\ disk' = Saved("bot", Rehidden(mem, H))
                    \/ b \notin mem.bot /\ mem' = mem /\ disk' = disk
                 /\ UNCHANGED <<leases, server, fails>>
                 /\ op' = [phase |-> op.phase, key |-> k, made |-> op.made, left |-> {},
                           back |-> op.back \ {b}]
              \/ mem' = Rehidden(mem, H) /\ disk' = disk /\ Broken
<1>1. /\ op.phase \in Compensating \cup {"unwind"} /\ UNCHANGED <<journal, deps, crashes>>
      /\ op.left = {}
  BY DEF Restore, Compensating
<1>2. PICK k \in Keys : k = op.key
  BY <1>1, SMT DEF Shape, PhaseShape, Compensating
<1>3. PICK b \in op.back :
        \/ /\ b \in mem.bot /\ Stored("bot", Rehidden(mem, mem.hidden \ {b}))
           /\ op' = [op EXCEPT !.back = @ \ {b}] /\ UNCHANGED <<leases, server>>
        \/ /\ b \notin mem.bot /\ UNCHANGED <<mem, disk, fails>>
           /\ op' = [op EXCEPT !.back = @ \ {b}] /\ UNCHANGED <<leases, server>>
        \/ Failed /\ mem' = Rehidden(mem, mem.hidden \ {b}) /\ UNCHANGED disk /\ Broken
  BY DEF Restore, Rehidden
<1> mem.hidden \ {b} \in SUBSET Bots
  BY SMT DEF Shape, TypeOK, Workspace
<1>4. PICK H \in SUBSET Bots : H = mem.hidden \ {b}
  OBVIOUS
<1>5. Rehidden(mem, H) \in Workspace /\ Saved("bot", Rehidden(mem, H)) \in Workspace
  BY RehiddenFacts, SavedFacts DEF Shape, TypeOK, Kinds
<1>6. [op EXCEPT !.back = @ \ {b}]
        = [phase |-> op.phase, key |-> k, made |-> op.made, left |-> {}, back |-> op.back \ {b}]
  BY <1>1, <1>2, BackFacts DEF Shape
<1>7. /\ mem \in Workspace /\ disk \in Workspace /\ fails \in 0..MaxFails
      /\ Failed => fails' \in 0..MaxFails
  BY ImportAssumption, SMT DEF Failed, Shape, TypeOK
<1>8. CASE b \in mem.bot /\ Stored("bot", Rehidden(mem, H))
           /\ op' = [op EXCEPT !.back = @ \ {b}] /\ UNCHANGED <<leases, server>>
  BY <1>1, <1>2, <1>3, <1>4, <1>5, <1>6, <1>7, <1>8 DEF Stored
<1>9. CASE /\ b \notin mem.bot /\ UNCHANGED <<mem, disk, fails>>
           /\ op' = [op EXCEPT !.back = @ \ {b}] /\ UNCHANGED <<leases, server>>
  BY <1>1, <1>2, <1>3, <1>4, <1>6, <1>7, <1>9
<1>10. CASE Failed /\ mem' = Rehidden(mem, H) /\ UNCHANGED disk /\ Broken
  BY <1>1, <1>2, <1>3, <1>4, <1>5, <1>7, <1>10
<1> QED BY <1>3, <1>4, <1>8, <1>9, <1>10

LEMMA RestoredWhole ==
  ASSUME mem = disk, mem \in Workspace, NEW H \in SUBSET Bots
  PROVE  Saved("bot", Rehidden(mem, H)) = Rehidden(mem, H)
<1>1. PICK e : e = [disk EXCEPT !.bot = Rehidden(mem, H).bot]
  OBVIOUS
<1>2. Saved("bot", Rehidden(mem, H)) = [e EXCEPT !.hidden = Rehidden(mem, H).hidden]
  BY <1>1 DEF Saved
<1>3. Rehidden(mem, H) = [bot |-> mem.bot, group |-> mem.group, routine |-> mem.routine, hidden |-> H]
  BY SMT DEF Rehidden, Workspace
<1>4. e = [bot |-> mem.bot, group |-> disk.group, routine |-> disk.routine, hidden |-> disk.hidden]
  BY <1>1, <1>3, SMT DEF Workspace
<1> QED BY <1>2, <1>3, <1>4, SMT DEF Workspace

LEMMA ShapeRestore == ASSUME Shape, Restore PROVE Shape'
<1>1. PICK k \in Keys, b \in op.back, H \in SUBSET Bots :
           /\ op.key = k /\ op.phase \in Compensating \cup {"unwind"} /\ op.left = {}
           /\ UNCHANGED <<journal, deps, crashes>>
           /\ mem' \in Workspace /\ disk' \in Workspace /\ fails' \in 0..MaxFails
           /\ \/ /\ \/ mem' = Rehidden(mem, H) /\ disk' = Saved("bot", Rehidden(mem, H))
                    \/ mem' = mem /\ disk' = disk
                 /\ UNCHANGED <<leases, server, fails>>
                 /\ op' = [phase |-> op.phase, key |-> k, made |-> op.made, left |-> {},
                           back |-> op.back \ {b}]
              \/ Broken
  BY RestoreFacts
<1>2. CASE /\ \/ mem' = Rehidden(mem, H) /\ disk' = Saved("bot", Rehidden(mem, H))
              \/ mem' = mem /\ disk' = disk
           /\ UNCHANGED <<leases, server, fails>>
           /\ op' = [phase |-> op.phase, key |-> k, made |-> op.made, left |-> {},
                     back |-> op.back \ {b}]
  <2>1. TypeOK'
    BY <1>1, <1>2, SMT DEF Shape, TypeOK
  <2>2. PhaseShape'
    BY <1>1, <1>2, SMT DEF Shape, PhaseShape, NoOp, RollsBack, Compensating, Making
  <2>3. Recorded(k) = {<<k, journal'[k].gen, i>> : i \in 1..journal'[k].done}
    BY <1>1 DEF Recorded
  <2>4. op.phase \in Compensating => {} = {y \in Recorded(k) : y \in mem'[Kind(y)]}
    <3>1. op.phase \in Compensating => op.left = {y \in Recorded(k) : In(y, mem)}
      BY <1>1, SMT DEF Shape, MakingShape, Alive, In
    <3>2. \A y \in Recorded(k) : In(y, mem') <=> In(y, mem)
      BY <1>2, RehiddenFacts, RecordedFacts DEF Shape, TypeOK
    <3> QED BY <1>1, <3>1, <3>2 DEF In
  <2>5. op.phase \in Compensating => op.back \ {b} \subseteq journal'[k].prior
    BY <1>1, SMT DEF Shape, MakingShape
  <2>6. MakingShape'
    BY <1>1, <1>2, <2>3, <2>4, <2>5, SMT
    DEF MakingShape, Making, Compensating, Recorded, Alive, Kind
  <2>7. BootShape'
    BY <1>1, <1>2, RestoredWhole, SMT DEF Shape, TypeOK, BootShape
  <2> QED BY <2>1, <2>2, <2>6, <2>7 DEF Shape
<1>3. CASE Broken
  BY <1>1, <1>3, BrokenShape
<1> QED BY <1>1, <1>2, <1>3

LEMMA ShapeFinish == ASSUME Shape, Finish PROVE Shape'
<1> /\ op.phase \in Compensating \cup {"unwind"} /\ op.left = {} /\ op.back = {}
    /\ UNCHANGED <<mem, disk, deps, crashes>>
  BY DEF Finish, Compensating
<1>1. /\ op.phase \in Compensating \cup {"unwind"} /\ op.left = {} /\ op.back = {}
      /\ UNCHANGED <<mem, disk, deps, crashes>> /\ mem \in Workspace /\ disk \in Workspace
      /\ fails \in 0..MaxFails
  BY DEF Shape, TypeOK
<1> PICK k \in Keys : k = op.key
  BY <1>1, SMT DEF Shape, PhaseShape, Compensating
<1>2. CASE op.phase = "unwind"
  <2>1. Compensate(k, "rollback") /\ UNCHANGED <<journal, server, fails>> /\ "rollback" \in Compensating
    BY <1>2 DEF Finish, Compensating
  <2>2. server = "up" /\ journal[k].state = "prepared"
    BY <1>2, SMT DEF Shape, PhaseShape
  <2> QED BY <1>1, <2>1, <2>2, CompensateShape, SMT DEF RollsBack
<1>3. CASE op.phase # "unwind"
  <2> DEFINE s == IF op.phase = "undo" THEN "undone" ELSE "rolled_back"
  <2>1. leases' = leases \ {k} /\ s \in States
    BY <1>3 DEF Finish, States
  <2>2. CASE Put(k, s) /\ Answer
    <3>1. op' = NoOp /\ server' = server
      BY <2>2 DEF Answer
    <3>2. TypeOK'
      BY <1>1, <2>1, <2>2, <3>1, PutFacts, SMT DEF Shape, TypeOK, NoOp, Transactions, Phases
    <3>3. server = "boot" => mem = disk
      BY <1>1, SMT DEF Shape, BootShape, Compensating
    <3>4. journal[k].state # "absent" /\ s # "absent"
      BY <1>1, <1>3, SMT DEF Shape, PhaseShape, RollsBack, Compensating
    <3>5. \A j \in Keys : /\ journal'[j].gen = 0 => journal'[j].state = "absent"
                          /\ journal'[j].state = "absent" => journal'[j].done = 0
      BY <2>1, <2>2, <3>4, PutFacts, SMT DEF Shape, PhaseShape
    <3> QED BY <1>1, <3>1, <3>2, <3>3, <3>5, IdleShape, SMT
  <2>3. CASE Failed /\ UNCHANGED journal /\ At("mark") /\ UNCHANGED server /\ op.phase = "rollback"
    <3>1. op'.phase = "mark" /\ op'.key = k /\ op' \in Operations
      BY <2>3, AtFacts, "mark" \in Phases DEF Shape, Phases
    <3>2. TypeOK'
      BY <1>1, <2>1, <2>3, <3>1, ImportAssumption, SMT DEF Shape, TypeOK, Operations, Failed
    <3>3. PhaseShape'
      BY <2>3, <3>1, SMT DEF Shape, PhaseShape, Making, RollsBack
    <3>4. MakingShape' /\ BootShape'
      BY <3>1, SMT DEF MakingShape, BootShape, Making, Compensating
    <3> QED BY <3>2, <3>3, <3>4 DEF Shape
  <2>4. CASE Failed /\ UNCHANGED journal /\ Fall
    <3>1. op' = NoOp /\ server' = (IF server = "up" THEN "up" ELSE "down")
      BY <2>4 DEF Fall, Answer, Die
    <3>2. TypeOK'
      BY <1>1, <2>1, <2>4, <3>1, ImportAssumption, SMT DEF Shape, TypeOK, NoOp, Phases, Failed
    <3> QED BY <2>4, <3>1, <3>2, IdleShape, SMT DEF Shape, PhaseShape
  <2> QED BY <1>3, <2>2, <2>3, <2>4 DEF Finish
<1> QED BY <1>2, <1>3

LEMMA ShapeMark == ASSUME Shape, Mark PROVE Shape'
<1>1. /\ op.phase = "mark" /\ UNCHANGED <<mem, disk, leases, deps, crashes>>
      /\ op' = NoOp /\ server' = (IF server = "up" THEN "up" ELSE "down")
  BY DEF Mark, Fall, Answer, Die
<1> PICK k \in Keys : k = op.key
  BY <1>1, SMT DEF Shape, PhaseShape
<1>2. CASE Put(op.key, "rollback_failed")
  <2>1. Put(k, "rollback_failed") /\ "rollback_failed" \in States
    BY <1>2 DEF States
  <2>2. TypeOK'
    BY <1>1, <2>1, PutFacts, SMT DEF Shape, TypeOK, NoOp, Transactions, Phases
  <2>3. journal[k].state # "absent"
    BY <1>1, SMT DEF Shape, PhaseShape, RollsBack
  <2> QED BY <1>1, <2>1, <2>2, <2>3, PutFacts, IdleShape, SMT DEF Shape, PhaseShape
<1>3. CASE Failed /\ UNCHANGED journal
  <2>1. TypeOK'
    BY <1>1, <1>3, ImportAssumption, SMT DEF Shape, TypeOK, NoOp, Phases, Failed
  <2> QED BY <1>1, <1>3, <2>1, IdleShape, SMT DEF Shape, PhaseShape
<1> QED BY <1>2, <1>3 DEF Mark

LEMMA ShapeRecover == ASSUME Shape, NEW k \in Keys, Recover(k) PROVE Shape'
<1>1. /\ server = "boot" /\ op = NoOp /\ Pending(k) /\ mem = disk
      /\ UNCHANGED <<journal, mem, disk, deps, crashes, fails>>
      /\ mem \in Workspace /\ disk \in Workspace /\ fails \in 0..MaxFails
  BY SMT DEF Recover, Shape, BootShape, NoOp, TypeOK
<1>2. CASE journal[k].state # "undoing" /\ Compensate(k, "rollback") /\ UNCHANGED server
  <2>1. RollsBack(k) /\ "rollback" \in Compensating
    BY <1>1, <1>2, SMT DEF RollsBack, Pending, Compensating
  <2> QED BY <1>1, <1>2, <2>1, CompensateShape, SMT
<1>3. CASE Die /\ UNCHANGED leases
  <2>1. op' = NoOp /\ server' = "down"
    BY <1>3 DEF Die
  <2>2. TypeOK'
    BY <1>1, <1>3, <2>1, SMT DEF Shape, TypeOK, NoOp, Phases
  <2> QED BY <1>1, <2>1, <2>2, IdleShape, SMT DEF Shape, PhaseShape
<1>4. CASE journal[k].state = "undoing" /\ Compensate(k, "undo") /\ UNCHANGED server
  BY <1>1, <1>4, CompensateShape, "undo" \in Compensating, SMT DEF Compensating
<1> QED BY <1>2, <1>3, <1>4 DEF Recover

LEMMA ShapeServer == ASSUME Shape, Crash \/ Start \/ Ready PROVE Shape'
<1>1. op' = NoOp
  BY SMT DEF Shape, PhaseShape, Crash, Start, Ready, NoOp
<1>2. TypeOK'
  BY <1>1, ImportAssumption, SMT DEF Shape, TypeOK, NoOp, Phases, Crash, Start, Ready
<1>3. UNCHANGED journal /\ (server' = "boot" => mem' = disk')
  BY SMT DEF Crash, Start, Ready
<1> QED BY <1>1, <1>2, <1>3, IdleShape, SMT DEF Shape, PhaseShape

LEMMA ShapeUsers ==
  ASSUME Shape, Detach \/ \E b \in Bots, door \in {"route", "card"} : Attach(b, door)
  PROVE  Shape'
<1>1. UNCHANGED <<journal, mem, disk, op, leases, server, crashes, fails>>
  BY DEF Detach, Attach
<1>2. deps' \subseteq Bots \X {"route", "card"}
  BY DEF Detach, Attach
<1>3. TypeOK'
  BY <1>1, <1>2, SMT DEF Shape, TypeOK
<1>4. PhaseShape'
  BY <1>1, SMT DEF Shape, PhaseShape, RollsBack, NoOp
<1>5. MakingShape'
  BY <1>1 DEF Shape, MakingShape, Recorded, First, Alive, Kind
<1>6. BootShape'
  BY <1>1 DEF Shape, BootShape
<1> QED BY <1>3, <1>4, <1>5, <1>6 DEF Shape

LEMMA ShapeStep == Shape /\ [Next]_vars => Shape'
<1> SUFFICES ASSUME Shape, [Next]_vars PROVE Shape'
  OBVIOUS
<1>1. CASE UNCHANGED vars
  BY <1>1, SMT DEF vars, Shape, TypeOK, PhaseShape, MakingShape, BootShape, RollsBack, Recorded,
                   First, Alive, Kind, NoOp
<1> QED BY <1>1, ShapeBegin, ShapeRecordPrior, ShapeSelect, ShapeRecordArtifact, ShapeCreateArtifact,
           ShapeArchive, ShapeCommit, ShapeRequestUndo, ShapeGuard, ShapeRemove, ShapeRestore,
           ShapeFinish, ShapeMark, ShapeRecover, ShapeServer, ShapeUsers DEF Next, System

\* Every operation is in the phase its journal record allows: what an interrupted,
\* failed or repeated import may find (crew-import-transactions.ts, TypeOK).
THEOREM ShapeInvariant == Spec => []Shape
<1> QED BY ShapeInit, ShapeStep, PTL DEF Spec

\* The variables keep their types.
THEOREM TypeCorrect == Spec => []TypeOK
<1>1. Shape => TypeOK
  BY DEF Shape
<1> QED BY <1>1, ShapeInvariant, PTL

-----------------------------------------------------------------------------
(* What the import endpoints promise of a key.                              *)

HasCrew(k) == journal[k].state \in {"committed", "undoing", "undone"}

\* A step of the journal that no request with the key can tell.
Unseen == \A k \in Keys : /\ (HasCrew(k)' <=> HasCrew(k))
                          /\ HasCrew(k) => journal'[k].gen = journal[k].gen
                          /\ (journal'[k].state = "undone" <=> journal[k].state = "undone")

LEMMA UnseenPut ==
  ASSUME Shape, NEW k \in Keys, NEW s \in States, Put(k, s),
         \/ journal[k].state \in {"committed", "undoing"} /\ s \in {"committed", "undoing"}
         \/ journal[k].state \in {"prepared", "rollback_failed"} /\ s \in {"rolled_back", "rollback_failed"}
  PROVE  Unseen
<1>1. \A j \in Keys : /\ journal'[j].state = IF j = k THEN s ELSE journal[j].state
                      /\ journal'[j].gen = journal[j].gen
  BY PutFacts DEF Shape
<1> QED BY <1>1, SMT DEF Unseen, HasCrew

LEMMA JournalStep ==
  ASSUME Shape, [Next]_vars
  PROVE  \/ Unseen
         \/ \E k \in Keys : journal[k].state = "prepared" /\ Put(k, "committed")
         \/ \E k \in Keys : journal[k].state = "undoing" /\ Put(k, "undone")
<1>0. UNCHANGED journal => Unseen
  BY DEF Unseen, HasCrew
<1>1. ASSUME NEW k \in Keys, Begin(k) PROVE Unseen
  <2>1. /\ journal[k].state \in {"absent", "rolled_back"}
        /\ \A j \in Keys : j # k => journal'[j] = journal[j]
        /\ journal'[k].state = "prepared"
    BY <1>1, SMT DEF Begin, Shape, TypeOK
  <2> QED BY <2>1, SMT DEF Unseen, HasCrew
<1>2. CASE RecordPrior
  <2>1. \A j \in Keys : journal'[j].state = journal[j].state /\ journal'[j].gen = journal[j].gen
    <3>1. UNCHANGED journal \/ \E prior \in {{}, mem.bot \ mem.hidden} :
                                  journal' = [journal EXCEPT ![op.key].prior = prior]
      BY <1>2 DEF RecordPrior
    <3> QED BY <3>1, SMT DEF Shape, TypeOK
  <2> QED BY <2>1 DEF Unseen, HasCrew
<1>3. CASE RecordArtifact
  <2>1. \A j \in Keys : journal'[j].state = journal[j].state /\ journal'[j].gen = journal[j].gen
    <3>1. UNCHANGED journal \/ journal' = [journal EXCEPT ![op.key].done = @ + 1]
      BY <1>3 DEF RecordArtifact
    <3>2. CASE journal' = [journal EXCEPT ![op.key].done = @ + 1]
      <4>1. PICK d : journal' = [journal EXCEPT ![op.key].done = d]
        BY <3>2
      <4> QED BY <4>1, SMT DEF Shape, TypeOK
    <3> QED BY <3>1, <3>2
  <2> QED BY <2>1 DEF Unseen, HasCrew
<1>4. CASE Commit
  <2>1. op.key \in Keys /\ journal[op.key].state = "prepared"
    BY <1>4, SMT DEF Commit, Shape, PhaseShape, Making
  <2>2. Put(op.key, "committed") \/ UNCHANGED journal
    BY <1>4 DEF Commit
  <2> QED BY <1>0, <2>1, <2>2
<1>5. ASSUME NEW k \in Keys, RequestUndo(k) PROVE Unseen
  <2>1. "undoing" \in States /\ Put(k, "undoing") /\ journal[k].state = "committed"
    BY <1>5 DEF RequestUndo, States
  <2> QED BY <2>1, UnseenPut
<1>6. CASE Guard
  <2>1. PICK k \in Keys : k = op.key /\ journal[k].state = "undoing"
    BY <1>6, SMT DEF Guard, Shape, PhaseShape
  <2>2. Put(k, "committed") \/ UNCHANGED journal
    BY <1>6, <2>1 DEF Guard
  <2>3. "committed" \in States
    BY DEF States
  <2> QED BY <1>0, <2>1, <2>2, <2>3, UnseenPut
<1>7. CASE Finish
  <2>1. \/ UNCHANGED journal
        \/ op.phase = "undo" /\ Put(op.key, "undone")
        \/ op.phase = "rollback" /\ Put(op.key, "rolled_back")
    <3>1. \/ UNCHANGED journal
          \/ /\ op.phase \in {"unwind", "rollback", "undo"} /\ op.phase # "unwind"
             /\ Put(op.key, IF op.phase = "undo" THEN "undone" ELSE "rolled_back")
      BY <1>7 DEF Finish
    <3> QED BY <3>1
  <2>2. CASE op.phase = "undo" /\ Put(op.key, "undone")
    BY <2>2, SMT DEF Shape, PhaseShape
  <2>3. CASE op.phase = "rollback" /\ Put(op.key, "rolled_back")
    <3>1. PICK k \in Keys : k = op.key /\ RollsBack(k)
      BY <2>3, SMT DEF Shape, PhaseShape
    <3> QED BY <2>3, <3>1, UnseenPut, "rolled_back" \in States DEF States, RollsBack
  <2> QED BY <1>0, <2>1, <2>2, <2>3
<1>8. CASE Mark
  <2>1. PICK k \in Keys : k = op.key /\ RollsBack(k)
    BY <1>8, SMT DEF Mark, Shape, PhaseShape
  <2>2. Put(k, "rollback_failed") \/ UNCHANGED journal
    BY <1>8, <2>1 DEF Mark
  <2> QED BY <1>0, <2>1, <2>2, UnseenPut, "rollback_failed" \in States DEF States, RollsBack
<1>9. ASSUME \/ Select \/ CreateArtifact \/ Archive \/ Remove \/ Restore \/ Start \/ Ready \/ Crash
             \/ Detach \/ UNCHANGED vars \/ \E k \in Keys : Recover(k)
             \/ \E b \in Bots, door \in {"route", "card"} : Attach(b, door)
      PROVE  UNCHANGED journal
  BY <1>9 DEF Select, CreateArtifact, Archive, Remove, Restore, Start, Ready, Crash, Detach, vars,
              Recover, Attach
<1> QED BY <1>0, <1>1, <1>2, <1>3, <1>4, <1>5, <1>6, <1>7, <1>8, <1>9 DEF Next, System

LEMMA PromiseStep ==
  ASSUME Shape, [Next]_vars
  PROVE  \/ Crew' = Crew /\ Retired' = Retired
         \/ \E k \in Keys, c \in 1..MaxGens :
              Crew[k] = 0 /\ Crew' = [Crew EXCEPT ![k] = c] /\ Retired' = Retired
         \/ \E k \in Keys : Crew[k] # 0 /\ Retired' = Retired \cup {k} /\ Crew' = Crew
<1>1. CASE Unseen
  <2>1. \A k \in Keys : (IF HasCrew(k)' THEN journal'[k].gen ELSE 0) = (IF HasCrew(k) THEN journal[k].gen ELSE 0)
    BY <1>1 DEF Unseen
  <2>2. Crew' = Crew
    BY <2>1 DEF Crew, HasCrew
  <2>3. Retired' = Retired
    BY <1>1 DEF Unseen, Retired
  <2> QED BY <2>2, <2>3
<1>2. ASSUME NEW k \in Keys, journal[k].state = "prepared", Put(k, "committed")
      PROVE  \E c \in 1..MaxGens : Crew[k] = 0 /\ Crew' = [Crew EXCEPT ![k] = c] /\ Retired' = Retired
  <2>1. \A j \in Keys : /\ journal'[j].state = IF j = k THEN "committed" ELSE journal[j].state
                        /\ journal'[j].gen = journal[j].gen
    BY <1>2, PutFacts, "committed" \in States DEF Shape, States
  <2>2. journal[k].gen \in 1..MaxGens
    BY <1>2, ImportAssumption, SMT DEF Shape, TypeOK, PhaseShape
  <2>3. Crew[k] = 0 /\ Crew' = [Crew EXCEPT ![k] = journal[k].gen]
    <3>1. \A j \in Keys : /\ Crew[j] = IF HasCrew(j) THEN journal[j].gen ELSE 0
                          /\ Crew'[j] = IF HasCrew(j)' THEN journal'[j].gen ELSE 0
      BY DEF Crew, HasCrew
    <3>2. Crew[k] = 0 /\ Crew'[k] = journal[k].gen
      BY <1>2, <2>1, <3>1, SMT DEF HasCrew
    <3>3. \A j \in Keys \ {k} : Crew'[j] = Crew[j]
      BY <2>1, <3>1, SMT DEF HasCrew
    <3>4. Crew = [j \in Keys |-> Crew[j]] /\ Crew' = [j \in Keys |-> Crew'[j]]
      BY DEF Crew
    <3> HIDE DEF Crew
    <3> QED BY <3>2, <3>3, <3>4
  <2>4. Retired' = Retired
    BY <1>2, <2>1, SMT DEF Retired
  <2> QED BY <2>2, <2>3, <2>4
<1>3. ASSUME NEW k \in Keys, journal[k].state = "undoing", Put(k, "undone")
      PROVE  Crew[k] # 0 /\ Retired' = Retired \cup {k} /\ Crew' = Crew
  <2>1. \A j \in Keys : /\ journal'[j].state = IF j = k THEN "undone" ELSE journal[j].state
                        /\ journal'[j].gen = journal[j].gen
    BY <1>3, PutFacts, "undone" \in States DEF Shape, States
  <2>2. journal[k].gen # 0
    BY <1>3, SMT DEF Shape, PhaseShape
  <2> QED BY <1>3, <2>1, <2>2, SMT DEF Crew, Retired, HasCrew
<1> QED BY <1>1, <1>2, <1>3, JournalStep

\* A crash, a failed write or a repeated request never makes a second crew for a key, takes
\* a committed one back without an undo, or revives an undone one (execute and undo of
\* crew-import-transactions.ts, ImplementsAtomicImport).
THEOREM ImportRefinement == Spec => ImplementsAtomicImport
<1>1. Init => Promise!Init
  BY SMT DEF Init, Promise!Init, Crew, Retired
<1>2. Shape /\ [Next]_vars => [Promise!Next]_<<Crew, Retired>>
  <2> SUFFICES ASSUME Shape, [Next]_vars PROVE [Promise!Next]_<<Crew, Retired>>
    OBVIOUS
  <2>1. \A k \in Keys, c \in 1..MaxGens :
          Crew[k] = 0 /\ Crew' = [Crew EXCEPT ![k] = c] /\ Retired' = Retired => Promise!Import(k, c)
    BY DEF Promise!Import, Crew, Retired, HasCrew
  <2>2. \A k \in Keys : Crew[k] # 0 /\ Retired' = Retired \cup {k} /\ Crew' = Crew => Promise!Undo(k)
    BY DEF Promise!Undo, Crew, Retired, HasCrew
  <2> QED BY <2>1, <2>2, PromiseStep DEF Promise!Next
<1> QED BY <1>1, <1>2, ShapeInvariant, PTL DEF Spec, ImplementsAtomicImport, Promise!Spec

-----------------------------------------------------------------------------
(* No orphans.  What a compensation may remove is leased, and what no lease   *)
(* covers is also in the files: a crash does not take it from under a crew or *)
(* a cadence of the user.                                                   *)

\* The artifact is one that its key's journal record names.
Planned(x) == x[2] = journal[x[1]].gen /\ x[3] <= journal[x[1]].done

LeasedFirst == op.phase \in Compensating => op.key \in leases
Known == \A x \in Arts : In(x, mem) \/ In(x, disk) => x[2] < journal[x[1]].gen \/ Planned(x)
AheadIsDoomed == \A x \in Arts : In(x, mem) /\ ~In(x, disk) =>
                   Planned(x) /\ RollsBack(x[1]) /\ ~(op.key = x[1] /\ op.phase \in Making)
DoomedIsLeased == server = "up" => \A x \in Arts : In(x, mem) /\ Planned(x) /\ RollsBack(x[1]) =>
                    x[1] \in leases \/ (op.key = x[1] /\ op.phase \in Making \cup {"unwind"})
Kept == \A d \in deps : d[2] = "route" =>
          /\ d[1] \in Arts /\ In(d[1], mem) /\ In(d[1], disk)
          /\ Planned(d[1]) => ~RollsBack(d[1][1]) /\ ~(op.key = d[1][1] /\ op.phase = "undo")

Doors == Shape /\ LeasedFirst /\ Known /\ AheadIsDoomed /\ DoomedIsLeased /\ Kept

LEMMA PlannedFacts ==
  ASSUME Shape, NEW k \in Keys
  PROVE  \A x \in Arts : x \in Recorded(k) <=> x[1] = k /\ Planned(x)
  BY RecordedFacts DEF Planned

LEMMA DoorsInit == Init => Doors
<1> SUFFICES ASSUME Init PROVE Doors
  OBVIOUS
<1>1. \A x \in Arts : ~In(x, mem) /\ ~In(x, disk)
  BY ArtFacts, SMT DEF Init, In, Kinds
<1>2. op.phase = "idle" /\ deps = {}
  BY DEF Init, NoOp
<1> QED BY <1>1, <1>2, ShapeInit
        DEF Doors, LeasedFirst, Known, AheadIsDoomed, DoomedIsLeased, Kept, Compensating

\* A write brings the files as far as memory, or nowhere.
Follows == \A y \in Arts : (In(y, disk') <=> In(y, disk)) \/ (In(y, disk') <=> In(y, mem'))

\* Memory has nothing of what the key's record names.
Emptied(k) == \A x \in Arts : x[1] = k /\ Planned(x) => ~In(x, mem)

\* Steps that change neither the artifacts in memory nor which are planned.
LEMMA DoorsQuiet ==
  ASSUME Doors, Shape', Follows, deps' \subseteq deps,
         \A y \in Arts : In(y, mem') <=> In(y, mem),
         \A k \in Keys : journal'[k].gen = journal[k].gen /\ journal'[k].done = journal[k].done,
         \A k \in Keys : RollsBack(k)' => RollsBack(k),
         \A k \in Keys : RollsBack(k) =>
           RollsBack(k)' \/ Emptied(k) \/ (op.key = k /\ op.phase \in Making),
         \A k \in Keys : op'.key = k /\ op'.phase \in Making => op.key = k /\ op.phase \in Making,
         op'.phase \in Compensating => op'.key \in leases',
         op'.phase = "undo" => (op.phase = "undo" /\ op.key = op'.key) \/ ~InUse(op'.key),
         server' = "up" => server = "up" \/ \A k \in Keys : ~RollsBack(k),
         \A k \in Keys : server' = "up" /\ RollsBack(k) /\
             (k \in leases \/ (op.key = k /\ op.phase \in Making \cup {"unwind"})) =>
           k \in leases' \/ (op'.key = k /\ op'.phase \in Making \cup {"unwind"}) \/ Emptied(k)
  PROVE  Doors'
<1>1. \A x \in Arts : x[1] \in Keys
  BY ArtFacts
<1>2. \A x \in Arts : Planned(x)' <=> Planned(x)
  BY <1>1 DEF Planned
<1>3. Known'
  <2> SUFFICES ASSUME NEW x \in Arts, In(x, mem') \/ In(x, disk')
               PROVE  x[2] < journal'[x[1]].gen \/ Planned(x)'
    BY DEF Known, In, Kind
  <2>1. In(x, mem) \/ In(x, disk)
    BY DEF Follows
  <2>2. x[2] < journal[x[1]].gen \/ Planned(x)
    BY <2>1 DEF Doors, Known
  <2> QED BY <1>1, <1>2, <2>2
<1>4. AheadIsDoomed'
  <2> SUFFICES ASSUME NEW x \in Arts, In(x, mem'), ~In(x, disk')
               PROVE  Planned(x)' /\ RollsBack(x[1])' /\ ~(op'.key = x[1] /\ op'.phase \in Making)
    BY DEF AheadIsDoomed, In, Kind
  <2>1. In(x, mem) /\ ~In(x, disk)
    BY DEF Follows
  <2>2. Planned(x) /\ RollsBack(x[1]) /\ ~(op.key = x[1] /\ op.phase \in Making)
    BY <2>1 DEF Doors, AheadIsDoomed
  <2>3. ~Emptied(x[1])
    BY <2>1, <2>2 DEF Emptied
  <2> QED BY <1>1, <1>2, <2>2, <2>3
<1>5. DoomedIsLeased'
  <2> SUFFICES ASSUME server' = "up", NEW x \in Arts, In(x, mem'), Planned(x)', RollsBack(x[1])'
               PROVE  x[1] \in leases' \/ (op'.key = x[1] /\ op'.phase \in Making \cup {"unwind"})
    BY DEF DoomedIsLeased, In, Kind
  <2>1. In(x, mem) /\ Planned(x) /\ RollsBack(x[1]) /\ server = "up"
    BY <1>1, <1>2
  <2>2. x[1] \in leases \/ (op.key = x[1] /\ op.phase \in Making \cup {"unwind"})
    BY <2>1 DEF Doors, DoomedIsLeased
  <2>3. ~Emptied(x[1])
    BY <2>1 DEF Emptied
  <2> QED BY <1>1, <2>1, <2>2, <2>3
<1>6. Kept'
  <2> SUFFICES ASSUME NEW d \in deps', d[2] = "route"
               PROVE  /\ d[1] \in Arts /\ In(d[1], mem') /\ In(d[1], disk')
                      /\ Planned(d[1])' => /\ ~RollsBack(d[1][1])'
                                           /\ ~(op'.key = d[1][1] /\ op'.phase = "undo")
    BY DEF Kept, In, Kind
  <2>1. /\ d \in deps /\ d[1] \in Arts /\ In(d[1], mem) /\ In(d[1], disk)
        /\ Planned(d[1]) => ~RollsBack(d[1][1]) /\ ~(op.key = d[1][1] /\ op.phase = "undo")
    BY DEF Doors, Kept
  <2>2. In(d[1], mem') /\ In(d[1], disk')
    BY <2>1 DEF Follows
  <2>3. Planned(d[1]) => InUse(d[1][1])
    BY <1>1, <2>1, PlannedFacts DEF InUse, Doors
  <2> QED BY <1>1, <1>2, <2>1, <2>2, <2>3
<1> QED BY <1>3, <1>4, <1>5, <1>6 DEF Doors, LeasedFirst

LEMMA DoorsCompensate ==
  ASSUME Doors, Shape', NEW k \in Keys, NEW phase \in Compensating, Compensate(k, phase),
         Follows, \A y \in Arts : In(y, mem') <=> In(y, mem), UNCHANGED <<journal, deps, server>>,
         op.phase # "idle" => op.key = k, phase = "undo" => ~InUse(k)
  PROVE  Doors'
<1>1. op'.phase = phase /\ op'.key = k /\ leases' = leases \cup {k}
  BY SMT DEF Compensate
<1>2. \A j \in Keys : journal'[j].gen = journal[j].gen /\ journal'[j].done = journal[j].done
                      /\ (RollsBack(j)' <=> RollsBack(j))
  BY DEF RollsBack
<1>3. op'.phase \notin Making /\ op'.phase \in Compensating /\ "idle" \notin Making \cup {"unwind"}
  BY <1>1, SMT DEF Making, Compensating
<1> QED BY <1>1, <1>2, <1>3, DoorsQuiet

LEMMA DoorsUnwind ==
  ASSUME Doors, Shape', Unwind, op.phase \in Making,
         Follows, \A y \in Arts : In(y, mem') <=> In(y, mem), UNCHANGED <<journal, deps, server>>
  PROVE  Doors'
<1>1. op'.phase = "unwind" /\ op'.key = op.key /\ leases' = leases
  <2>1. TypeOK
    BY DEF Doors, Shape
  <2>2. leases' = leases
    BY DEF Unwind
  <2> QED BY <2>1, <2>2, UnwindFacts
<1>2. \A j \in Keys : journal'[j].gen = journal[j].gen /\ journal'[j].done = journal[j].done
                      /\ (RollsBack(j)' <=> RollsBack(j))
  BY DEF RollsBack
<1>3. op'.phase \notin Making /\ op'.phase \notin Compensating /\ op'.phase # "undo"
  BY <1>1, SMT DEF Making, Compensating
<1> QED BY <1>1, <1>2, <1>3, DoorsQuiet

LEMMA DoorsIdle ==
  ASSUME Doors, Shape', op' = NoOp, UNCHANGED <<mem, disk>>, deps' \subseteq deps,
         \A k \in Keys : journal'[k].gen = journal[k].gen /\ journal'[k].done = journal[k].done,
         \A k \in Keys : RollsBack(k)' => RollsBack(k),
         \A k \in Keys : RollsBack(k) =>
           RollsBack(k)' \/ Emptied(k) \/ (op.key = k /\ op.phase \in Making),
         server' = "up" => server = "up" \/ \A k \in Keys : ~RollsBack(k),
         server' = "up" => \A k \in Keys : k \in leases => k \in leases' \/ Emptied(k),
         server' = "up" => \A k \in Keys :
           op.key = k /\ op.phase \in Making \cup {"unwind"} => ~RollsBack(k)'
  PROVE  Doors'
<1>1. op'.phase = "idle" /\ op'.key = None /\ "idle" \notin Making \cup Compensating \cup {"undo"}
  BY SMT DEF NoOp, Making, Compensating
<1>2. Follows
  BY DEF Follows
<1>3. AheadIsDoomed' /\ Known' /\ Kept' /\ LeasedFirst'
  <2>1. \A x \in Arts : x[1] \in Keys
    BY ArtFacts
  <2>2. \A x \in Arts : Planned(x)' <=> Planned(x)
    BY <2>1 DEF Planned
  <2>3. Known'
    BY <2>1, <2>2 DEF Doors, Known, In, Kind
  <2>4. AheadIsDoomed'
    BY <1>1, <2>1, <2>2 DEF Doors, AheadIsDoomed, Emptied, In, Kind
  <2>5. Kept'
    BY <1>1, <2>1, <2>2 DEF Doors, Kept, In, Kind
  <2> QED BY <1>1, <2>3, <2>4, <2>5 DEF LeasedFirst
<1>4. DoomedIsLeased'
  <2> SUFFICES ASSUME server' = "up", NEW x \in Arts, In(x, mem), Planned(x)', RollsBack(x[1])'
               PROVE  x[1] \in leases'
    BY DEF DoomedIsLeased, In, Kind
  <2>1. x[1] \in Keys /\ Planned(x) /\ RollsBack(x[1]) /\ server = "up"
    BY ArtFacts DEF Planned
  <2>2. x[1] \in leases \/ (op.key = x[1] /\ op.phase \in Making \cup {"unwind"})
    BY <2>1 DEF Doors, DoomedIsLeased
  <2>3. ~Emptied(x[1])
    BY <2>1 DEF Emptied
  <2> QED BY <2>1, <2>2, <2>3
<1> QED BY <1>3, <1>4 DEF Doors

LEMMA DoorsRecordPrior == ASSUME Doors, Shape', RecordPrior PROVE Doors'
<1>0. /\ op.phase = "plan" /\ UNCHANGED <<mem, disk, deps, server>> /\ op.key \in Keys
  BY SMT DEF RecordPrior, Doors, Shape, PhaseShape
<1>1. Follows /\ \A y \in Arts : In(y, mem') <=> In(y, mem)
  BY <1>0 DEF Follows
<1>2. ASSUME NEW prior, journal' = [journal EXCEPT ![op.key].prior = prior], At("select"), UNCHANGED leases
      PROVE  Doors'
  <2>1. op'.phase = "select" /\ op'.key = op.key
    BY <1>2, AtFacts, "select" \in Phases DEF Doors, Shape, Phases
  <2>2. \A j \in Keys : /\ journal'[j].gen = journal[j].gen /\ journal'[j].done = journal[j].done
                        /\ journal'[j].state = journal[j].state
    BY <1>2, SMT DEF Doors, Shape, TypeOK
  <2>3. {"plan", "select"} \subseteq Making /\ "select" \notin Compensating \cup {"undo"}
    BY SMT DEF Making, Compensating
  <2>4. \A j \in Keys : RollsBack(j)' <=> RollsBack(j)
    BY <2>2 DEF RollsBack
  <2> QED BY <1>0, <1>1, <1>2, <2>1, <2>2, <2>3, <2>4, DoorsQuiet
<1>3. ASSUME Compensate(op.key, "rollback"), UNCHANGED journal PROVE Doors'
  <2>1. PICK k \in Keys : k = op.key
    BY <1>0
  <2>2. Compensate(k, "rollback") /\ "rollback" \in Compensating /\ "rollback" # "undo"
    BY <1>3, <2>1 DEF Compensating
  <2> QED BY <1>0, <1>1, <1>3, <2>1, <2>2, DoorsCompensate
<1> QED BY <1>2, <1>3 DEF RecordPrior

LEMMA DoorsSelect == ASSUME Doors, Shape', Select PROVE Doors'
<1>0. op.phase = "select" /\ UNCHANGED <<journal, mem, disk, deps, server>>
  BY DEF Select
<1>1. Follows /\ \A y \in Arts : In(y, mem') <=> In(y, mem)
  BY <1>0 DEF Follows
<1>2. ASSUME At("record"), UNCHANGED leases PROVE Doors'
  <2>1. op'.phase = "record" /\ op'.key = op.key
    BY <1>2, AtFacts, "record" \in Phases DEF Doors, Shape, Phases
  <2>2. \A j \in Keys : RollsBack(j)' <=> RollsBack(j)
    BY <1>0 DEF RollsBack
  <2>3. {"record", "select"} \subseteq Making /\ "record" \notin Compensating \cup {"undo"}
    BY SMT DEF Making, Compensating
  <2> QED BY <1>0, <1>1, <1>2, <2>1, <2>2, <2>3, DoorsQuiet
<1>3. ASSUME Unwind PROVE Doors'
  BY <1>0, <1>1, <1>3, DoorsUnwind DEF Making
<1> QED BY <1>2, <1>3 DEF Select

LEMMA DoorsArchive == ASSUME Doors, Shape', Archive PROVE Doors'
<1>1. PICK k \in Keys, b \in op.back, H \in SUBSET Bots :
           /\ op.key = k /\ op.phase = "archive" /\ server = "up"
           /\ UNCHANGED <<journal, deps, server, crashes>>
           /\ mem' = Rehidden(mem, H) /\ mem' \in Workspace
           /\ \/ /\ disk' = Saved("bot", Rehidden(mem, H)) /\ UNCHANGED <<leases, fails>>
                 /\ op' = [op EXCEPT !.back = @ \ {b}]
              \/ Unwind /\ disk' = disk
  BY ArchiveFacts DEF Doors
<1>2. mem \in Workspace /\ disk \in Workspace /\ TypeOK
  BY DEF Doors, Shape, TypeOK
<1>3. \A y \in Arts : In(y, mem') <=> In(y, mem)
  BY <1>1, <1>2, RehiddenFacts
<1>4. Follows
  BY <1>1, <1>2, SavedFacts, "bot" \in Kinds DEF Follows, Kinds
<1>5. CASE UNCHANGED leases /\ op' = [op EXCEPT !.back = @ \ {b}]
  <2>1. op'.phase = "archive" /\ op'.key = k
    BY <1>1, <1>2, <1>5, BackFacts
  <2>2. \A j \in Keys : RollsBack(j)' <=> RollsBack(j)
    BY <1>1 DEF RollsBack
  <2>3. "archive" \in Making /\ "archive" \notin Compensating \cup {"undo"}
    BY SMT DEF Making, Compensating
  <2> QED BY <1>1, <1>3, <1>4, <1>5, <2>1, <2>2, <2>3, DoorsQuiet
<1>6. CASE Unwind
  BY <1>1, <1>3, <1>4, <1>6, DoorsUnwind DEF Making
<1> QED BY <1>1, <1>5, <1>6

LEMMA DoorsCommit == ASSUME Doors, Shape', Commit PROVE Doors'
<1>0. /\ op.phase = "archive" /\ UNCHANGED <<mem, disk, deps, server>> /\ op.key \in Keys /\ TypeOK
      /\ journal[op.key].state = "prepared"
  BY SMT DEF Commit, Doors, Shape, PhaseShape, Making
<1>1. PICK k \in Keys : k = op.key
  BY <1>0
<1>2. CASE Put(op.key, "committed") /\ op' = NoOp /\ UNCHANGED leases
  <2>1. \A j \in Keys : /\ journal'[j].gen = journal[j].gen /\ journal'[j].done = journal[j].done
                        /\ journal'[j].state = IF j = k THEN "committed" ELSE journal[j].state
    BY <1>0, <1>1, <1>2, PutFacts, "committed" \in States DEF States
  <2>2. "archive" \in Making
    BY DEF Making
  <2>3. \A j \in Keys : (RollsBack(j)' <=> RollsBack(j) /\ j # k)
    BY <2>1, SMT DEF RollsBack
  <2> QED BY <1>0, <1>1, <1>2, <2>1, <2>2, <2>3, DoorsIdle
<1>3. CASE UNCHANGED journal /\ Compensate(op.key, "rollback")
  <2>1. Follows /\ \A y \in Arts : In(y, mem') <=> In(y, mem)
    BY <1>0 DEF Follows
  <2>2. Compensate(k, "rollback") /\ "rollback" \in Compensating /\ "rollback" # "undo"
    BY <1>1, <1>3 DEF Compensating
  <2> QED BY <1>0, <1>1, <1>3, <2>1, <2>2, DoorsCompensate
<1> QED BY <1>2, <1>3 DEF Commit

LEMMA DoorsRequestUndo == ASSUME Doors, Shape', NEW k \in Keys, RequestUndo(k) PROVE Doors'
<1>1. op'.phase = "guard" /\ op'.key = k
  BY BegunFacts DEF RequestUndo
<1>2. /\ journal[k].state = "committed" /\ Put(k, "undoing") /\ op.phase = "idle" /\ server = "up"
      /\ UNCHANGED <<mem, disk, leases, deps, server>> /\ TypeOK
  BY DEF RequestUndo, Doors, Shape, NoOp
<1>3. \A j \in Keys : /\ journal'[j].gen = journal[j].gen /\ journal'[j].done = journal[j].done
                      /\ journal'[j].state = IF j = k THEN "undoing" ELSE journal[j].state
  BY <1>2, PutFacts, "undoing" \in States DEF States
<1>4. \A j \in Keys : RollsBack(j)' <=> RollsBack(j)
  BY <1>2, <1>3, SMT DEF RollsBack
<1>5. Follows /\ \A y \in Arts : In(y, mem') <=> In(y, mem)
  BY <1>2 DEF Follows
<1>6. {"idle", "guard"} \cap (Making \cup Compensating \cup {"undo", "unwind"}) = {}
  BY SMT DEF Making, Compensating
<1> QED BY <1>1, <1>2, <1>3, <1>4, <1>5, <1>6, DoorsQuiet

LEMMA DoorsGuard == ASSUME Doors, Shape', Guard PROVE Doors'
<1>0. /\ op.phase = "guard" /\ UNCHANGED <<mem, disk, deps, server>> /\ op.key \in Keys /\ TypeOK
      /\ journal[op.key].state = "undoing"
  BY SMT DEF Guard, Doors, Shape, PhaseShape
<1>1. PICK k \in Keys : k = op.key
  BY <1>0
<1>2. CASE op' = NoOp /\ UNCHANGED leases /\ (Put(op.key, "committed") \/ UNCHANGED journal)
  <2>1. \A j \in Keys : /\ journal'[j].gen = journal[j].gen /\ journal'[j].done = journal[j].done
                        /\ journal'[j].state = journal[j].state
                             \/ (j = k /\ journal'[j].state = "committed")
    BY <1>0, <1>1, <1>2, PutFacts, "committed" \in States DEF States
  <2>2. "guard" \notin Making \cup {"unwind"}
    BY SMT DEF Making
  <2>3. \A j \in Keys : RollsBack(j)' <=> RollsBack(j)
    BY <1>0, <1>1, <2>1, SMT DEF RollsBack
  <2> QED BY <1>0, <1>1, <1>2, <2>1, <2>2, <2>3, DoorsIdle
<1>3. CASE ~InUse(op.key) /\ Compensate(op.key, "undo") /\ UNCHANGED <<journal, fails>>
  <2>1. Follows /\ \A y \in Arts : In(y, mem') <=> In(y, mem)
    BY <1>0 DEF Follows
  <2>2. Compensate(k, "undo") /\ "undo" \in Compensating /\ ~InUse(k)
    BY <1>1, <1>3 DEF Compensating
  <2> QED BY <1>0, <1>1, <1>3, <2>1, <2>2, DoorsCompensate
<1> QED BY <1>2, <1>3 DEF Guard

\* A compensation has ended; what the record names is not in memory any more.
LEMMA EmptiedFacts ==
  ASSUME Shape, op.phase \in Compensating, op.left = {}, NEW k \in Keys, op.key = k
  PROVE  Emptied(k)
<1>1. op.left = {x \in Recorded(k) : In(x, mem)}
  BY SMT DEF Shape, MakingShape, Alive, In
<1> QED BY <1>1, PlannedFacts DEF Emptied

LEMMA DoorsFinish == ASSUME Doors, Shape', Finish PROVE Doors'
<1>0. /\ op.phase \in Compensating \cup {"unwind"} /\ op.left = {} /\ UNCHANGED <<mem, disk, deps>>
      /\ Shape /\ TypeOK
  BY DEF Finish, Compensating, Doors, Shape
<1>1. PICK k \in Keys : k = op.key
  BY <1>0, SMT DEF Shape, PhaseShape, Compensating
<1>2. Follows /\ \A y \in Arts : In(y, mem') <=> In(y, mem)
  BY <1>0 DEF Follows
<1>3. CASE op.phase = "unwind"
  <2>1. Compensate(k, "rollback") /\ UNCHANGED <<journal, server>> /\ "rollback" \in Compensating
    BY <1>1, <1>3 DEF Finish, Compensating
  <2> QED BY <1>0, <1>1, <1>2, <2>1, DoorsCompensate, "rollback" # "undo"
<1>4. CASE op.phase # "unwind"
  <2>0. Emptied(k) /\ leases' = leases \ {k}
    BY <1>0, <1>1, <1>4, EmptiedFacts DEF Finish
  <2>1. \/ /\ Put(k, "undone") \/ Put(k, "rolled_back") \/ UNCHANGED journal
           /\ op' = NoOp /\ (server' = "up" => server = "up")
        \/ UNCHANGED <<journal, server>> /\ At("mark")
    BY <1>1, <1>4 DEF Finish, Fall, Answer, Die
  <2>2. op.phase \notin Making \cup {"unwind"}
    BY <1>0, <1>4, SMT DEF Making, Compensating
  <2>3. CASE /\ Put(k, "undone") \/ Put(k, "rolled_back") \/ UNCHANGED journal
             /\ op' = NoOp /\ (server' = "up" => server = "up")
    <3>1. \A j \in Keys : /\ journal'[j].gen = journal[j].gen /\ journal'[j].done = journal[j].done
                          /\ \/ journal'[j].state = journal[j].state
                             \/ j = k /\ journal'[j].state \in {"undone", "rolled_back"}
      BY <1>0, <2>3, PutFacts, "undone" \in States, "rolled_back" \in States DEF States
    <3>2. \A j \in Keys : (RollsBack(j)' => RollsBack(j)) /\ (j # k /\ RollsBack(j) => RollsBack(j)')
      BY <3>1, SMT DEF RollsBack
    <3> QED BY <1>0, <2>0, <2>2, <2>3, <3>1, <3>2, DoorsIdle
  <2>4. CASE UNCHANGED <<journal, server>> /\ At("mark")
    <3>1. op'.phase = "mark" /\ op'.key = k
      BY <1>0, <1>1, <2>4, AtFacts, "mark" \in Phases DEF Phases
    <3>2. \A j \in Keys : journal'[j].gen = journal[j].gen /\ journal'[j].done = journal[j].done
                          /\ (RollsBack(j)' <=> RollsBack(j))
      BY <2>4 DEF RollsBack
    <3>3. "mark" \notin Making \cup Compensating \cup {"undo", "unwind"}
      BY SMT DEF Making, Compensating
    <3> QED BY <1>0, <1>1, <1>2, <2>0, <2>2, <2>4, <3>1, <3>2, <3>3, DoorsQuiet
  <2> QED BY <2>1, <2>3, <2>4
<1> QED BY <1>3, <1>4

LEMMA DoorsMark == ASSUME Doors, Shape', Mark PROVE Doors'
<1>0. /\ op.phase = "mark" /\ UNCHANGED <<mem, disk, leases, deps>> /\ Shape /\ TypeOK
      /\ op' = NoOp /\ (server' = "up" => server = "up")
  BY DEF Mark, Fall, Answer, Die, Doors, Shape
<1>1. PICK k \in Keys : k = op.key /\ RollsBack(k)
  BY <1>0, SMT DEF Shape, PhaseShape
<1>2. \A j \in Keys : /\ journal'[j].gen = journal[j].gen /\ journal'[j].done = journal[j].done
                      /\ journal'[j].state = journal[j].state
                           \/ (j = k /\ journal'[j].state = "rollback_failed")
  <2>1. Put(k, "rollback_failed") \/ UNCHANGED journal
    BY <1>1 DEF Mark
  <2> QED BY <1>0, <2>1, PutFacts, "rollback_failed" \in States DEF States
<1>3. \A j \in Keys : RollsBack(j)' <=> RollsBack(j)
  BY <1>1, <1>2, SMT DEF RollsBack
<1>4. "mark" \notin Making \cup {"unwind"}
  BY SMT DEF Making
<1> QED BY <1>0, <1>1, <1>2, <1>3, <1>4, DoorsIdle

LEMMA DoorsRecover == ASSUME Doors, Shape', NEW k \in Keys, Recover(k) PROVE Doors'
<1>0. /\ server = "boot" /\ op.phase = "idle" /\ UNCHANGED <<journal, mem, disk, deps>>
  BY DEF Recover, NoOp
<1>1. Follows /\ \A y \in Arts : In(y, mem') <=> In(y, mem)
  BY <1>0 DEF Follows
<1>2. \A j \in Keys : journal'[j].gen = journal[j].gen /\ journal'[j].done = journal[j].done
                      /\ (RollsBack(j)' <=> RollsBack(j))
  BY <1>0 DEF RollsBack
<1>3. CASE Compensate(k, "rollback") /\ UNCHANGED server
  BY <1>0, <1>1, <1>3, DoorsCompensate, "rollback" \in Compensating, "rollback" # "undo" DEF Compensating
<1>4. CASE Die /\ UNCHANGED leases
  BY <1>0, <1>2, <1>4, DoorsIdle, "down" # "up" DEF Die
<1>5. CASE ~InUse(k) /\ Compensate(k, "undo") /\ UNCHANGED server
  BY <1>0, <1>1, <1>5, DoorsCompensate, "undo" \in Compensating DEF Compensating
<1> QED BY <1>3, <1>4, <1>5 DEF Recover

LEMMA DoorsServer == ASSUME Doors, Shape', Crash \/ Ready \/ Detach \/ UNCHANGED vars PROVE Doors'
<1>2. UNCHANGED journal => \A j \in Keys :
        /\ journal'[j].gen = journal[j].gen /\ journal'[j].done = journal[j].done
        /\ (RollsBack(j)' <=> RollsBack(j))
  BY DEF RollsBack
<1>3. CASE Crash
  BY <1>2, <1>3, DoorsIdle, "down" # "up" DEF Crash
<1>4. CASE Ready
  <2>1. /\ op = NoOp /\ op' = NoOp /\ op.phase = "idle" /\ UNCHANGED <<journal, mem, disk, deps, leases>>
        /\ \A j \in Keys : ~Pending(j)
    BY <1>4 DEF Ready, NoOp
  <2>2. "idle" \notin Making \cup {"unwind"} /\ \A j \in Keys : ~RollsBack(j)
    BY <2>1, SMT DEF Making, RollsBack, Pending
  <2> QED BY <1>2, <2>1, <2>2, DoorsIdle
<1>5. CASE Detach \/ UNCHANGED vars
  <2>1. UNCHANGED <<journal, mem, disk, op, leases, server>> /\ deps' \subseteq deps
    BY <1>5 DEF Detach, vars
  <2>2. Follows /\ \A y \in Arts : In(y, mem') <=> In(y, mem)
    BY <2>1 DEF Follows
  <2> QED BY <1>2, <2>1, <2>2, DoorsQuiet DEF Doors, LeasedFirst
<1> QED BY <1>3, <1>4, <1>5

LEMMA DoorsRestore == ASSUME Doors, Shape', Restore PROVE Doors'
<1>1. PICK k \in Keys, b \in op.back, H \in SUBSET Bots :
           /\ op.key = k /\ op.phase \in Compensating \cup {"unwind"} /\ op.left = {}
           /\ UNCHANGED <<journal, deps, crashes>>
           /\ \/ /\ \/ mem' = Rehidden(mem, H) /\ disk' = Saved("bot", Rehidden(mem, H))
                    \/ mem' = mem /\ disk' = disk
                 /\ UNCHANGED <<leases, server, fails>>
                 /\ op' = [phase |-> op.phase, key |-> k, made |-> op.made, left |-> {},
                           back |-> op.back \ {b}]
              \/ mem' = Rehidden(mem, H) /\ disk' = disk /\ Broken
  BY RestoreFacts DEF Doors
<1>2. mem \in Workspace /\ disk \in Workspace /\ TypeOK /\ Shape
  BY DEF Doors, Shape, TypeOK
<1>3. \A y \in Arts : In(y, mem') <=> In(y, mem)
  BY <1>1, <1>2, RehiddenFacts
<1>4. Follows
  BY <1>1, <1>2, RehiddenFacts, SavedFacts, "bot" \in Kinds DEF Follows, Kinds
<1>5. \A j \in Keys : journal'[j].gen = journal[j].gen /\ journal'[j].done = journal[j].done
                      /\ (RollsBack(j)' <=> RollsBack(j))
  BY <1>1 DEF RollsBack
<1>6. {"unwind", "rollback", "undo", "mark", "idle"} \cap Making = {}
  BY SMT DEF Making
<1>7. CASE /\ UNCHANGED <<leases, server, fails>>
           /\ op' = [phase |-> op.phase, key |-> k, made |-> op.made, left |-> {}, back |-> op.back \ {b}]
  <2>1. op'.phase = op.phase /\ op'.key = k
    BY <1>7
  <2>2. op.phase \notin Making /\ (op.phase \in Compensating => k \in leases)
    BY <1>1, <1>6 DEF Doors, LeasedFirst, Compensating
  <2> QED BY <1>1, <1>3, <1>4, <1>5, <1>7, <2>1, <2>2, DoorsQuiet
<1>8. CASE Broken
  <2>1. CASE op.phase = "unwind"
    <3>1. Compensate(k, "rollback") /\ UNCHANGED server /\ "rollback" \in Compensating
      BY <1>1, <1>8, <2>1, BrokenFacts DEF Compensating
    <3> QED BY <1>1, <1>3, <1>4, <3>1, DoorsCompensate, "rollback" # "undo"
  <2>2. CASE op.phase = "rollback"
    <3>1. At("mark") /\ UNCHANGED <<leases, server>> /\ "mark" \in Phases
      BY <1>8, <2>2, BrokenFacts DEF Phases
    <3>2. op'.phase = "mark" /\ op'.key = k
      BY <1>1, <1>2, <3>1, AtFacts
    <3>3. "mark" \notin Making \cup Compensating \cup {"undo", "unwind"} /\ "rollback" \notin Making \cup {"unwind"}
      BY SMT DEF Making, Compensating
    <3> QED BY <1>1, <1>3, <1>4, <1>5, <2>2, <3>1, <3>2, <3>3, DoorsQuiet
  <2>3. CASE op.phase = "undo"
    <3>1. op' = NoOp /\ UNCHANGED leases /\ server' = (IF server = "up" THEN "up" ELSE "down")
      BY <1>8, <2>3, BrokenFacts
    <3>2. op'.phase = "idle"
      BY <3>1 DEF NoOp
    <3>3. "idle" \notin Making \cup Compensating \cup {"undo"} /\ "undo" \notin Making \cup {"unwind"}
      BY SMT DEF Making, Compensating
    <3> QED BY <1>1, <1>3, <1>4, <1>5, <2>3, <3>1, <3>2, <3>3, DoorsQuiet
  <2> QED BY <1>1, <2>1, <2>2, <2>3 DEF Compensating
<1> QED BY <1>1, <1>7, <1>8

LEMMA DoorsBegin == ASSUME Doors, Shape', NEW k \in Keys, Begin(k) PROVE Doors'
<1>1. /\ op.phase = "idle" /\ ~RollsBack(k) /\ UNCHANGED <<mem, disk, leases, deps, server>>
      /\ op' = [phase |-> "plan", key |-> k, made |-> {}, left |-> {}, back |-> {}]
  BY BegunFacts DEF Begin, NoOp, RollsBack
<1>2. /\ journal'[k].gen = journal[k].gen + 1
      /\ \A j \in Keys : j # k => journal'[j] = journal[j]
      /\ journal[k].gen \in Nat
  <2>1. journal \in [Keys -> Transactions]
    BY DEF Doors, Shape, TypeOK, Transactions
  <2> QED BY <2>1, SMT DEF Begin, Transactions
<1>3. \A x \in Arts : x[1] \in Keys /\ x[2] \in Nat
  BY ArtFacts, ImportAssumption, SMT
<1>4. \A x \in Arts : x[1] # k => ((Planned(x)' <=> Planned(x)) /\ (RollsBack(x[1])' <=> RollsBack(x[1])))
  BY <1>2, <1>3 DEF Planned, RollsBack
<1>5. \A x \in Arts : x[1] = k /\ (In(x, mem) \/ In(x, disk)) => x[2] < journal'[x[1]].gen /\ ~Planned(x)'
  BY <1>2, <1>3, SMT DEF Doors, Known, Planned
<1>6. op'.phase \notin Compensating /\ op'.phase # "undo" /\ op.phase \notin Making \cup {"unwind"}
  BY <1>1, SMT DEF Making, Compensating
<1>7. Known'
  BY <1>1, <1>2, <1>3, <1>4, <1>5 DEF Doors, Known, In, Kind
<1>8. AheadIsDoomed'
  BY <1>1, <1>2, <1>3, <1>4 DEF Doors, AheadIsDoomed, In, Kind
<1>9. DoomedIsLeased'
  BY <1>1, <1>3, <1>4, <1>5, <1>6 DEF Doors, DoomedIsLeased, In, Kind
<1>10. Kept'
  BY <1>1, <1>3, <1>4, <1>5, <1>6 DEF Doors, Kept, In, Kind
<1> QED BY <1>6, <1>7, <1>8, <1>9, <1>10 DEF Doors, LeasedFirst

LEMMA DoorsRecordArtifact == ASSUME Doors, Shape', RecordArtifact PROVE Doors'
<1>0. /\ op.phase = "record" /\ UNCHANGED <<mem, disk, deps, server>> /\ TypeOK
  BY DEF RecordArtifact, Doors, Shape
<1>1. PICK k \in Keys : k = op.key
  BY <1>0, SMT DEF Doors, Shape, PhaseShape
<1>2. CASE journal' = [journal EXCEPT ![op.key].done = @ + 1] /\ At("create") /\ UNCHANGED leases
  <2>1. /\ \A j \in Keys : journal'[j].gen = journal[j].gen /\ journal'[j].state = journal[j].state
                           /\ (j # k => journal'[j].done = journal[j].done)
        /\ journal'[k].done = journal[k].done + 1 /\ journal[k].done \in Nat
    <3>1. PICK d : d = journal[k].done + 1
      OBVIOUS
    <3>2. journal' = [journal EXCEPT ![k].done = d]
      BY <1>1, <1>2, <3>1
    <3>3. journal \in [Keys -> Transactions]
      BY <1>0 DEF TypeOK, Transactions
    <3>4. journal[k].done \in Nat
      BY <3>3, ArtFacts, SMT DEF Transactions
    <3> QED BY <3>1, <3>2, <3>3, <3>4, SMT DEF Transactions
  <2>2. op'.phase = "create" /\ op'.key = k
    BY <1>0, <1>1, <1>2, AtFacts, "create" \in Phases DEF Phases
  <2>3. {"record", "create"} \subseteq Making /\ "create" \notin Compensating \cup {"undo"}
    BY SMT DEF Making, Compensating
  <2>4. \A x \in Arts : x[1] \in Keys /\ x[2] \in Nat /\ x[3] \in Nat
    BY ArtFacts, ImportAssumption, SMT
  <2>5. \A x \in Arts : In(x, mem) \/ In(x, disk) => (Planned(x)' <=> Planned(x))
    <3> SUFFICES ASSUME NEW x \in Arts, In(x, mem) \/ In(x, disk) PROVE Planned(x)' <=> Planned(x)
      OBVIOUS
    <3>1. x[2] < journal[x[1]].gen \/ Planned(x)
      BY DEF Doors, Known
    <3>2. journal[x[1]].gen \in Nat
      BY <1>0, <2>4, ImportAssumption, SMT DEF TypeOK
    <3> QED BY <2>1, <2>4, <3>1, <3>2, SMT DEF Planned
  <2>6. \A j \in Keys : RollsBack(j)' <=> RollsBack(j)
    BY <2>1 DEF RollsBack
  <2>7. Known'
    BY <1>0, <2>1, <2>4, <2>5 DEF Doors, Known, In, Kind
  <2>8. AheadIsDoomed'
    BY <1>0, <1>1, <2>2, <2>3, <2>4, <2>5, <2>6 DEF Doors, AheadIsDoomed, In, Kind
  <2>9. DoomedIsLeased'
    BY <1>0, <1>1, <1>2, <2>2, <2>3, <2>4, <2>5, <2>6 DEF Doors, DoomedIsLeased, In, Kind
  <2>10. Kept'
    BY <1>0, <1>1, <2>2, <2>3, <2>4, <2>5, <2>6 DEF Doors, Kept, In, Kind
  <2> QED BY <2>2, <2>3, <2>7, <2>8, <2>9, <2>10 DEF Doors, LeasedFirst
<1>3. CASE Unwind /\ UNCHANGED journal
  <2>1. Follows /\ \A y \in Arts : In(y, mem') <=> In(y, mem)
    BY <1>0 DEF Follows
  <2> QED BY <1>0, <1>3, <2>1, DoorsUnwind, "record" \in Making DEF Making
<1> QED BY <1>2, <1>3 DEF RecordArtifact

LEMMA DoorsCreateArtifact == ASSUME Doors, Shape', CreateArtifact PROVE Doors'
<1>1. PICK k \in Keys, x \in Arts :
           /\ op.key = k /\ op.phase = "create" /\ server = "up" /\ journal[k].state = "prepared"
           /\ x \in Recorded(k)
           /\ UNCHANGED <<journal, deps, server, crashes>>
           /\ \/ /\ mem' = Grown(mem, x) /\ disk' = Saved(Kind(x), Grown(mem, x)) /\ UNCHANGED <<leases, fails>>
                 /\ op' = [phase |-> IF journal[k].done = Len(Plan) THEN "archive" ELSE "record",
                           key |-> k, made |-> op.made \cup {x}, left |-> op.left,
                           back |-> IF journal[k].done = Len(Plan) THEN journal[k].prior ELSE {}]
              \/ /\ Unwind
                 /\ \/ mem' = mem /\ disk' = disk
                    \/ mem' = Grown(mem, x) /\ disk' \in {disk, Saved(Kind(x), Grown(mem, x))}
  BY CreateFacts DEF Doors
<1>2. mem \in Workspace /\ disk \in Workspace /\ TypeOK
  BY DEF Doors, Shape, TypeOK
<1>3. x[1] = k /\ Planned(x) /\ RollsBack(k)
  BY <1>1, PlannedFacts DEF Doors, RollsBack
<1>4. Grown(mem, x) \in Workspace /\ Kind(x) \in Kinds
      /\ \A y \in Arts : In(y, Grown(mem, x)) <=> In(y, mem) \/ y = x
  BY <1>2, GrownFacts, ArtFacts
<1>5. \A y \in Arts : In(y, Saved(Kind(x), Grown(mem, x))) <=>
        IF Kind(y) = Kind(x) THEN In(y, Grown(mem, x)) ELSE In(y, disk)
  BY <1>2, <1>4, SavedFacts
<1>6. \A y \in Arts : /\ (In(y, mem') \/ In(y, disk')) => In(y, mem) \/ In(y, disk) \/ y = x
                      /\ In(y, mem) => In(y, mem')
                      /\ In(y, mem) /\ In(y, disk) => In(y, disk')
                      /\ y # x => /\ (In(y, mem') <=> In(y, mem))
                                  /\ (In(y, disk') <=> In(y, disk)) \/ (In(y, disk') <=> In(y, mem'))
  BY <1>1, <1>4, <1>5
<1>7. \A y \in Arts : (Planned(y)' <=> Planned(y)) /\ (RollsBack(y[1])' <=> RollsBack(y[1]))
  BY <1>1 DEF Planned, RollsBack
<1>8. /\ op'.key = k /\ op'.phase \in Making \cup {"unwind"} /\ leases' = leases
      /\ op'.phase \in Making => In(x, disk')
      /\ "create" \in Making
  <2>1. CASE /\ mem' = Grown(mem, x) /\ disk' = Saved(Kind(x), Grown(mem, x)) /\ UNCHANGED <<leases, fails>>
             /\ op' = [phase |-> IF journal[k].done = Len(Plan) THEN "archive" ELSE "record",
                       key |-> k, made |-> op.made \cup {x}, left |-> op.left,
                       back |-> IF journal[k].done = Len(Plan) THEN journal[k].prior ELSE {}]
    BY <1>4, <1>5, <2>1 DEF Making
  <2>2. CASE Unwind
    BY <1>1, <1>2, <2>2, UnwindFacts DEF Unwind, Making
  <2> QED BY <1>1, <2>1, <2>2
<1>9. op'.phase \notin Compensating \cup {"undo"}
  BY <1>8, SMT DEF Making, Compensating
<1>10. Known'
  BY <1>1, <1>3, <1>6, <1>7 DEF Doors, Known, In, Kind
<1>11. AheadIsDoomed'
  <2> SUFFICES ASSUME NEW y \in Arts, In(y, mem'), ~In(y, disk')
               PROVE  Planned(y)' /\ RollsBack(y[1])' /\ ~(op'.key = y[1] /\ op'.phase \in Making)
    BY DEF AheadIsDoomed, In, Kind
  <2>1. CASE y = x
    BY <1>3, <1>7, <1>8, <2>1
  <2>2. CASE y # x
    <3>1. In(y, mem) /\ ~In(y, disk)
      BY <1>6, <2>2
    <3> QED BY <1>1, <1>7, <1>8, <3>1 DEF Doors, AheadIsDoomed
  <2> QED BY <2>1, <2>2
<1>12. DoomedIsLeased'
  <2> SUFFICES ASSUME server' = "up", NEW y \in Arts, In(y, mem'), Planned(y)', RollsBack(y[1])'
               PROVE  y[1] \in leases' \/ (op'.key = y[1] /\ op'.phase \in Making \cup {"unwind"})
    BY DEF DoomedIsLeased, In, Kind
  <2>1. CASE y = x
    BY <1>3, <1>8, <2>1
  <2>2. CASE y # x
    BY <1>1, <1>6, <1>7, <1>8, <2>2 DEF Doors, DoomedIsLeased
  <2> QED BY <2>1, <2>2
<1>13. Kept'
  <2> SUFFICES ASSUME NEW d \in deps', d[2] = "route"
               PROVE  /\ d[1] \in Arts /\ In(d[1], mem') /\ In(d[1], disk')
                      /\ Planned(d[1])' => /\ ~RollsBack(d[1][1])'
                                           /\ ~(op'.key = d[1][1] /\ op'.phase = "undo")
    BY DEF Kept, In, Kind
  <2>1. /\ d \in deps /\ d[1] \in Arts /\ In(d[1], mem) /\ In(d[1], disk)
        /\ Planned(d[1]) => ~RollsBack(d[1][1])
    BY <1>1 DEF Doors, Kept
  <2> QED BY <1>6, <1>7, <1>9, <2>1
<1> QED BY <1>9, <1>10, <1>11, <1>12, <1>13 DEF Doors, LeasedFirst

LEMMA DoorsRemove == ASSUME Doors, Shape', Remove PROVE Doors'
<1>1. PICK k \in Keys, x \in op.left :
           /\ op.key = k /\ op.phase \in Compensating \cup {"unwind"}
           /\ x \in Arts /\ x \in Recorded(k)
           /\ UNCHANGED <<journal, deps, crashes>>
           /\ \/ /\ mem' = Shrunk(mem, x) /\ disk' = Saved(Kind(x), Shrunk(mem, x))
                 /\ UNCHANGED <<leases, server, fails>>
                 /\ op' = [phase |-> op.phase, key |-> k, made |-> op.made, left |-> op.left \ {x},
                           back |-> op.back]
              \/ mem' \in {mem, Shrunk(mem, x)} /\ disk' = disk /\ Broken
  BY RemoveFacts DEF Doors
<1>2. mem \in Workspace /\ disk \in Workspace /\ TypeOK /\ Shape
  BY DEF Doors, Shape, TypeOK
<1>3. x[1] = k /\ Planned(x)
  BY <1>1, PlannedFacts DEF Doors
<1>4. Shrunk(mem, x) \in Workspace /\ Kind(x) \in Kinds
      /\ \A y \in Arts : In(y, Shrunk(mem, x)) <=> In(y, mem) /\ y # x
  BY <1>1, <1>2, ShrunkFacts, ArtFacts
<1>5. \A y \in Arts : In(y, Saved(Kind(x), Shrunk(mem, x))) <=>
        IF Kind(y) = Kind(x) THEN In(y, Shrunk(mem, x)) ELSE In(y, disk)
  BY <1>2, <1>4, SavedFacts
<1>6. \A y \in Arts : /\ In(y, mem') => In(y, mem)
                      /\ In(y, disk') => In(y, disk) \/ In(y, mem)
                      /\ In(y, mem) /\ y # x => In(y, mem')
                      /\ In(y, mem) /\ In(y, disk) /\ y # x => In(y, disk')
                      /\ In(y, mem') /\ ~In(y, disk') => ~In(y, disk)
  BY <1>1, <1>4, <1>5
<1>7. \A y \in Arts : (Planned(y)' <=> Planned(y)) /\ (RollsBack(y[1])' <=> RollsBack(y[1]))
  BY <1>1 DEF Planned, RollsBack
<1>8. /\ op'.phase \notin Making
      /\ op'.phase \in Compensating => op'.key \in leases'
      /\ server' = "up" => server = "up"
      /\ leases \subseteq leases'
      /\ op.phase = "unwind" => k \in leases' \/ (op'.key = k /\ op'.phase = "unwind")
      /\ op'.phase = "undo" => op.phase = "undo" /\ op'.key = k
  <2>1. CASE /\ UNCHANGED <<leases, server, fails>>
             /\ op' = [phase |-> op.phase, key |-> k, made |-> op.made, left |-> op.left \ {x},
                       back |-> op.back]
    BY <1>1, <2>1 DEF Doors, LeasedFirst, Making, Compensating
  <2>2. CASE Broken
    <3>1. CASE op.phase = "unwind"
      <4>1. Compensate(k, "rollback") /\ UNCHANGED server
        BY <1>1, <2>2, <3>1, BrokenFacts
      <4>2. op'.phase = "rollback" /\ op'.key = k /\ leases' = leases \cup {k}
        BY <4>1, SMT DEF Compensate
      <4> QED BY <4>1, <4>2 DEF Making
    <3>2. CASE op.phase = "rollback"
      <4>1. At("mark") /\ UNCHANGED <<leases, server>> /\ "mark" \in Phases
        BY <2>2, <3>2, BrokenFacts DEF Phases
      <4>2. op'.phase = "mark"
        BY <1>2, <4>1, AtFacts
      <4> QED BY <3>2, <4>1, <4>2 DEF Making, Compensating
    <3>3. CASE op.phase = "undo"
      <4>1. op' = NoOp /\ UNCHANGED leases /\ server' = (IF server = "up" THEN "up" ELSE "down")
        BY <2>2, <3>3, BrokenFacts
      <4>2. op'.phase = "idle"
        BY <4>1 DEF NoOp
      <4> QED BY <3>3, <4>1, <4>2 DEF Making, Compensating
    <3> QED BY <1>1, <3>1, <3>2, <3>3 DEF Compensating
  <2> QED BY <1>1, <2>1, <2>2
<1>9. RollsBack(k) \/ op.phase = "undo"
  BY <1>1, <1>2, SMT DEF Shape, PhaseShape, Compensating, RollsBack, Making
<1>10. Known'
  BY <1>1, <1>6, <1>7 DEF Doors, Known, In, Kind
<1>11. AheadIsDoomed'
  BY <1>6, <1>7, <1>8 DEF Doors, AheadIsDoomed, In, Kind
<1>12. DoomedIsLeased'
  <2> SUFFICES ASSUME server' = "up", NEW y \in Arts, In(y, mem'), Planned(y)', RollsBack(y[1])'
               PROVE  y[1] \in leases' \/ (op'.key = y[1] /\ op'.phase \in Making \cup {"unwind"})
    BY DEF DoomedIsLeased, In, Kind
  <2>1. y[1] \in leases \/ (op.key = y[1] /\ op.phase \in Making \cup {"unwind"})
    BY <1>6, <1>7, <1>8 DEF Doors, DoomedIsLeased
  <2>2. op.phase \notin Making
    BY <1>1, SMT DEF Making, Compensating
  <2> QED BY <1>1, <1>8, <2>1, <2>2
<1>13. Kept'
  <2> SUFFICES ASSUME NEW d \in deps', d[2] = "route"
               PROVE  /\ d[1] \in Arts /\ In(d[1], mem') /\ In(d[1], disk')
                      /\ Planned(d[1])' => /\ ~RollsBack(d[1][1])'
                                           /\ ~(op'.key = d[1][1] /\ op'.phase = "undo")
    BY DEF Kept, In, Kind
  <2>1. /\ d \in deps /\ d[1] \in Arts /\ In(d[1], mem) /\ In(d[1], disk)
        /\ Planned(d[1]) => ~RollsBack(d[1][1]) /\ ~(op.key = d[1][1] /\ op.phase = "undo")
    BY <1>1 DEF Doors, Kept
  <2>2. d[1] # x
    BY <1>1, <1>3, <1>9, <2>1
  <2> QED BY <1>1, <1>6, <1>7, <1>8, <2>1, <2>2
<1> QED BY <1>8, <1>10, <1>11, <1>12, <1>13 DEF Doors, LeasedFirst

LEMMA DoorsStart == ASSUME Doors, Shape', Start PROVE Doors'
<1>1. /\ UNCHANGED <<journal, disk, op, deps>> /\ mem' = disk /\ server' = "boot" /\ op' = op
      /\ op.phase \notin Compensating
  <2>1. op.phase = "idle"
    BY SMT DEF Start, Doors, Shape, PhaseShape
  <2> QED BY <2>1 DEF Start, Compensating
<1>2. Known' /\ AheadIsDoomed' /\ DoomedIsLeased' /\ LeasedFirst'
  BY <1>1, "boot" # "up" DEF Doors, Known, Planned, In, Kind, AheadIsDoomed, DoomedIsLeased, LeasedFirst
<1>3. Kept'
  BY <1>1 DEF Doors, Kept, Planned, RollsBack, In, Kind
<1> QED BY <1>2, <1>3 DEF Doors

\* The door of the routes does not open to what a compensation may remove.
LEMMA DoorsAttach ==
  ASSUME Doors, Shape', NEW b \in Bots, NEW door \in {"route", "card"}, Attach(b, door)
  PROVE  Doors'
<1>1. /\ UNCHANGED <<journal, mem, disk, op, leases, server>>
      /\ b \in mem.bot \ Olds /\ deps' = {<<b, door>>} /\ server = "up"
      /\ (door = "card" \/ b[1] \notin leases) /\ AtAwait
  BY DEF Attach, AtAwait
<1>2. b \in Arts /\ In(b, mem) /\ b[1] \in Keys
  BY <1>1, ArtFacts DEF Bots, In
<1>3. LeasedFirst' /\ Known' /\ AheadIsDoomed' /\ DoomedIsLeased'
  BY <1>1 DEF Doors, LeasedFirst, Known, AheadIsDoomed, DoomedIsLeased, Planned, RollsBack, In, Kind
<1>4. ASSUME door = "route"
      PROVE  /\ In(b, disk) /\ (Planned(b) => ~RollsBack(b[1]))
             /\ ~(op.key = b[1] /\ op.phase = "undo")
  <2>1. b[1] \notin leases
    BY <1>1, <1>4
  <2>2. ~(op.key = b[1] /\ op.phase \in Compensating)
    BY <2>1 DEF Doors, LeasedFirst
  <2>3. Planned(b) => ~(op.key = b[1] /\ op.phase \in Making \cup {"unwind"})
    <3> SUFFICES ASSUME op.key = b[1], op.phase \in Making \cup {"unwind"} PROVE ~Planned(b)
      OBVIOUS
    <3>1. op.phase = "select"
      BY <1>1, SMT DEF AtAwait, Making
    <3>2. journal[b[1]].done = 0
      BY <3>1 DEF Doors, Shape, MakingShape
    <3>3. b[3] > 0
      BY <1>2, ArtFacts, SMT
    <3> QED BY <1>2, <3>2, <3>3, ArtFacts, SMT DEF Planned
  <2>4. Planned(b) => ~RollsBack(b[1])
    BY <1>1, <1>2, <2>1, <2>3 DEF Doors, DoomedIsLeased
  <2>5. In(b, disk)
    BY <1>2, <2>4 DEF Doors, AheadIsDoomed
  <2> QED BY <2>2, <2>4, <2>5 DEF Compensating
<1>5. Kept'
  <2> SUFFICES ASSUME NEW d \in deps', d[2] = "route"
               PROVE  /\ d[1] \in Arts /\ In(d[1], mem) /\ In(d[1], disk)
                      /\ Planned(d[1]) => /\ ~RollsBack(d[1][1])
                                          /\ ~(op.key = d[1][1] /\ op.phase = "undo")
    BY <1>1 DEF Kept, In, Kind, Planned, RollsBack
  <2>1. d[1] = b /\ door = "route"
    BY <1>1
  <2> QED BY <1>2, <1>4, <2>1
<1> QED BY <1>3, <1>5 DEF Doors

LEMMA DoorsStep == Doors /\ [Next]_vars => Doors'
<1> SUFFICES ASSUME Doors, [Next]_vars PROVE Doors'
  OBVIOUS
<1>1. Shape'
  BY ShapeStep DEF Doors
<1> QED BY <1>1, DoorsBegin, DoorsRecordPrior, DoorsSelect, DoorsRecordArtifact, DoorsCreateArtifact,
           DoorsArchive, DoorsCommit, DoorsRequestUndo, DoorsGuard, DoorsRemove, DoorsRestore,
           DoorsFinish, DoorsMark, DoorsRecover, DoorsStart, DoorsServer, DoorsAttach DEF Next, System

\* No crew or cadence that the routes accepted names an operator that an undo or a rollback
\* deleted, whatever crashes and however many writes fail (undoCrewImportArtifacts and the
\* lease checks of the routes, NoOrphans).
THEOREM NoOrphansTheorem == Spec => []NoOrphans
<1>1. Doors => NoOrphans
  <2> SUFFICES ASSUME Doors, NEW d \in deps, d[2] = "route" PROVE d[1] \in mem.bot
    BY DEF NoOrphans
  <2>1. d[1] \in Arts /\ In(d[1], mem) /\ d[1] \in Bots
    BY DEF Doors, Kept, Shape, TypeOK
  <2> QED BY <2>1, ArtFacts DEF In
<1> QED BY <1>1, DoorsInit, DoorsStep, PTL DEF Spec

-----------------------------------------------------------------------------
(* All or nothing, part one: the crews.  A workspace is memory, or its files. *)

\* The import is committed, or may still have to be taken back.
Stands(k) == journal[k].state = "committed" \/ Pending(k)
Full(k) == journal[k].state = "committed" \/ (op.key = k /\ op.phase = "guard")

Traced == \A x \in Arts, w \in {mem, disk} : In(x, w) => Planned(x) /\ Stands(x[1])
Complete == \A x \in Arts, w \in {mem, disk} : Planned(x) /\ Full(x[1]) => In(x, w)
Made == op.phase \in Making =>
          \A x \in Arts, w \in {mem, disk} : x[1] = op.key => (In(x, w) <=> x \in op.made)
\* What a compensation does not see in memory, no restart finds in a file.
Ahead == op.phase \in Compensating \cup {"unwind"} =>
           \A x \in Arts : x[1] = op.key /\ In(x, disk) => In(x, mem)
OldsStay == Olds \subseteq mem.bot /\ Olds \subseteq disk.bot

Whole == Shape /\ Traced /\ Complete /\ Made /\ Ahead /\ OldsStay

\* A removal that memory keeps and the file does not, while a failed import unwinds: the
\* rollback after it looks at memory only.
Lost == op.phase = "unwind" /\ op'.phase = "rollback" /\ \E x \in op.left : x \notin mem'[Kind(x)]

Vanished(k) == \A x \in Arts : x[1] = k => ~In(x, mem) /\ ~In(x, disk)

LEMMA WholeInit == Init => Whole
<1> SUFFICES ASSUME Init PROVE Whole
  OBVIOUS
<1>1. \A x \in Arts : ~In(x, mem) /\ ~In(x, disk)
  BY ArtFacts, SMT DEF Init, In, Kinds
<1>2. op.phase = "idle" /\ \A k \in Keys : ~Full(k)
  BY SMT DEF Init, NoOp, Full
<1>3. "idle" \notin Making \cup Compensating \cup {"unwind"} /\ Olds \subseteq mem.bot /\ Olds \subseteq disk.bot
  BY SMT DEF Init, Making, Compensating
<1> QED BY <1>1, <1>2, <1>3, ShapeInit, ArtFacts
        DEF Whole, Traced, Complete, Made, Ahead, OldsStay

\* Steps that create nothing and plan nothing.
LEMMA WholeQuiet ==
  ASSUME Whole, Shape', Ahead', OldsStay',
         \A y \in Arts : In(y, mem') \/ In(y, disk') => In(y, mem) \/ In(y, disk),
         \A y \in Arts : ~(op.key = y[1] /\ op.phase \in Compensating \cup {"unwind"}) =>
           (In(y, mem) /\ In(y, disk) => In(y, mem') /\ In(y, disk')),
         \A k \in Keys : journal'[k].gen = journal[k].gen /\ journal'[k].done = journal[k].done,
         \A k \in Keys : Stands(k) => Stands(k)' \/ Vanished(k),
         \A k \in Keys : Full(k)' =>
           Full(k) \/ (op.key = k /\ op.phase \in Making /\ op.made = Recorded(k)),
         op'.phase \in Making => op.phase \in Making /\ op'.key = op.key /\ op'.made = op.made
  PROVE  Whole'
<1>1. \A x \in Arts : x[1] \in Keys
  BY ArtFacts
<1>2. \A x \in Arts : Planned(x)' <=> Planned(x)
  BY <1>1 DEF Planned
<1>3. Traced'
  <2> SUFFICES ASSUME NEW x \in Arts, In(x, mem') \/ In(x, disk')
               PROVE  Planned(x)' /\ Stands(x[1])'
    BY DEF Traced, In, Kind
  <2>1. In(x, mem) \/ In(x, disk)
    OBVIOUS
  <2>2. Planned(x) /\ Stands(x[1]) /\ ~Vanished(x[1])
    BY <2>1 DEF Whole, Traced, Vanished
  <2> QED BY <1>1, <1>2, <2>2
<1>4. Complete'
  <2> SUFFICES ASSUME NEW x \in Arts, Planned(x)', Full(x[1])' PROVE In(x, mem') /\ In(x, disk')
    BY DEF Complete, In, Kind
  <2>1. Planned(x) /\ x[1] \in Keys
    BY <1>1, <1>2
  <2>2. CASE Full(x[1])
    <3>1. In(x, mem) /\ In(x, disk)
      BY <2>1, <2>2 DEF Whole, Complete
    <3>2. ~(op.key = x[1] /\ op.phase \in Compensating \cup {"unwind"})
      BY <2>1, <2>2, SMT DEF Whole, Shape, PhaseShape, Full, RollsBack, Compensating, Making
    <3> QED BY <3>1, <3>2
  <2>3. CASE op.key = x[1] /\ op.phase \in Making /\ op.made = Recorded(x[1])
    <3>1. x \in op.made
      BY <2>1, <2>3, PlannedFacts DEF Whole
    <3>2. In(x, mem) /\ In(x, disk)
      BY <2>3, <3>1 DEF Whole, Made
    <3>3. op.phase \notin Compensating \cup {"unwind"}
      BY <2>3, SMT DEF Making, Compensating
    <3> QED BY <3>2, <3>3
  <2> QED BY <2>1, <2>2, <2>3
<1>5. Made'
  <2> SUFFICES ASSUME op'.phase \in Making, NEW x \in Arts, x[1] = op'.key
               PROVE  (In(x, mem') <=> x \in op'.made) /\ (In(x, disk') <=> x \in op'.made)
    BY DEF Made, In, Kind
  <2>1. (In(x, mem) <=> x \in op.made) /\ (In(x, disk) <=> x \in op.made)
    BY DEF Whole, Made
  <2>2. op.phase \notin Compensating \cup {"unwind"}
    BY SMT DEF Making, Compensating
  <2> QED BY <2>1, <2>2
<1> QED BY <1>3, <1>4, <1>5 DEF Whole

\* The ends that many steps have leave the artifacts alone, or memory as it was.
LEMMA WholeCompensate ==
  ASSUME Whole, Shape', OldsStay', NEW k \in Keys, NEW phase \in Compensating, Compensate(k, phase),
         UNCHANGED journal, Follows, \A y \in Arts : In(y, mem') <=> In(y, mem),
         \A y \in Arts : y[1] = k /\ In(y, disk') => In(y, mem)
  PROVE  Whole'
<1>1. op'.phase = phase /\ op'.key = k
  BY SMT DEF Compensate
<1>2. op'.phase \notin Making \cup {"guard"}
  BY <1>1, SMT DEF Making, Compensating
<1>3. \A j \in Keys : journal'[j].gen = journal[j].gen /\ journal'[j].done = journal[j].done
                      /\ (Stands(j) => Stands(j)') /\ (Full(j)' => Full(j))
  BY <1>2 DEF Stands, Pending, Full
<1>4. Ahead'
  BY <1>1 DEF Ahead, In, Kind
<1>5. \A y \in Arts : /\ In(y, mem') \/ In(y, disk') => In(y, mem) \/ In(y, disk)
                      /\ In(y, mem) /\ In(y, disk) => In(y, mem') /\ In(y, disk')
  BY DEF Follows
<1> QED BY <1>2, <1>3, <1>4, <1>5, WholeQuiet

LEMMA WholeUnwind ==
  ASSUME Whole, Shape', OldsStay', Unwind, UNCHANGED journal, op.phase \in Making,
         \A y \in Arts : In(y, mem') <=> In(y, mem), \A y \in Arts : In(y, disk') <=> In(y, disk)
  PROVE  Whole'
<1>1. op'.phase = "unwind" /\ op'.key = op.key
  BY UnwindFacts DEF Whole, Shape
<1>2. op'.phase \notin Making \cup {"guard"}
  BY <1>1, SMT DEF Making
<1>3. \A j \in Keys : journal'[j].gen = journal[j].gen /\ journal'[j].done = journal[j].done
                      /\ (Stands(j) => Stands(j)') /\ (Full(j)' => Full(j))
  BY <1>2 DEF Stands, Pending, Full
<1>4. Ahead'
  BY <1>1 DEF Ahead, Whole, Made, In, Kind
<1> QED BY <1>2, <1>3, <1>4, WholeQuiet

LEMMA WholeIdle ==
  ASSUME Whole, Shape', op' = NoOp, UNCHANGED <<mem, disk>>,
         \A k \in Keys : journal'[k].gen = journal[k].gen /\ journal'[k].done = journal[k].done,
         \A k \in Keys : Stands(k) => Stands(k)' \/ Vanished(k),
         \A k \in Keys : journal'[k].state = "committed" =>
           Full(k) \/ (op.key = k /\ op.phase \in Making /\ op.made = Recorded(k))
  PROVE  Whole'
<1>1. op'.phase = "idle" /\ op'.phase \notin Making \cup Compensating \cup {"unwind", "guard"}
  BY SMT DEF NoOp, Making, Compensating
<1>2. \A k \in Keys : Full(k)' =>
        Full(k) \/ (op.key = k /\ op.phase \in Making /\ op.made = Recorded(k))
  BY <1>1 DEF Full
<1>3. Ahead' /\ OldsStay'
  BY <1>1 DEF Ahead, OldsStay, Whole
<1> QED BY <1>1, <1>2, <1>3, WholeQuiet

\* A step of the mutation that creates nothing.
LEMMA WholeMaking ==
  ASSUME Whole, Shape', OldsStay', op.phase \in Making, op'.phase \in Making, op'.key = op.key,
         op'.made = op.made,
         \A y \in Arts : In(y, mem') <=> In(y, mem),
         Follows,
         \A k \in Keys : /\ journal'[k].gen = journal[k].gen /\ journal'[k].done = journal[k].done
                         /\ journal'[k].state = journal[k].state
  PROVE  Whole'
<1>1. op'.phase \notin Compensating \cup {"unwind", "guard"}
  BY SMT DEF Making, Compensating
<1>2. \A k \in Keys : (Stands(k) => Stands(k)') /\ (Full(k)' => Full(k))
  BY <1>1 DEF Stands, Pending, Full
<1>3. Ahead'
  BY <1>1 DEF Ahead
<1>4. \A y \in Arts : /\ In(y, mem') \/ In(y, disk') => In(y, mem) \/ In(y, disk)
                      /\ In(y, mem) /\ In(y, disk) => In(y, mem') /\ In(y, disk')
  BY DEF Follows
<1> QED BY <1>2, <1>3, <1>4, WholeQuiet

LEMMA WholeRecordPrior == ASSUME Whole, Shape', RecordPrior PROVE Whole'
<1>0. op.phase = "plan" /\ UNCHANGED <<mem, disk>> /\ op.key \in Keys /\ OldsStay'
  BY SMT DEF RecordPrior, Whole, Shape, PhaseShape, OldsStay
<1>1. {"plan", "select"} \subseteq Making
  BY DEF Making
<1>2. Follows
  BY <1>0 DEF Follows
<1>3. ASSUME NEW prior, journal' = [journal EXCEPT ![op.key].prior = prior], At("select")
      PROVE  Whole'
  <2>1. op'.phase = "select" /\ op'.key = op.key /\ op'.made = op.made
    BY <1>3, AtFacts, "select" \in Phases DEF Whole, Shape, Phases
  <2>2. \A j \in Keys : /\ journal'[j].gen = journal[j].gen /\ journal'[j].done = journal[j].done
                        /\ journal'[j].state = journal[j].state
    BY <1>3, SMT DEF Whole, Shape, TypeOK
  <2> QED BY <1>0, <1>1, <1>2, <2>1, <2>2, WholeMaking
<1>4. ASSUME Compensate(op.key, "rollback"), UNCHANGED journal PROVE Whole'
  <2>1. PICK k \in Keys : k = op.key
    BY <1>0
  <2>2. Compensate(k, "rollback") /\ "rollback" \in Compensating
    BY <1>4, <2>1 DEF Compensating
  <2>3. \A y \in Arts : y[1] = k /\ In(y, disk) => In(y, mem)
    BY <1>0, <1>1, <2>1 DEF Whole, Made
  <2> QED BY <1>0, <1>2, <1>4, <2>2, <2>3, WholeCompensate
<1> QED BY <1>3, <1>4 DEF RecordPrior

LEMMA WholeSelect == ASSUME Whole, Shape', Select PROVE Whole'
<1>0. op.phase = "select" /\ UNCHANGED <<journal, mem, disk>> /\ OldsStay'
  BY DEF Select, Whole, OldsStay
<1>1. {"record", "select"} \subseteq Making
  BY DEF Making
<1>2. ASSUME At("record") PROVE Whole'
  <2>1. op'.phase = "record" /\ op'.key = op.key /\ op'.made = op.made
    BY <1>2, AtFacts, "record" \in Phases DEF Whole, Shape, Phases
  <2>2. Follows
    BY <1>0 DEF Follows
  <2> QED BY <1>0, <1>1, <2>1, <2>2, WholeMaking
<1> QED BY <1>0, <1>1, <1>2, WholeUnwind DEF Select

LEMMA WholeArchive == ASSUME Whole, Shape', Archive PROVE Whole'
<1>1. PICK k \in Keys, b \in op.back, H \in SUBSET Bots :
           /\ op.key = k /\ op.phase = "archive" /\ UNCHANGED <<journal, deps, server, crashes>>
           /\ mem' = Rehidden(mem, H) /\ mem' \in Workspace
           /\ \/ /\ disk' = Saved("bot", Rehidden(mem, H))
                 /\ op' = [op EXCEPT !.back = @ \ {b}]
              \/ Unwind /\ disk' = disk
  BY ArchiveFacts DEF Whole
<1>2. mem \in Workspace /\ disk \in Workspace /\ TypeOK /\ "bot" \in Kinds /\ "archive" \in Making
  BY DEF Whole, Shape, TypeOK, Kinds, Making
<1>3. /\ \A y \in Arts : In(y, mem') <=> In(y, mem)
      /\ mem'.bot = mem.bot
  BY <1>1, <1>2, RehiddenFacts
<1>4. Follows /\ disk'.bot \in {mem.bot, disk.bot}
  BY <1>1, <1>2, <1>3, SavedFacts DEF Follows
<1>5. OldsStay'
  BY <1>3, <1>4 DEF Whole, OldsStay
<1>6. CASE op' = [op EXCEPT !.back = @ \ {b}]
  <2>1. op'.phase = "archive" /\ op'.key = k /\ op'.made = op.made
    BY <1>1, <1>2, <1>6, BackFacts
  <2> QED BY <1>1, <1>2, <1>3, <1>4, <1>5, <2>1, WholeMaking
<1>7. CASE Unwind /\ disk' = disk
  <2>1. \A y \in Arts : In(y, disk') <=> In(y, disk)
    BY <1>7
  <2> QED BY <1>1, <1>2, <1>3, <1>5, <1>7, <2>1, WholeUnwind
<1> QED BY <1>1, <1>6, <1>7

LEMMA WholeCommit == ASSUME Whole, Shape', Commit PROVE Whole'
<1>0. /\ op.phase = "archive" /\ UNCHANGED <<mem, disk>> /\ op.key \in Keys /\ TypeOK
      /\ journal[op.key].state = "prepared" /\ "archive" \in Making /\ OldsStay'
  BY SMT DEF Commit, Whole, Shape, PhaseShape, Making, OldsStay
<1>1. PICK k \in Keys : k = op.key
  BY <1>0
<1>2. CASE Put(op.key, "committed") /\ op' = NoOp
  <2>1. \A j \in Keys : /\ journal'[j].gen = journal[j].gen /\ journal'[j].done = journal[j].done
                        /\ journal'[j].state = IF j = k THEN "committed" ELSE journal[j].state
    BY <1>0, <1>1, <1>2, PutFacts, "committed" \in States DEF States
  <2>2. op.made = Recorded(k)
    BY <1>0, <1>1, "archive" # "create" DEF Whole, Shape, MakingShape, First, Recorded
  <2>3. \A j \in Keys : /\ Stands(j) => Stands(j)'
                        /\ journal'[j].state = "committed" => Full(j) \/ j = k
    BY <2>1, SMT DEF Stands, Pending, Full
  <2> QED BY <1>0, <1>1, <1>2, <2>1, <2>2, <2>3, WholeIdle
<1>3. CASE UNCHANGED journal /\ Compensate(op.key, "rollback")
  <2>1. Compensate(k, "rollback") /\ "rollback" \in Compensating
    BY <1>1, <1>3 DEF Compensating
  <2>2. Follows /\ \A y \in Arts : y[1] = k /\ In(y, disk) => In(y, mem)
    BY <1>0, <1>1 DEF Whole, Made, Follows
  <2> QED BY <1>0, <1>3, <2>1, <2>2, WholeCompensate
<1> QED BY <1>2, <1>3 DEF Commit

LEMMA WholeRequestUndo == ASSUME Whole, Shape', NEW k \in Keys, RequestUndo(k) PROVE Whole'
<1>1. op'.phase = "guard" /\ op'.key = k
  BY BegunFacts DEF RequestUndo
<1>2. journal[k].state = "committed" /\ Put(k, "undoing") /\ UNCHANGED <<mem, disk>> /\ TypeOK
  BY DEF RequestUndo, Whole, Shape
<1>3. \A j \in Keys : /\ journal'[j].gen = journal[j].gen /\ journal'[j].done = journal[j].done
                      /\ journal'[j].state = IF j = k THEN "undoing" ELSE journal[j].state
  BY <1>2, PutFacts, "undoing" \in States DEF States
<1>4. \A j \in Keys : (Stands(j) => Stands(j)') /\ (Full(j)' => Full(j))
  BY <1>1, <1>2, <1>3, SMT DEF Stands, Pending, Full
<1>5. op'.phase \notin Making \cup Compensating \cup {"unwind"}
  BY <1>1, SMT DEF Making, Compensating
<1>6. Ahead' /\ OldsStay'
  BY <1>2, <1>5 DEF Ahead, OldsStay, Whole
<1> QED BY <1>2, <1>3, <1>4, <1>5, <1>6, WholeQuiet

LEMMA WholeGuard == ASSUME Whole, Shape', Guard PROVE Whole'
<1>0. /\ op.phase = "guard" /\ UNCHANGED <<mem, disk>> /\ op.key \in Keys /\ TypeOK
      /\ journal[op.key].state = "undoing" /\ OldsStay'
  BY SMT DEF Guard, Whole, Shape, PhaseShape, OldsStay
<1>1. PICK k \in Keys : k = op.key
  BY <1>0
<1>2. CASE op' = NoOp /\ (Put(op.key, "committed") \/ UNCHANGED journal)
  <2>1. \A j \in Keys : /\ journal'[j].gen = journal[j].gen /\ journal'[j].done = journal[j].done
                        /\ journal'[j].state = journal[j].state
                             \/ (j = k /\ journal'[j].state = "committed")
    BY <1>0, <1>1, <1>2, PutFacts, "committed" \in States DEF States
  <2>2. \A j \in Keys : /\ Stands(j) => Stands(j)'
                        /\ journal'[j].state = "committed" => Full(j)
    BY <1>0, <1>1, <2>1 DEF Stands, Pending, Full
  <2> QED BY <1>0, <1>1, <1>2, <2>1, <2>2, WholeIdle
<1>3. CASE Compensate(op.key, "undo") /\ UNCHANGED journal
  <2>1. Compensate(k, "undo") /\ "undo" \in Compensating
    BY <1>1, <1>3 DEF Compensating
  <2>2. \A y \in Arts : y[1] = k /\ In(y, disk) => In(y, mem)
    BY <1>0, <1>1 DEF Whole, Traced, Complete, Full
  <2>3. Follows
    BY <1>0 DEF Follows
  <2> QED BY <1>0, <1>3, <2>1, <2>2, <2>3, WholeCompensate
<1> QED BY <1>2, <1>3 DEF Guard

LEMMA WholeRemove == ASSUME Whole, Shape', Remove, ~Lost PROVE Whole'
<1>1. PICK k \in Keys, x \in op.left :
           /\ op.key = k /\ op.phase \in Compensating \cup {"unwind"}
           /\ x \in Arts /\ x \in Recorded(k) /\ UNCHANGED <<journal, deps, crashes>>
           /\ \/ /\ mem' = Shrunk(mem, x) /\ disk' = Saved(Kind(x), Shrunk(mem, x))
                 /\ op' = [phase |-> op.phase, key |-> k, made |-> op.made, left |-> op.left \ {x},
                           back |-> op.back]
              \/ mem' \in {mem, Shrunk(mem, x)} /\ disk' = disk /\ Broken
  BY RemoveFacts DEF Whole
<1>2. /\ mem \in Workspace /\ disk \in Workspace /\ TypeOK /\ Kind(x) \in Kinds
      /\ x[1] = k /\ x \notin Olds
  BY <1>1, ArtFacts, PlannedFacts DEF Whole, Shape, TypeOK
<1>3. /\ Shrunk(mem, x) \in Workspace /\ Shrunk(mem, x).bot \in {mem.bot, mem.bot \ {x}}
      /\ \A y \in Arts : In(y, Shrunk(mem, x)) <=> In(y, mem) /\ y # x
  BY <1>1, <1>2, ShrunkFacts
<1>4. /\ \A y \in Arts : In(y, Saved(Kind(x), Shrunk(mem, x))) <=>
           IF Kind(y) = Kind(x) THEN In(y, Shrunk(mem, x)) ELSE In(y, disk)
      /\ Saved(Kind(x), Shrunk(mem, x)).bot \in {Shrunk(mem, x).bot, disk.bot}
  BY <1>2, <1>3, SavedFacts
<1>5. OldsStay'
  BY <1>1, <1>2, <1>3, <1>4 DEF OldsStay, Whole
<1>6. \A y \in Arts : /\ In(y, mem') \/ In(y, disk') => In(y, mem) \/ In(y, disk)
                      /\ y # x /\ In(y, mem) /\ In(y, disk) => In(y, mem') /\ In(y, disk')
  BY <1>1, <1>3, <1>4
<1>7. op'.phase \notin Making \cup {"guard"}
      /\ (op'.phase \in Compensating \cup {"unwind"} =>
            op'.key = k /\ (op'.phase = op.phase \/ (op.phase = "unwind" /\ op'.phase = "rollback")))
      /\ (Broken /\ op.phase = "rollback" => op'.phase = "mark")
      /\ (Broken /\ op.phase = "undo" => op'.phase = "idle")
      /\ (Broken /\ op.phase = "unwind" => op'.phase = "rollback")
  <2>1. CASE op' = [phase |-> op.phase, key |-> k, made |-> op.made, left |-> op.left \ {x},
                    back |-> op.back] /\ ~Broken
    BY <1>1, <2>1 DEF Making, Compensating
  <2>2. CASE Broken
    <3>1. CASE op.phase = "unwind"
      <4>1. Compensate(k, "rollback")
        BY <1>1, <2>2, <3>1, BrokenFacts
      <4>2. op'.phase = "rollback" /\ op'.key = k
        BY <4>1, SMT DEF Compensate
      <4> QED BY <3>1, <4>2 DEF Making, Compensating
    <3>2. CASE op.phase = "rollback"
      <4>1. At("mark") /\ "mark" \in Phases
        BY <2>2, <3>2, BrokenFacts DEF Phases
      <4>2. op'.phase = "mark"
        BY <1>2, <4>1, AtFacts
      <4> QED BY <3>2, <4>2 DEF Making, Compensating
    <3>3. CASE op.phase = "undo"
      <4>1. op'.phase = "idle"
        BY <2>2, <3>3, BrokenFacts DEF NoOp
      <4> QED BY <3>3, <4>1 DEF Making, Compensating
    <3> QED BY <1>1, <3>1, <3>2, <3>3 DEF Compensating
  <2> QED BY <1>1, <2>1, <2>2
<1>8. Ahead'
  <2> SUFFICES ASSUME op'.phase \in Compensating \cup {"unwind"}, NEW y \in Arts, y[1] = op'.key,
                      In(y, disk')
               PROVE  In(y, mem')
    BY DEF Ahead, In, Kind
  <2>1. op'.key = k /\ (In(y, disk) => In(y, mem))
    BY <1>1, <1>7 DEF Whole, Ahead
  <2>2. CASE ~Broken
    BY <1>1, <1>3, <1>4, <2>1, <2>2
  <2>3. CASE Broken
    <3>1. op.phase = "unwind" /\ op'.phase = "rollback"
      BY <1>1, <1>7, <2>3 DEF Compensating
    <3>2. x \in mem'[Kind(x)]
      BY <3>1 DEF Lost
    <3>3. In(x, mem')
      BY <3>2 DEF In
    <3> QED BY <1>1, <1>3, <1>4, <2>1, <3>3
  <2> QED BY <2>2, <2>3
<1>9. \A j \in Keys : journal'[j].gen = journal[j].gen /\ journal'[j].done = journal[j].done
                      /\ (Stands(j) => Stands(j)') /\ (Full(j)' => Full(j))
  BY <1>1, <1>7 DEF Stands, Pending, Full
<1> QED BY <1>1, <1>2, <1>5, <1>6, <1>7, <1>8, <1>9, WholeQuiet

LEMMA WholeRestore == ASSUME Whole, Shape', Restore PROVE Whole'
<1>1. PICK k \in Keys, b \in op.back, H \in SUBSET Bots :
           /\ op.key = k /\ op.phase \in Compensating \cup {"unwind"} /\ op.left = {}
           /\ UNCHANGED <<journal, deps, crashes>>
           /\ \/ /\ \/ mem' = Rehidden(mem, H) /\ disk' = Saved("bot", Rehidden(mem, H))
                    \/ mem' = mem /\ disk' = disk
                 /\ op' = [phase |-> op.phase, key |-> k, made |-> op.made, left |-> {},
                           back |-> op.back \ {b}]
              \/ mem' = Rehidden(mem, H) /\ disk' = disk /\ Broken
  BY RestoreFacts DEF Whole
<1>2. mem \in Workspace /\ disk \in Workspace /\ TypeOK /\ "bot" \in Kinds
  BY DEF Whole, Shape, TypeOK, Kinds
<1>3. (\A y \in Arts : In(y, mem') <=> In(y, mem)) /\ mem'.bot = mem.bot
  BY <1>1, <1>2, RehiddenFacts
<1>4. Follows /\ disk'.bot \in {mem.bot, disk.bot}
  BY <1>1, <1>2, RehiddenFacts, SavedFacts DEF Follows
<1>5. OldsStay'
  BY <1>3, <1>4 DEF Whole, OldsStay
<1>6. /\ op'.phase \notin Making \cup {"guard"}
      /\ op'.phase \in Compensating \cup {"unwind"} => op'.key = k
  <2>1. CASE op' = [phase |-> op.phase, key |-> k, made |-> op.made, left |-> {},
                    back |-> op.back \ {b}]
    BY <1>1, <2>1 DEF Making, Compensating
  <2>2. CASE Broken
    <3>1. CASE op.phase = "unwind"
      <4>1. Compensate(k, "rollback")
        BY <1>1, <2>2, <3>1, BrokenFacts
      <4>2. op'.phase = "rollback" /\ op'.key = k
        BY <4>1, SMT DEF Compensate
      <4> QED BY <4>2 DEF Making
    <3>2. CASE op.phase = "rollback"
      <4>1. At("mark") /\ "mark" \in Phases
        BY <2>2, <3>2, BrokenFacts DEF Phases
      <4>2. op'.phase = "mark"
        BY <1>2, <4>1, AtFacts
      <4> QED BY <4>2 DEF Making, Compensating
    <3>3. CASE op.phase = "undo"
      <4>1. op'.phase = "idle"
        BY <2>2, <3>3, BrokenFacts DEF NoOp
      <4> QED BY <4>1 DEF Making, Compensating
    <3> QED BY <1>1, <3>1, <3>2, <3>3 DEF Compensating
  <2> QED BY <1>1, <2>1, <2>2
<1>7. Ahead'
  <2> SUFFICES ASSUME op'.phase \in Compensating \cup {"unwind"}, NEW y \in Arts, y[1] = op'.key,
                      In(y, disk')
               PROVE  In(y, mem')
    BY DEF Ahead, In, Kind
  <2>1. y[1] = k /\ (In(y, disk) => In(y, mem))
    BY <1>1, <1>6 DEF Whole, Ahead
  <2> QED BY <1>3, <1>4, <2>1 DEF Follows
<1>8. \A j \in Keys : journal'[j].gen = journal[j].gen /\ journal'[j].done = journal[j].done
                      /\ (Stands(j) => Stands(j)') /\ (Full(j)' => Full(j))
  BY <1>1, <1>6 DEF Stands, Pending, Full
<1>9. \A y \in Arts : /\ In(y, mem') \/ In(y, disk') => In(y, mem) \/ In(y, disk)
                      /\ In(y, mem) /\ In(y, disk) => In(y, mem') /\ In(y, disk')
  BY <1>3, <1>4 DEF Follows
<1> QED BY <1>5, <1>6, <1>7, <1>8, <1>9, WholeQuiet

LEMMA WholeFinish == ASSUME Whole, Shape', Finish PROVE Whole'
<1>0. /\ op.phase \in Compensating \cup {"unwind"} /\ op.left = {} /\ UNCHANGED <<mem, disk>>
      /\ Shape /\ TypeOK /\ OldsStay'
  BY DEF Finish, Compensating, Whole, Shape, OldsStay
<1>1. PICK k \in Keys : k = op.key
  BY <1>0, SMT DEF Shape, PhaseShape, Compensating
<1>2. CASE op.phase = "unwind"
  <2>1. Compensate(k, "rollback") /\ UNCHANGED journal /\ "rollback" \in Compensating
    BY <1>1, <1>2 DEF Finish, Compensating
  <2>2. Follows /\ \A y \in Arts : y[1] = k /\ In(y, disk) => In(y, mem)
    BY <1>0, <1>1 DEF Whole, Ahead, Follows
  <2> QED BY <1>0, <2>1, <2>2, WholeCompensate
<1>3. CASE op.phase # "unwind"
  <2>1. Vanished(k)
    <3>1. Emptied(k) /\ op.phase \in Compensating
      BY <1>0, <1>1, <1>3, EmptiedFacts
    <3>2. \A x \in Arts : x[1] = k /\ (In(x, mem) \/ In(x, disk)) => Planned(x)
      BY DEF Whole, Traced
    <3>3. \A x \in Arts : x[1] = k /\ In(x, disk) => In(x, mem)
      BY <1>1, <3>1 DEF Whole, Ahead
    <3> QED BY <3>1, <3>2, <3>3 DEF Emptied, Vanished
  <2>2. \/ (Put(k, "undone") \/ Put(k, "rolled_back") \/ UNCHANGED journal) /\ op' = NoOp
        \/ UNCHANGED journal /\ At("mark")
    BY <1>1, <1>3 DEF Finish, Fall, Answer, Die
  <2>3. CASE (Put(k, "undone") \/ Put(k, "rolled_back") \/ UNCHANGED journal) /\ op' = NoOp
    <3>1. \A j \in Keys : /\ journal'[j].gen = journal[j].gen /\ journal'[j].done = journal[j].done
                          /\ \/ journal'[j].state = journal[j].state
                             \/ j = k /\ journal'[j].state \in {"undone", "rolled_back"}
      BY <1>0, <2>3, PutFacts, "undone" \in States, "rolled_back" \in States DEF States
    <3>2. \A j \in Keys : /\ Stands(j) => Stands(j)' \/ j = k
                          /\ journal'[j].state = "committed" => Full(j)
      BY <3>1, SMT DEF Stands, Pending, Full
    <3> QED BY <1>0, <2>1, <2>3, <3>1, <3>2, WholeIdle
  <2>4. CASE UNCHANGED journal /\ At("mark")
    <3>1. op'.phase = "mark"
      BY <1>0, <2>4, AtFacts, "mark" \in Phases DEF Phases
    <3>2. "mark" \notin Making \cup Compensating \cup {"unwind", "guard"}
      BY SMT DEF Making, Compensating
    <3>3. \A j \in Keys : journal'[j].gen = journal[j].gen /\ journal'[j].done = journal[j].done
                          /\ (Stands(j) => Stands(j)') /\ (Full(j)' => Full(j))
      BY <2>4, <3>1, <3>2 DEF Stands, Pending, Full
    <3>4. Ahead'
      BY <3>1, <3>2 DEF Ahead
    <3> QED BY <1>0, <3>1, <3>2, <3>3, <3>4, WholeQuiet
  <2> QED BY <2>2, <2>3, <2>4
<1> QED BY <1>2, <1>3

LEMMA WholeMark == ASSUME Whole, Shape', Mark PROVE Whole'
<1>0. op.phase = "mark" /\ UNCHANGED <<mem, disk>> /\ Shape /\ TypeOK /\ op' = NoOp
  BY DEF Mark, Fall, Answer, Die, Whole, Shape
<1>1. PICK k \in Keys : k = op.key /\ RollsBack(k)
  BY <1>0, SMT DEF Shape, PhaseShape
<1>2. \A j \in Keys : /\ journal'[j].gen = journal[j].gen /\ journal'[j].done = journal[j].done
                      /\ journal'[j].state = journal[j].state
                           \/ (j = k /\ journal'[j].state = "rollback_failed")
  <2>1. Put(k, "rollback_failed") \/ UNCHANGED journal
    BY <1>1 DEF Mark
  <2> QED BY <1>0, <2>1, PutFacts, "rollback_failed" \in States DEF States
<1>3. \A j \in Keys : /\ Stands(j) => Stands(j)'
                      /\ journal'[j].state = "committed" => Full(j)
  BY <1>2, SMT DEF Stands, Pending, Full
<1> QED BY <1>0, <1>2, <1>3, WholeIdle

LEMMA WholeRecover == ASSUME Whole, Shape', NEW k \in Keys, Recover(k) PROVE Whole'
<1>0. /\ server = "boot" /\ op.phase = "idle" /\ UNCHANGED <<journal, mem, disk>>
  BY DEF Recover, NoOp
<1>1. mem = disk
  BY <1>0, "idle" # "mark" DEF Whole, Shape, BootShape
<1>2. Follows /\ OldsStay' /\ \A y \in Arts : y[1] = k /\ In(y, disk) => In(y, mem)
  BY <1>0, <1>1 DEF Follows, OldsStay, Whole
<1>3. CASE Compensate(k, "rollback")
  BY <1>0, <1>2, <1>3, WholeCompensate, "rollback" \in Compensating DEF Compensating
<1>4. CASE op' = NoOp
  <2>1. \A j \in Keys : /\ Stands(j) => Stands(j)'
                        /\ journal'[j].state = "committed" => Full(j)
    BY <1>0 DEF Stands, Pending, Full
  <2> QED BY <1>0, <1>4, <2>1, WholeIdle
<1>5. CASE Compensate(k, "undo")
  BY <1>0, <1>2, <1>5, WholeCompensate, "undo" \in Compensating DEF Compensating
<1> QED BY <1>3, <1>4, <1>5 DEF Recover, Die

LEMMA WholeServer ==
  ASSUME Whole, Shape',
         Crash \/ Ready \/ Start \/ Detach \/ UNCHANGED vars
           \/ \E b \in Bots, door \in {"route", "card"} : Attach(b, door)
  PROVE  Whole'
<1>1. UNCHANGED journal => \A j \in Keys : /\ Stands(j) => Stands(j)'
                                           /\ journal'[j].state = "committed" => Full(j)
  BY DEF Stands, Pending, Full
<1>2. CASE Crash
  BY <1>1, <1>2, WholeIdle DEF Crash
<1>3. CASE Start
  <2>1. mem' = disk /\ UNCHANGED <<journal, disk, op>> /\ op.phase = "idle"
    BY <1>3, SMT DEF Start, Whole, Shape, PhaseShape
  <2>2. op.phase \notin Making \cup Compensating \cup {"unwind", "guard"}
    BY <2>1, SMT DEF Making, Compensating
  <2>3. Ahead' /\ OldsStay'
    BY <2>1 DEF Ahead, OldsStay, Whole
  <2>4. \A j \in Keys : (Stands(j) => Stands(j)') /\ (Full(j)' => Full(j))
    BY <2>1, <2>2 DEF Stands, Pending, Full
  <2> QED BY <2>1, <2>2, <2>3, <2>4, WholeQuiet
<1>4. CASE UNCHANGED <<journal, mem, disk, op>>
  <2>1. Ahead' /\ OldsStay' /\ Traced' /\ Complete' /\ Made'
    BY <1>4 DEF Whole, Ahead, OldsStay, Traced, Complete, Made, Planned, Stands, Pending, Full
  <2> QED BY <2>1 DEF Whole
<1> QED BY <1>2, <1>3, <1>4 DEF Ready, Detach, Attach, vars

LEMMA WholeBegin == ASSUME Whole, Shape', NEW k \in Keys, Begin(k) PROVE Whole'
<1>1. /\ op.phase = "idle" /\ ~Stands(k) /\ UNCHANGED <<mem, disk>> /\ "plan" \in Making
      /\ op' = [phase |-> "plan", key |-> k, made |-> {}, left |-> {}, back |-> {}]
  BY BegunFacts DEF Begin, NoOp, Stands, Pending, Making
<1>2. \A j \in Keys : j # k => journal'[j] = journal[j]
  <2>1. journal \in [Keys -> Transactions]
    BY DEF Whole, Shape, TypeOK, Transactions
  <2> QED BY <2>1, SMT DEF Begin, Transactions
<1>3. journal'[k].state = "prepared"
  BY <1>1 DEF Shape, PhaseShape
<1>4. \A x \in Arts : /\ x[1] \in Keys
                      /\ x[1] = k => ~In(x, mem) /\ ~In(x, disk)
  BY <1>1, ArtFacts DEF Whole, Traced
<1>5. \A x \in Arts : x[1] # k => /\ (Planned(x)' <=> Planned(x))
                                  /\ (Stands(x[1])' <=> Stands(x[1]))
                                  /\ (Full(x[1])' => Full(x[1]))
  BY <1>1, <1>2, <1>4 DEF Planned, Stands, Pending, Full
<1>6. ~Full(k)'
  BY <1>1, <1>3 DEF Full
<1>7. Traced'
  BY <1>1, <1>4, <1>5 DEF Whole, Traced, In, Kind
<1>8. Complete'
  <2> SUFFICES ASSUME NEW x \in Arts, Planned(x)', Full(x[1])' PROVE In(x, mem) /\ In(x, disk)
    BY <1>1 DEF Complete, In, Kind
  <2>1. x[1] # k
    BY <1>1, <1>3 DEF Full
  <2> QED BY <1>5, <2>1 DEF Whole, Complete
<1>9. Made'
  BY <1>1, <1>4 DEF Made, In, Kind
<1>10. Ahead' /\ OldsStay'
  <2>1. op'.phase \notin Compensating \cup {"unwind"}
    BY <1>1, SMT DEF Compensating
  <2> QED BY <1>1, <2>1 DEF Whole, Ahead, OldsStay
<1> QED BY <1>7, <1>8, <1>9, <1>10 DEF Whole

LEMMA WholeRecordArtifact == ASSUME Whole, Shape', RecordArtifact PROVE Whole'
<1>0. /\ op.phase = "record" /\ UNCHANGED <<mem, disk>> /\ TypeOK /\ OldsStay'
  BY DEF RecordArtifact, Whole, Shape, OldsStay
<1>1. PICK k \in Keys : k = op.key /\ journal[k].state = "prepared"
  BY <1>0, SMT DEF Whole, Shape, PhaseShape, Making
<1>2. CASE journal' = [journal EXCEPT ![op.key].done = @ + 1] /\ At("create")
  <2>1. /\ \A j \in Keys : journal'[j].gen = journal[j].gen /\ journal'[j].state = journal[j].state
                           /\ (j # k => journal'[j].done = journal[j].done)
        /\ journal'[k].done = journal[k].done + 1 /\ journal[k].done \in Nat
    <3>1. PICK d : d = journal[k].done + 1
      OBVIOUS
    <3>2. journal' = [journal EXCEPT ![k].done = d]
      BY <1>1, <1>2, <3>1
    <3>3. journal \in [Keys -> Transactions]
      BY <1>0 DEF TypeOK, Transactions
    <3>4. journal[k].done \in Nat
      BY <3>3, ArtFacts, SMT DEF Transactions
    <3> QED BY <3>1, <3>2, <3>3, <3>4, SMT DEF Transactions
  <2>2. op'.phase = "create" /\ op'.key = k /\ op'.made = op.made
    BY <1>0, <1>1, <1>2, AtFacts, "create" \in Phases DEF Phases
  <2>3. {"record", "create"} \subseteq Making /\ "create" \notin Compensating \cup {"unwind", "guard"}
    BY SMT DEF Making, Compensating
  <2>4. \A x \in Arts : x[1] \in Keys /\ x[2] \in Nat /\ x[3] \in Nat
    BY ArtFacts, ImportAssumption, SMT
  <2>5. \A x \in Arts : (Planned(x) => Planned(x)') /\ (x[1] # k /\ Planned(x)' => Planned(x))
    BY <2>1, <2>4, SMT DEF Planned
  <2>6. \A x \in Arts : /\ Stands(x[1])' <=> Stands(x[1])
                        /\ Full(x[1])' => Full(x[1]) /\ x[1] # k
    BY <1>1, <2>1, <2>2, <2>3, <2>4 DEF Stands, Pending, Full
  <2>7. Traced'
    BY <1>0, <2>5, <2>6 DEF Whole, Traced, In, Kind
  <2>8. Complete'
    BY <1>0, <2>5, <2>6 DEF Whole, Complete, In, Kind
  <2>9. Made'
    BY <1>0, <1>1, <2>2, <2>3 DEF Whole, Made, In, Kind
  <2>10. Ahead'
    BY <2>2, <2>3 DEF Ahead
  <2> QED BY <1>0, <2>7, <2>8, <2>9, <2>10 DEF Whole
<1>3. CASE Unwind /\ UNCHANGED journal
  BY <1>0, <1>3, WholeUnwind, "record" \in Making DEF Making
<1> QED BY <1>2, <1>3 DEF RecordArtifact

LEMMA WholeCreateArtifact == ASSUME Whole, Shape', CreateArtifact PROVE Whole'
<1>1. PICK k \in Keys, x \in Arts :
           /\ op.key = k /\ op.phase = "create" /\ journal[k].state = "prepared"
           /\ x \in Recorded(k) /\ UNCHANGED <<journal, deps, server, crashes>>
           /\ \/ /\ mem' = Grown(mem, x) /\ disk' = Saved(Kind(x), Grown(mem, x))
                 /\ op' = [phase |-> IF journal[k].done = Len(Plan) THEN "archive" ELSE "record",
                           key |-> k, made |-> op.made \cup {x}, left |-> op.left,
                           back |-> IF journal[k].done = Len(Plan) THEN journal[k].prior ELSE {}]
              \/ /\ Unwind
                 /\ \/ mem' = mem /\ disk' = disk
                    \/ mem' = Grown(mem, x) /\ disk' \in {disk, Saved(Kind(x), Grown(mem, x))}
  BY CreateFacts DEF Whole
<1>2. /\ mem \in Workspace /\ disk \in Workspace /\ TypeOK /\ x[1] = k /\ Planned(x)
      /\ Kind(x) \in Kinds /\ Stands(k) /\ "create" \in Making
  BY <1>1, PlannedFacts, ArtFacts DEF Whole, Shape, TypeOK, Stands, Pending, Making
<1>3. /\ Grown(mem, x) \in Workspace /\ Grown(mem, x).bot \in {mem.bot, mem.bot \cup {x}}
      /\ \A y \in Arts : In(y, Grown(mem, x)) <=> In(y, mem) \/ y = x
  BY <1>2, GrownFacts
<1>4. /\ \A y \in Arts : In(y, Saved(Kind(x), Grown(mem, x))) <=>
           IF Kind(y) = Kind(x) THEN In(y, Grown(mem, x)) ELSE In(y, disk)
      /\ Saved(Kind(x), Grown(mem, x)).bot \in {Grown(mem, x).bot, disk.bot}
  BY <1>2, <1>3, SavedFacts
<1>5. OldsStay'
  BY <1>1, <1>3, <1>4 DEF OldsStay, Whole
<1>6. \A y \in Arts : /\ In(y, mem') \/ In(y, disk') => In(y, mem) \/ In(y, disk) \/ y = x
                      /\ In(y, mem) /\ In(y, disk) => In(y, mem') /\ In(y, disk')
                      /\ (In(y, disk) => In(y, mem)) => (In(y, disk') => In(y, mem'))
  BY <1>1, <1>3, <1>4
<1>7. \A y \in Arts : /\ y[1] \in Keys /\ (Planned(y)' <=> Planned(y))
                      /\ Stands(y[1])' <=> Stands(y[1])
  BY <1>1, ArtFacts DEF Planned, Stands, Pending
<1>8. \A y \in Arts : y[1] = k => (In(y, mem) <=> y \in op.made) /\ (In(y, disk) <=> y \in op.made)
  BY <1>1, <1>2 DEF Whole, Made
<1>9. /\ op'.key = k /\ op'.phase \notin Compensating \cup {"guard"}
      /\ op'.phase \in Making => /\ mem' = Grown(mem, x) /\ disk' = Saved(Kind(x), Grown(mem, x))
                                 /\ op'.made = op.made \cup {x}
  <2>1. CASE /\ mem' = Grown(mem, x) /\ disk' = Saved(Kind(x), Grown(mem, x))
             /\ op' = [phase |-> IF journal[k].done = Len(Plan) THEN "archive" ELSE "record",
                       key |-> k, made |-> op.made \cup {x}, left |-> op.left,
                       back |-> IF journal[k].done = Len(Plan) THEN journal[k].prior ELSE {}]
    BY <2>1 DEF Making, Compensating
  <2>2. CASE Unwind
    <3>1. op'.phase = "unwind" /\ op'.key = k
      BY <1>1, <1>2, <2>2, UnwindFacts
    <3> QED BY <3>1, SMT DEF Making, Compensating
  <2> QED BY <1>1, <2>1, <2>2
<1>10. Traced'
  <2> SUFFICES ASSUME NEW y \in Arts, In(y, mem') \/ In(y, disk') PROVE Planned(y) /\ Stands(y[1])
    BY <1>7 DEF Traced, In, Kind
  <2> QED BY <1>2, <1>6 DEF Whole, Traced
<1>11. Complete'
  <2> SUFFICES ASSUME NEW y \in Arts, Planned(y)', Full(y[1])' PROVE In(y, mem') /\ In(y, disk')
    BY DEF Complete, In, Kind
  <2>1. Full(y[1])
    BY <1>1, <1>9 DEF Full
  <2>2. In(y, mem) /\ In(y, disk)
    BY <1>7, <2>1 DEF Whole, Complete
  <2> QED BY <1>6, <2>2
<1>12. Made'
  <2> SUFFICES ASSUME op'.phase \in Making, NEW y \in Arts, y[1] = op'.key
               PROVE  (In(y, mem') <=> y \in op'.made) /\ (In(y, disk') <=> y \in op'.made)
    BY DEF Made, In, Kind
  <2> QED BY <1>3, <1>4, <1>8, <1>9
<1>13. Ahead'
  <2> SUFFICES ASSUME NEW y \in Arts, y[1] = op'.key, In(y, disk') PROVE In(y, mem')
    BY DEF Ahead, In, Kind
  <2> QED BY <1>6, <1>8, <1>9
<1> QED BY <1>5, <1>10, <1>11, <1>12, <1>13 DEF Whole

\* Crews are all or nothing, as long as no removal is lost.
LEMMA WholeStep == Whole /\ [Next /\ ~Lost]_vars => Whole'
<1> SUFFICES ASSUME Whole, [Next /\ ~Lost]_vars PROVE Whole'
  OBVIOUS
<1>1. Shape'
  BY ShapeStep DEF Whole
<1>2. CASE UNCHANGED vars
  BY <1>1, <1>2, WholeServer
<1>3. CASE Next /\ ~Lost
  BY <1>1, <1>3, WholeBegin, WholeRecordPrior, WholeSelect, WholeRecordArtifact, WholeCreateArtifact,
     WholeArchive, WholeCommit, WholeRequestUndo, WholeGuard, WholeRemove, WholeRestore,
     WholeFinish, WholeMark, WholeRecover, WholeServer DEF Next, System
<1> QED BY <1>2, <1>3

LEMMA WholeCrew == Whole => CrewIsWhole
<1> SUFFICES ASSUME Whole, NEW k \in Keys, Settled(k), NEW m \in {mem, disk}
             PROVE  ArtsOf(k, m) = IF journal[k].state = "committed" THEN Recorded(k) ELSE {}
  BY DEF CrewIsWhole
<1>1. \A x \in Arts : x \in ArtsOf(k, m) <=> x[1] = k /\ In(x, m)
  BY DEF ArtsOf, In
<1>2. ArtsOf(k, m) \subseteq Arts /\ Recorded(k) \subseteq Arts
  BY RecordedFacts DEF ArtsOf, Whole
<1>3. \A x \in Arts : x \in Recorded(k) <=> x[1] = k /\ Planned(x)
  BY PlannedFacts DEF Whole
<1>4. ASSUME journal[k].state = "committed"
      PROVE  \A x \in Arts : x \in ArtsOf(k, m) <=> x \in Recorded(k)
  BY <1>1, <1>3, <1>4 DEF Whole, Traced, Complete, Full
<1>5. ASSUME journal[k].state # "committed" PROVE \A x \in Arts : x \notin ArtsOf(k, m)
  BY <1>1, <1>5 DEF Whole, Traced, Stands, Settled
<1> QED BY <1>2, <1>4, <1>5

-----------------------------------------------------------------------------
(* All or nothing, part two: the roster.                                    *)

\* An import that will be taken back, by the operation under way or after a restart.
Doomed(k) == Pending(k) /\ ~(op.key = k /\ op.phase \in Making \cup {"guard"})

\* Who may be hidden: an operator that a standing import replaced, or one that goes.
Replaced(b) == \E k \in Keys : Stands(k) /\ b \in journal[k].prior
Going(b) == b \in Arts /\ Doomed(b[1])

\* Not an artifact that is still to be created: its identity is minted later.
Minted(x) == x[2] <= journal[x[1]].gen
               /\ ~(op.key = x[1] /\ op.phase \in Making /\ x[2] = journal[x[1]].gen)

Reasons == \A w \in {mem, disk} : \A b \in w.hidden \cap w.bot : Replaced(b) \/ Going(b)
HiddenIsMinted == \A w \in {mem, disk} : \A b \in w.hidden \cap Arts : Minted(b)
PriorIsMinted == \A k \in Keys : \A b \in journal[k].prior \cap Arts : Minted(b)
\* What a compensation gave back stays hidden only for the sake of another import.
GivenBack == op.phase \in Compensating =>
  \A w \in {mem, disk} : \A b \in w.hidden \cap w.bot : b \in journal[op.key].prior \ op.back =>
    Going(b) \/ \E k \in Keys \ {op.key} : Stands(k) /\ b \in journal[k].prior

Roster == Whole /\ Reasons /\ HiddenIsMinted /\ PriorIsMinted /\ GivenBack

LEMMA BotFacts ==
  ASSUME Whole
  PROVE  /\ \A w \in {mem, disk}, b \in Arts : b \in w.bot => In(b, w)
         /\ \A b : b \in disk.bot /\ b \notin mem.bot => Going(b)
<1>1. \A b \in Arts : b \in Bots => Kind(b) = "bot"
  BY ArtFacts
<1>2. mem.bot \subseteq Bots /\ disk.bot \subseteq Bots
  BY SMT DEF Whole, Shape, TypeOK, Workspace
<1>3. \A w \in {mem, disk}, b \in Arts : b \in w.bot => In(b, w)
  BY <1>1, <1>2 DEF In
<1>4. ASSUME NEW b, b \in disk.bot, b \notin mem.bot PROVE Going(b)
  <2>1. b \in Arts /\ b \in Bots
    BY <1>2, <1>4 DEF Bots, Whole, OldsStay
  <2>2. In(b, disk) /\ ~In(b, mem)
    BY <1>1, <1>4, <2>1 DEF In
  <2>3. Planned(b) /\ Stands(b[1])
    BY <2>1, <2>2 DEF Whole, Traced
  <2>4. ~Full(b[1])
    BY <2>1, <2>2, <2>3 DEF Whole, Complete
  <2>5. ~(op.key = b[1] /\ op.phase \in Making)
    BY <2>1, <2>2 DEF Whole, Made
  <2> QED BY <2>1, <2>3, <2>4, <2>5 DEF Going, Doomed, Stands, Full
<1> QED BY <1>3, <1>4

LEMMA RosterInit == Init => Roster
<1> SUFFICES ASSUME Init PROVE Roster
  OBVIOUS
<1>1. mem.hidden = {} /\ disk.hidden = {} /\ op.phase = "idle" /\ \A k \in Keys : journal[k].prior = {}
  BY SMT DEF Init, NoOp
<1> QED BY <1>1, WholeInit DEF Roster, Reasons, HiddenIsMinted, PriorIsMinted, GivenBack, Compensating

\* Steps that hide nobody new, except for the import under way.
LEMMA RosterQuiet ==
  ASSUME Roster, Whole', GivenBack',
         \A b : (b \in mem'.hidden /\ b \in mem'.bot) \/ (b \in disk'.hidden /\ b \in disk'.bot) =>
           \/ b \in mem.hidden /\ b \in mem.bot
           \/ b \in disk.hidden /\ b \in disk.bot
           \/ Replaced(b),
         \A b \in Arts : b \in mem'.hidden \/ b \in disk'.hidden =>
           b \in mem.hidden \/ b \in disk.hidden \/ Minted(b),
         \A k \in Keys : journal'[k].gen = journal[k].gen /\ journal'[k].prior = journal[k].prior,
         \A k \in Keys : (Stands(k) => Stands(k)') /\ (Doomed(k) => Doomed(k)'),
         op'.phase \in Making => op.phase \in Making /\ op.key = op'.key
  PROVE  Roster'
<1>1. \A x \in Arts : x[1] \in Keys
  BY ArtFacts
<1>2. \A b : (Replaced(b) => Replaced(b)') /\ (Going(b) => Going(b)')
  BY <1>1 DEF Replaced, Going
<1>3. \A x \in Arts : Minted(x) => Minted(x)'
  BY <1>1 DEF Minted
<1>4. Reasons'
  <2> SUFFICES ASSUME NEW b, (b \in mem'.hidden /\ b \in mem'.bot) \/ (b \in disk'.hidden /\ b \in disk'.bot)
               PROVE  Replaced(b)' \/ Going(b)'
    BY DEF Reasons
  <2> QED BY <1>2 DEF Roster, Reasons
<1>5. HiddenIsMinted'
  <2> SUFFICES ASSUME NEW b \in Arts, b \in mem'.hidden \/ b \in disk'.hidden PROVE Minted(b)'
    BY DEF HiddenIsMinted
  <2> QED BY <1>3 DEF Roster, HiddenIsMinted
<1>6. PriorIsMinted'
  <2> SUFFICES ASSUME NEW k \in Keys, NEW b \in journal'[k].prior, b \in Arts PROVE Minted(b)'
    BY DEF PriorIsMinted
  <2> QED BY <1>3 DEF Roster, PriorIsMinted
<1> QED BY <1>4, <1>5, <1>6 DEF Roster

\* What was in memory or in the files is in both of them, or in one.
Reshuffled ==
  /\ \A b : (b \in mem'.hidden /\ b \in mem'.bot) \/ (b \in disk'.hidden /\ b \in disk'.bot) =>
       (b \in mem.hidden /\ b \in mem.bot) \/ (b \in disk.hidden /\ b \in disk.bot)
  /\ \A b : b \in mem'.hidden \/ b \in disk'.hidden => b \in mem.hidden \/ b \in disk.hidden

LEMMA RosterCompensate ==
  ASSUME Roster, Whole', NEW k \in Keys, NEW phase \in Compensating, Compensate(k, phase),
         UNCHANGED journal, Reshuffled
  PROVE  Roster'
<1>1. op'.phase = phase /\ op'.key = k /\ op'.back = journal[k].prior
  BY SMT DEF Compensate
<1>2. op'.phase \notin Making \cup {"guard"}
  BY <1>1, SMT DEF Making, Compensating
<1>3. GivenBack'
  BY <1>1 DEF GivenBack
<1>4. \A j \in Keys : (Stands(j) => Stands(j)') /\ (Doomed(j) => Doomed(j)')
  BY <1>2 DEF Stands, Pending, Doomed
<1> QED BY <1>2, <1>3, <1>4, RosterQuiet DEF Reshuffled

LEMMA RosterUnwind ==
  ASSUME Roster, Whole', Unwind, UNCHANGED journal,
         \A b : (b \in mem'.hidden /\ b \in mem'.bot) \/ (b \in disk'.hidden /\ b \in disk'.bot) =>
           \/ b \in mem.hidden /\ b \in mem.bot
           \/ b \in disk.hidden /\ b \in disk.bot
           \/ Replaced(b),
         \A b \in Arts : b \in mem'.hidden \/ b \in disk'.hidden =>
           b \in mem.hidden \/ b \in disk.hidden \/ Minted(b)
  PROVE  Roster'
<1>1. op'.phase = "unwind"
  BY UnwindFacts DEF Roster, Whole, Shape
<1>2. op'.phase \notin Making \cup {"guard"} \cup Compensating
  BY <1>1, SMT DEF Making, Compensating
<1>3. GivenBack'
  BY <1>2 DEF GivenBack
<1>4. \A j \in Keys : (Stands(j) => Stands(j)') /\ (Doomed(j) => Doomed(j)')
  BY <1>2 DEF Stands, Pending, Doomed
<1> QED BY <1>2, <1>3, <1>4, RosterQuiet

LEMMA RosterIdle ==
  ASSUME Roster, Whole', op'.phase \in {"idle", "guard", "mark"}, Reshuffled,
         \A k \in Keys : journal'[k].gen = journal[k].gen /\ journal'[k].prior = journal[k].prior,
         \A k \in Keys : (Stands(k) => Stands(k)') /\ (Doomed(k) => Doomed(k)')
  PROVE  Roster'
<1>1. op'.phase \notin Making \cup Compensating
  BY SMT DEF Making, Compensating
<1>2. GivenBack'
  BY <1>1 DEF GivenBack
<1> QED BY <1>1, <1>2, RosterQuiet DEF Reshuffled

LEMMA RosterBegin == ASSUME Roster, Whole', NEW k \in Keys, Begin(k) PROVE Roster'
<1>1. /\ op.phase = "idle" /\ op.key = None /\ ~Stands(k) /\ UNCHANGED <<mem, disk>>
      /\ op' = [phase |-> "plan", key |-> k, made |-> {}, left |-> {}, back |-> {}]
  BY BegunFacts DEF Begin, NoOp, Stands, Pending
<1>2. /\ \A j \in Keys : j # k => journal'[j] = journal[j]
      /\ journal'[k].gen = journal[k].gen + 1 /\ journal[k].gen \in Nat
      /\ journal'[k].prior = {}
  <2>1. journal \in [Keys -> Transactions]
    BY DEF Roster, Whole, Shape, TypeOK, Transactions
  <2> QED BY <2>1, SMT DEF Begin, Transactions
<1>3. \A x \in Arts : x[1] \in Keys /\ x[2] \in Nat
  BY ArtFacts, ImportAssumption, SMT
<1>4. "plan" \in Making /\ "plan" \notin Compensating /\ None \notin Keys /\ "idle" \notin Making
  BY ImportAssumption, SMT DEF Making, Compensating
<1>5. \A b : Replaced(b) => Replaced(b)'
  BY <1>1, <1>2 DEF Replaced, Stands, Pending
<1>6. \A b : Going(b) => Going(b)'
  <2> SUFFICES ASSUME NEW b \in Arts, Doomed(b[1]) PROVE Doomed(b[1])'
    BY DEF Going
  <2>1. b[1] \in Keys /\ b[1] # k
    BY <1>1, <1>3 DEF Doomed, Stands
  <2> QED BY <1>1, <1>2, <2>1 DEF Doomed, Pending
<1>7. \A x \in Arts : Minted(x) => Minted(x)'
  <2> SUFFICES ASSUME NEW x \in Arts, x[2] <= journal[x[1]].gen
               PROVE  x[2] <= journal'[x[1]].gen /\ ~(k = x[1] /\ x[2] = journal'[x[1]].gen)
    BY <1>1 DEF Minted
  <2>1. CASE x[1] = k
    BY <1>2, <1>3, <2>1, SMT
  <2>2. CASE x[1] # k
    BY <1>2, <1>3, <2>2
  <2> QED BY <2>1, <2>2
<1>8. Reasons'
  BY <1>1, <1>5, <1>6 DEF Roster, Reasons
<1>9. HiddenIsMinted'
  BY <1>1, <1>7 DEF Roster, HiddenIsMinted
<1>10. PriorIsMinted'
  BY <1>2, <1>7 DEF Roster, PriorIsMinted
<1>11. GivenBack'
  BY <1>1, <1>4 DEF GivenBack
<1> QED BY <1>8, <1>9, <1>10, <1>11 DEF Roster

LEMMA RosterRecordPrior == ASSUME Roster, Whole', RecordPrior PROVE Roster'
<1>0. op.phase = "plan" /\ UNCHANGED <<mem, disk>> /\ TypeOK /\ op.phase \in Making
  BY DEF RecordPrior, Making, Roster, Whole, Shape
<1>1. PICK k \in Keys : k = op.key
  BY <1>0, SMT DEF Roster, Whole, Shape, PhaseShape
<1>2. ASSUME NEW prior \in {{}, mem.bot \ mem.hidden}, journal' = [journal EXCEPT ![op.key].prior = prior],
             At("select")
      PROVE  Roster'
  <2>1. op'.phase = "select" /\ op'.key = k
    BY <1>0, <1>1, <1>2, AtFacts, "select" \in Phases DEF Phases
  <2>2. \A j \in Keys : /\ journal'[j].gen = journal[j].gen /\ journal'[j].state = journal[j].state
                        /\ journal'[j].prior = IF j = k THEN prior ELSE journal[j].prior
    BY <1>0, <1>1, <1>2, SMT DEF TypeOK
  <2>3. "select" \in Making /\ "select" \notin Compensating
    BY SMT DEF Making, Compensating
  <2>4. journal[k].prior = {} /\ op.made = {}
    <3>1. journal[k].done = 0 /\ journal[k].prior = {} /\ op.made = First(k, journal[k].done)
      BY <1>0, <1>1, "plan" # "create" DEF Roster, Whole, Shape, MakingShape
    <3> QED BY <3>1, SMT DEF First
  <2>5. \A b : Replaced(b) => Replaced(b)'
    BY <2>2, <2>4 DEF Replaced, Stands, Pending
  <2>6. \A x \in Arts : x[1] \in Keys
    BY ArtFacts
  <2>7. \A b : Going(b) => Going(b)'
    BY <1>0, <1>1, <2>1, <2>2, <2>3, <2>6 DEF Going, Doomed, Pending
  <2>8. \A x \in Arts : Minted(x) => Minted(x)'
    BY <1>0, <1>1, <2>1, <2>2, <2>3, <2>6 DEF Minted
  <2>9. Reasons' /\ HiddenIsMinted' /\ GivenBack'
    BY <1>0, <2>1, <2>3, <2>5, <2>7, <2>8 DEF Roster, Reasons, HiddenIsMinted, GivenBack
  <2>10. PriorIsMinted'
    <3> SUFFICES ASSUME NEW j \in Keys, NEW b \in Arts, b \in journal'[j].prior PROVE Minted(b)'
      BY DEF PriorIsMinted
    <3>1. CASE b \in journal[j].prior
      BY <2>8, <3>1 DEF Roster, PriorIsMinted
    <3>2. CASE b \in mem.bot
      <4>1. In(b, mem)
        BY <3>2, BotFacts DEF Roster
      <4>2. b[1] # k /\ Planned(b)
        BY <1>0, <1>1, <2>4, <4>1 DEF Roster, Whole, Made, Traced
      <4>3. b[2] = journal'[b[1]].gen /\ b[2] \in Nat
        BY <2>2, <2>6, <4>2, ArtFacts, ImportAssumption, SMT DEF Planned
      <4> QED BY <2>1, <4>2, <4>3, SMT DEF Minted
    <3> QED BY <1>2, <2>2, <3>1, <3>2
  <2> QED BY <2>9, <2>10 DEF Roster
<1>3. ASSUME Compensate(op.key, "rollback"), UNCHANGED journal PROVE Roster'
  <2>1. Compensate(k, "rollback") /\ "rollback" \in Compensating
    BY <1>1, <1>3 DEF Compensating
  <2>2. Reshuffled
    BY <1>0 DEF Reshuffled
  <2> QED BY <1>3, <2>1, <2>2, RosterCompensate
<1> QED BY <1>2, <1>3 DEF RecordPrior

\* Steps of the mutation whose artifacts and roster stay.
LEMMA RosterSelect == ASSUME Roster, Whole', Select PROVE Roster'
<1>0. op.phase = "select" /\ UNCHANGED <<journal, mem, disk>> /\ Reshuffled /\ TypeOK
  BY DEF Select, Reshuffled, Roster, Whole, Shape
<1>1. CASE At("record")
  <2>1. op'.phase = "record" /\ op'.key = op.key
    BY <1>0, <1>1, AtFacts, "record" \in Phases DEF Phases
  <2>2. {"record", "select"} \subseteq Making /\ "record" \notin Compensating
    BY SMT DEF Making, Compensating
  <2>3. GivenBack'
    BY <2>1, <2>2 DEF GivenBack
  <2>4. \A j \in Keys : (Stands(j) => Stands(j)') /\ (Doomed(j) => Doomed(j)')
    BY <1>0, <2>1, <2>2 DEF Stands, Pending, Doomed
  <2> QED BY <1>0, <2>1, <2>2, <2>3, <2>4, RosterQuiet DEF Reshuffled
<1>2. CASE Unwind
  BY <1>0, <1>2, RosterUnwind
<1> QED BY <1>1, <1>2 DEF Select

LEMMA RosterRecordArtifact == ASSUME Roster, Whole', RecordArtifact PROVE Roster'
<1>0. op.phase = "record" /\ UNCHANGED <<mem, disk>> /\ Reshuffled /\ TypeOK
  BY DEF RecordArtifact, Reshuffled, Roster, Whole, Shape
<1>1. CASE journal' = [journal EXCEPT ![op.key].done = @ + 1] /\ At("create")
  <2>1. op'.phase = "create" /\ op'.key = op.key
    BY <1>0, <1>1, AtFacts, "create" \in Phases DEF Phases
  <2>2. {"record", "create"} \subseteq Making /\ "create" \notin Compensating
    BY SMT DEF Making, Compensating
  <2>3. \A j \in Keys : /\ journal'[j].gen = journal[j].gen /\ journal'[j].state = journal[j].state
                        /\ journal'[j].prior = journal[j].prior
    <3>1. PICK d : d = journal[op.key].done + 1
      OBVIOUS
    <3>2. journal' = [journal EXCEPT ![op.key].done = d]
      BY <1>1, <3>1
    <3>3. journal \in [Keys -> Transactions]
      BY <1>0 DEF TypeOK, Transactions
    <3> QED BY <3>2, <3>3, SMT DEF Transactions
  <2>4. \A j \in Keys : (Stands(j) => Stands(j)') /\ (Doomed(j) => Doomed(j)')
    BY <1>0, <2>1, <2>2, <2>3 DEF Stands, Pending, Doomed
  <2>5. GivenBack'
    BY <2>1, <2>2 DEF GivenBack
  <2> QED BY <1>0, <2>1, <2>2, <2>3, <2>4, <2>5, RosterQuiet DEF Reshuffled
<1>2. CASE Unwind /\ UNCHANGED journal
  BY <1>0, <1>2, RosterUnwind
<1> QED BY <1>1, <1>2 DEF RecordArtifact

LEMMA RosterCreateArtifact == ASSUME Roster, Whole', CreateArtifact PROVE Roster'
<1>1. PICK k \in Keys, x \in Arts :
           /\ op.key = k /\ op.phase = "create" /\ x = <<k, journal[k].gen, journal[k].done>>
           /\ UNCHANGED <<journal, deps, server, crashes>>
           /\ \/ /\ mem' = Grown(mem, x) /\ disk' = Saved(Kind(x), Grown(mem, x))
                 /\ op' = [phase |-> IF journal[k].done = Len(Plan) THEN "archive" ELSE "record",
                           key |-> k, made |-> op.made \cup {x}, left |-> op.left,
                           back |-> IF journal[k].done = Len(Plan) THEN journal[k].prior ELSE {}]
              \/ /\ Unwind
                 /\ \/ mem' = mem /\ disk' = disk
                    \/ mem' = Grown(mem, x) /\ disk' \in {disk, Saved(Kind(x), Grown(mem, x))}
  BY CreateFacts DEF Roster, Whole
<1>2. mem \in Workspace /\ disk \in Workspace /\ Kind(x) \in Kinds /\ "create" \in Making
  BY ArtFacts DEF Roster, Whole, Shape, TypeOK, Making
<1>3. ~Minted(x)
  BY <1>1, <1>2 DEF Minted
<1>4. x \notin mem.hidden /\ x \notin disk.hidden
  BY <1>3 DEF Roster, HiddenIsMinted
<1>5. /\ Grown(mem, x) \in Workspace /\ Grown(mem, x).hidden = mem.hidden
      /\ Grown(mem, x).bot \in {mem.bot, mem.bot \cup {x}}
  BY <1>2, GrownFacts
<1>6. \/ /\ Saved(Kind(x), Grown(mem, x)).hidden = mem.hidden
         /\ Saved(Kind(x), Grown(mem, x)).bot \in {mem.bot, mem.bot \cup {x}}
      \/ /\ Saved(Kind(x), Grown(mem, x)).hidden = disk.hidden
         /\ Saved(Kind(x), Grown(mem, x)).bot = disk.bot
  BY <1>2, <1>5, SavedFacts
<1>7. /\ \/ mem'.hidden = mem.hidden /\ mem'.bot \in {mem.bot, mem.bot \cup {x}}
      /\ \/ disk'.hidden = mem.hidden /\ disk'.bot \in {mem.bot, mem.bot \cup {x}}
         \/ disk'.hidden = disk.hidden /\ disk'.bot = disk.bot
  BY <1>1, <1>5, <1>6
<1>8. Reshuffled
  BY <1>4, <1>7 DEF Reshuffled
<1>9. CASE op' = [phase |-> IF journal[k].done = Len(Plan) THEN "archive" ELSE "record",
                  key |-> k, made |-> op.made \cup {x}, left |-> op.left,
                  back |-> IF journal[k].done = Len(Plan) THEN journal[k].prior ELSE {}]
  <2>1. op'.phase \in Making /\ op'.phase \notin Compensating /\ op'.key = k
    BY <1>9 DEF Making, Compensating
  <2>2. GivenBack'
    BY <2>1 DEF GivenBack
  <2>3. \A j \in Keys : (Stands(j) => Stands(j)') /\ (Doomed(j) => Doomed(j)')
    BY <1>1, <1>2, <2>1 DEF Stands, Pending, Doomed
  <2> QED BY <1>1, <1>2, <1>8, <2>1, <2>2, <2>3, RosterQuiet DEF Reshuffled
<1>10. CASE Unwind
  BY <1>1, <1>8, <1>10, RosterUnwind DEF Reshuffled
<1> QED BY <1>1, <1>9, <1>10

LEMMA RosterArchive == ASSUME Roster, Whole', Archive PROVE Roster'
<1>1. PICK k \in Keys, b \in op.back, H \in SUBSET Bots :
           /\ op.key = k /\ op.phase = "archive" /\ journal[k].state = "prepared"
           /\ b \in journal[k].prior /\ mem.hidden \subseteq H /\ H \subseteq mem.hidden \cup {b}
           /\ UNCHANGED <<journal, deps, server, crashes>> /\ mem' = Rehidden(mem, H)
           /\ mem' \in Workspace
           /\ \/ /\ disk' = Saved("bot", Rehidden(mem, H))
                 /\ op' = [op EXCEPT !.back = @ \ {b}]
              \/ Unwind /\ disk' = disk
  BY ArchiveFacts DEF Roster, Whole
<1>2. mem \in Workspace /\ disk \in Workspace /\ TypeOK /\ "bot" \in Kinds
  BY DEF Roster, Whole, Shape, TypeOK, Kinds
<1>3. Replaced(b) /\ (b \in Arts => Minted(b))
  BY <1>1 DEF Replaced, Stands, Pending, Roster, PriorIsMinted
<1>4. mem'.bot = mem.bot /\ mem'.hidden \subseteq mem.hidden \cup {b}
  BY <1>1, <1>2, RehiddenFacts
<1>5. (disk'.bot = mem.bot /\ disk'.hidden \subseteq mem.hidden \cup {b}) \/ disk' = disk
  BY <1>1, <1>2, <1>4, SavedFacts
<1>6. /\ \A c : (c \in mem'.hidden /\ c \in mem'.bot) \/ (c \in disk'.hidden /\ c \in disk'.bot) =>
           \/ c \in mem.hidden /\ c \in mem.bot
           \/ c \in disk.hidden /\ c \in disk.bot
           \/ Replaced(c)
      /\ \A c \in Arts : c \in mem'.hidden \/ c \in disk'.hidden =>
           c \in mem.hidden \/ c \in disk.hidden \/ Minted(c)
  BY <1>3, <1>4, <1>5
<1>7. CASE op' = [op EXCEPT !.back = @ \ {b}]
  <2>1. op'.phase = "archive" /\ op'.key = k
    BY <1>1, <1>2, <1>7, BackFacts
  <2>2. "archive" \in Making /\ "archive" \notin Compensating
    BY SMT DEF Making, Compensating
  <2>3. GivenBack'
    BY <2>1, <2>2 DEF GivenBack
  <2>4. \A j \in Keys : (Stands(j) => Stands(j)') /\ (Doomed(j) => Doomed(j)')
    BY <1>1, <2>1, <2>2 DEF Stands, Pending, Doomed
  <2> QED BY <1>1, <1>6, <2>1, <2>2, <2>3, <2>4, RosterQuiet
<1>8. CASE Unwind
  BY <1>1, <1>6, <1>8, RosterUnwind
<1> QED BY <1>1, <1>7, <1>8

LEMMA RosterCommit == ASSUME Roster, Whole', Commit PROVE Roster'
<1>0. /\ op.phase = "archive" /\ UNCHANGED <<mem, disk>> /\ op.key \in Keys /\ TypeOK
      /\ journal[op.key].state = "prepared" /\ "archive" \in Making
  BY SMT DEF Commit, Roster, Whole, Shape, PhaseShape, Making
<1>1. PICK k \in Keys : k = op.key
  BY <1>0
<1>2. Reshuffled
  BY <1>0 DEF Reshuffled
<1>3. CASE Put(op.key, "committed") /\ op' = NoOp
  <2>1. \A j \in Keys : /\ journal'[j].gen = journal[j].gen /\ journal'[j].prior = journal[j].prior
                        /\ journal'[j].state = IF j = k THEN "committed" ELSE journal[j].state
    BY <1>0, <1>1, <1>3, PutFacts, "committed" \in States DEF States
  <2>2. op'.phase = "idle" /\ "idle" \notin Making \cup {"guard"}
    BY <1>3, SMT DEF NoOp, Making
  <2>3. \A j \in Keys : (Stands(j) => Stands(j)') /\ (Doomed(j) => Doomed(j)')
    BY <1>0, <1>1, <2>1, <2>2 DEF Stands, Pending, Doomed
  <2> QED BY <1>2, <2>1, <2>2, <2>3, RosterIdle
<1>4. CASE UNCHANGED journal /\ Compensate(op.key, "rollback")
  <2>1. Compensate(k, "rollback") /\ "rollback" \in Compensating
    BY <1>1, <1>4 DEF Compensating
  <2> QED BY <1>2, <1>4, <2>1, RosterCompensate
<1> QED BY <1>3, <1>4 DEF Commit

LEMMA RosterRequestUndo == ASSUME Roster, Whole', NEW k \in Keys, RequestUndo(k) PROVE Roster'
<1>1. op'.phase = "guard" /\ op'.key = k
  BY BegunFacts DEF RequestUndo
<1>2. /\ journal[k].state = "committed" /\ Put(k, "undoing") /\ TypeOK
      /\ Reshuffled /\ op.phase = "idle"
  BY DEF RequestUndo, Reshuffled, Roster, Whole, Shape, NoOp
<1>3. \A j \in Keys : /\ journal'[j].gen = journal[j].gen /\ journal'[j].prior = journal[j].prior
                      /\ journal'[j].state = IF j = k THEN "undoing" ELSE journal[j].state
  BY <1>2, PutFacts, "undoing" \in States DEF States
<1>4. \A j \in Keys : (Stands(j) => Stands(j)') /\ (Doomed(j) => Doomed(j)')
  BY <1>1, <1>2, <1>3, SMT DEF Stands, Pending, Doomed
<1> QED BY <1>1, <1>2, <1>3, <1>4, RosterIdle

LEMMA RosterGuard == ASSUME Roster, Whole', Guard PROVE Roster'
<1>0. /\ op.phase = "guard" /\ UNCHANGED <<mem, disk>> /\ op.key \in Keys /\ TypeOK
      /\ journal[op.key].state = "undoing"
  BY SMT DEF Guard, Roster, Whole, Shape, PhaseShape
<1>1. PICK k \in Keys : k = op.key
  BY <1>0
<1>2. Reshuffled
  BY <1>0 DEF Reshuffled
<1>3. CASE op' = NoOp /\ (Put(op.key, "committed") \/ UNCHANGED journal)
  <2>1. \A j \in Keys : /\ journal'[j].gen = journal[j].gen /\ journal'[j].prior = journal[j].prior
                        /\ journal'[j].state = journal[j].state
                             \/ (j = k /\ journal'[j].state = "committed")
    BY <1>0, <1>1, <1>3, PutFacts, "committed" \in States DEF States
  <2>2. op'.phase = "idle" /\ "idle" \notin Making \cup {"guard"}
    BY <1>3, SMT DEF NoOp, Making
  <2>3. \A j \in Keys : (Stands(j) => Stands(j)') /\ (Doomed(j) => Doomed(j)')
    BY <1>0, <1>1, <2>1, <2>2 DEF Stands, Pending, Doomed
  <2> QED BY <1>2, <2>1, <2>2, <2>3, RosterIdle
<1>4. CASE Compensate(op.key, "undo") /\ UNCHANGED journal
  <2>1. Compensate(k, "undo") /\ "undo" \in Compensating
    BY <1>1, <1>4 DEF Compensating
  <2> QED BY <1>2, <1>4, <2>1, RosterCompensate
<1> QED BY <1>3, <1>4 DEF Guard

\* A compensating step that throws starts a rollback, or ends.
LEMMA BrokenPhase ==
  ASSUME TypeOK, Broken, op.phase \in Compensating \cup {"unwind"}
  PROVE  \/ op.phase = "unwind" /\ Compensate(op.key, "rollback")
         \/ op'.phase \in {"idle", "mark"}
<1>1. CASE op.phase = "unwind"
  BY <1>1, BrokenFacts
<1>2. CASE op.phase = "rollback"
  <2>1. At("mark") /\ "mark" \in Phases
    BY <1>2, BrokenFacts DEF Phases
  <2> QED BY <2>1, AtFacts
<1>3. CASE op.phase = "undo"
  BY <1>3, BrokenFacts DEF NoOp
<1> QED BY <1>1, <1>2, <1>3 DEF Compensating

LEMMA RosterBroken ==
  ASSUME Roster, Whole', Broken, op.phase \in Compensating \cup {"unwind"}, UNCHANGED journal, Reshuffled
  PROVE  Roster'
<1>0. TypeOK /\ op.key \in Keys
  BY SMT DEF Roster, Whole, Shape, PhaseShape, Compensating
<1>1. PICK k \in Keys : k = op.key
  BY <1>0
<1>2. CASE op.phase = "unwind" /\ Compensate(k, "rollback")
  BY <1>2, RosterCompensate, "rollback" \in Compensating DEF Compensating
<1>3. CASE op'.phase \in {"idle", "mark"}
  <2>1. op'.phase \notin Making \cup {"guard"}
    BY <1>3, SMT DEF Making
  <2>2. \A j \in Keys : (Stands(j) => Stands(j)') /\ (Doomed(j) => Doomed(j)')
    BY <2>1 DEF Stands, Pending, Doomed
  <2> QED BY <1>3, <2>2, RosterIdle
<1> QED BY <1>0, <1>1, <1>2, <1>3, BrokenPhase

LEMMA RosterRemove == ASSUME Roster, Whole', Remove PROVE Roster'
<1>1. PICK k \in Keys, x \in op.left :
           /\ op.key = k /\ op.phase \in Compensating \cup {"unwind"} /\ x \in Arts
           /\ UNCHANGED <<journal, deps, crashes>>
           /\ \/ /\ mem' = Shrunk(mem, x) /\ disk' = Saved(Kind(x), Shrunk(mem, x))
                 /\ op' = [phase |-> op.phase, key |-> k, made |-> op.made, left |-> op.left \ {x},
                           back |-> op.back]
              \/ mem' \in {mem, Shrunk(mem, x)} /\ disk' = disk /\ Broken
  BY RemoveFacts DEF Roster, Whole
<1>2. mem \in Workspace /\ disk \in Workspace /\ Kind(x) \in Kinds
  BY <1>1, ArtFacts DEF Roster, Whole, Shape, TypeOK
<1>3. /\ Shrunk(mem, x) \in Workspace /\ Shrunk(mem, x).hidden = mem.hidden
      /\ Shrunk(mem, x).bot \subseteq mem.bot
  BY <1>1, <1>2, ShrunkFacts
<1>4. \/ /\ Saved(Kind(x), Shrunk(mem, x)).hidden = mem.hidden
         /\ Saved(Kind(x), Shrunk(mem, x)).bot \subseteq mem.bot
      \/ /\ Saved(Kind(x), Shrunk(mem, x)).hidden = disk.hidden
         /\ Saved(Kind(x), Shrunk(mem, x)).bot = disk.bot
  BY <1>2, <1>3, SavedFacts
<1>5. /\ mem'.hidden = mem.hidden /\ mem'.bot \subseteq mem.bot
      /\ \/ disk'.hidden = mem.hidden /\ disk'.bot \subseteq mem.bot
         \/ disk'.hidden = disk.hidden /\ disk'.bot = disk.bot
  BY <1>1, <1>3, <1>4
<1>6. Reshuffled
  BY <1>5 DEF Reshuffled
<1>7. CASE op' = [phase |-> op.phase, key |-> k, made |-> op.made, left |-> op.left \ {x},
                  back |-> op.back]
  <2>1. op'.phase = op.phase /\ op'.key = k /\ op'.back = op.back /\ op'.phase \notin Making \cup {"guard"}
    BY <1>1, <1>7 DEF Making, Compensating
  <2>2. \A j \in Keys : (Stands(j) => Stands(j)') /\ (Doomed(j) => Doomed(j)')
    BY <1>1, <2>1 DEF Stands, Pending, Doomed
  <2>3. GivenBack'
    <3> SUFFICES ASSUME op.phase \in Compensating,
                        NEW b, (b \in mem'.hidden /\ b \in mem'.bot) \/ (b \in disk'.hidden /\ b \in disk'.bot),
                        b \in journal[k].prior, b \notin op.back
                 PROVE  Going(b)' \/ \E j \in Keys \ {k} : Stands(j)' /\ b \in journal[j].prior
      BY <1>1, <2>1 DEF GivenBack
    <3>1. Going(b) \/ \E j \in Keys \ {k} : Stands(j) /\ b \in journal[j].prior
      BY <1>1, <1>6 DEF Roster, GivenBack, Reshuffled
    <3>2. \A y \in Arts : y[1] \in Keys
      BY ArtFacts
    <3> QED BY <2>2, <3>1, <3>2 DEF Going
  <2> QED BY <1>1, <1>6, <2>1, <2>2, <2>3, RosterQuiet DEF Reshuffled
<1>8. CASE Broken
  BY <1>1, <1>6, <1>8, RosterBroken
<1> QED BY <1>1, <1>7, <1>8

LEMMA RosterRestore == ASSUME Roster, Whole', Restore PROVE Roster'
<1>1. PICK k \in Keys, b \in op.back, H \in SUBSET Bots :
           /\ op.key = k /\ op.phase \in Compensating \cup {"unwind"} /\ op.left = {}
           /\ H = mem.hidden \ {b} /\ UNCHANGED <<journal, deps, crashes>>
           /\ \/ /\ \/ mem' = Rehidden(mem, H) /\ disk' = Saved("bot", Rehidden(mem, H))
                    \/ b \notin mem.bot /\ mem' = mem /\ disk' = disk
                 /\ op' = [phase |-> op.phase, key |-> k, made |-> op.made, left |-> {},
                           back |-> op.back \ {b}]
              \/ mem' = Rehidden(mem, H) /\ disk' = disk /\ Broken
  BY RestoreFacts DEF Roster, Whole
<1>2. mem \in Workspace /\ disk \in Workspace /\ "bot" \in Kinds
  BY DEF Roster, Whole, Shape, TypeOK, Kinds
<1>3. /\ Rehidden(mem, H).bot = mem.bot /\ Rehidden(mem, H).hidden = mem.hidden \ {b}
      /\ Saved("bot", Rehidden(mem, H)).bot = mem.bot
      /\ Saved("bot", Rehidden(mem, H)).hidden = mem.hidden \ {b}
  BY <1>1, <1>2, RehiddenFacts, SavedFacts
<1>4. Reshuffled
  BY <1>1, <1>3 DEF Reshuffled
<1>5. CASE /\ \/ mem' = Rehidden(mem, H) /\ disk' = Saved("bot", Rehidden(mem, H))
              \/ b \notin mem.bot /\ mem' = mem /\ disk' = disk
           /\ op' = [phase |-> op.phase, key |-> k, made |-> op.made, left |-> {}, back |-> op.back \ {b}]
  <2>1. op'.phase = op.phase /\ op'.key = k /\ op'.back = op.back \ {b}
        /\ op'.phase \notin Making \cup {"guard"}
    BY <1>1, <1>5 DEF Making, Compensating
  <2>2. \A j \in Keys : (Stands(j) => Stands(j)') /\ (Doomed(j) => Doomed(j)')
    BY <1>1, <2>1 DEF Stands, Pending, Doomed
  <2>3. GivenBack'
    <3> SUFFICES ASSUME op.phase \in Compensating,
                        NEW c, (c \in mem'.hidden /\ c \in mem'.bot) \/ (c \in disk'.hidden /\ c \in disk'.bot),
                        c \in journal[k].prior, c \notin op.back \ {b}
                 PROVE  Going(c)' \/ \E j \in Keys \ {k} : Stands(j)' /\ c \in journal[j].prior
      BY <1>1, <2>1 DEF GivenBack
    <3>1. \A y \in Arts : y[1] \in Keys
      BY ArtFacts
    <3>2. CASE c = b
      <4>1. c \in disk.bot /\ c \notin mem.bot
        BY <1>3, <1>5, <3>2
      <4>2. Going(c)
        BY <4>1, BotFacts DEF Roster
      <4> QED BY <2>2, <3>1, <4>2 DEF Going
    <3>3. CASE c # b
      <4>1. Going(c) \/ \E j \in Keys \ {k} : Stands(j) /\ c \in journal[j].prior
        BY <1>1, <1>4, <3>3 DEF Roster, GivenBack, Reshuffled
      <4> QED BY <2>2, <3>1, <4>1 DEF Going
    <3> QED BY <3>2, <3>3
  <2> QED BY <1>1, <1>4, <2>1, <2>2, <2>3, RosterQuiet DEF Reshuffled
<1>6. CASE Broken
  BY <1>1, <1>4, <1>6, RosterBroken
<1> QED BY <1>1, <1>5, <1>6

\* The compensation is whole: an import that no longer stands hides nobody.
LEMMA RosterFinish == ASSUME Roster, Whole', Finish PROVE Roster'
<1>0. /\ op.phase \in Compensating \cup {"unwind"} /\ op.left = {} /\ op.back = {}
      /\ UNCHANGED <<mem, disk>> /\ Shape /\ TypeOK /\ Reshuffled
  BY DEF Finish, Compensating, Roster, Whole, Shape, Reshuffled
<1>1. PICK k \in Keys : k = op.key
  BY <1>0, SMT DEF Shape, PhaseShape, Compensating
<1>2. CASE op.phase = "unwind"
  <2>1. Compensate(k, "rollback") /\ UNCHANGED journal /\ "rollback" \in Compensating
    BY <1>1, <1>2 DEF Finish, Compensating
  <2> QED BY <1>0, <2>1, RosterCompensate
<1>3. CASE op.phase # "unwind" /\ UNCHANGED journal /\ (op' = NoOp \/ At("mark"))
  <2>1. op'.phase \in {"idle", "mark"}
    BY <1>0, <1>3, AtFacts, "mark" \in Phases DEF NoOp, Phases
  <2>2. op'.phase \notin Making \cup {"guard"}
    BY <2>1, SMT DEF Making
  <2>3. \A j \in Keys : (Stands(j) => Stands(j)') /\ (Doomed(j) => Doomed(j)')
    BY <1>3, <2>2 DEF Stands, Pending, Doomed
  <2> QED BY <1>0, <1>3, <2>1, <2>3, RosterIdle
<1>4. CASE op.phase # "unwind" /\ (Put(k, "undone") \/ Put(k, "rolled_back")) /\ op' = NoOp
  <2>1. \A j \in Keys : /\ journal'[j].gen = journal[j].gen /\ journal'[j].prior = journal[j].prior
                        /\ j # k => journal'[j].state = journal[j].state
    BY <1>0, <1>4, PutFacts, "undone" \in States, "rolled_back" \in States DEF States
  <2>2. /\ op.phase \in Compensating /\ op.phase \notin Making \cup {"guard"}
        /\ op'.phase = "idle" /\ op'.phase \notin Making \cup Compensating \cup {"guard"}
    BY <1>0, <1>4, SMT DEF NoOp, Making, Compensating
  <2>3. \A x \in Arts : /\ x[1] \in Keys
                        /\ x[1] = k => ~In(x, mem) /\ ~In(x, disk)
    <3>1. Emptied(k)
      BY <1>0, <1>1, <2>2, EmptiedFacts
    <3>2. \A x \in Arts : x[1] = k /\ (In(x, mem) \/ In(x, disk)) => Planned(x) /\ In(x, mem)
      BY <1>1, <2>2 DEF Roster, Whole, Traced, Ahead
    <3> QED BY <3>1, <3>2, ArtFacts DEF Emptied
  <2>4. \A b : Going(b) /\ (b \in mem.bot \/ b \in disk.bot) => Going(b)'
    <3> SUFFICES ASSUME NEW b \in Arts, Doomed(b[1]), b \in mem.bot \/ b \in disk.bot
                 PROVE  Doomed(b[1])'
      BY DEF Going
    <3>1. In(b, mem) \/ In(b, disk)
      BY BotFacts DEF Roster
    <3>2. b[1] \in Keys /\ b[1] # k
      BY <2>3, <3>1
    <3> QED BY <2>1, <2>2, <3>2 DEF Doomed, Pending
  <2>5. \A b : \A j \in Keys \ {k} : Stands(j) /\ b \in journal[j].prior => Replaced(b)'
    BY <2>1 DEF Replaced, Stands, Pending
  <2>6. Reasons'
    <3> SUFFICES ASSUME NEW w \in {mem, disk}, NEW b \in w.hidden \cap w.bot
                 PROVE  Replaced(b)' \/ Going(b)'
      BY <1>0 DEF Reasons
    <3>1. CASE b \in journal[k].prior
      <4>1. Going(b) \/ \E j \in Keys \ {k} : Stands(j) /\ b \in journal[j].prior
        BY <1>0, <1>1, <2>2, <3>1 DEF Roster, GivenBack
      <4> QED BY <2>4, <2>5, <4>1
    <3>2. CASE b \notin journal[k].prior
      <4>1. Going(b) \/ \E j \in Keys \ {k} : Stands(j) /\ b \in journal[j].prior
        BY <3>2 DEF Roster, Reasons, Replaced
      <4> QED BY <2>4, <2>5, <4>1
    <3> QED BY <3>1, <3>2
  <2>7. \A x \in Arts : Minted(x) => Minted(x)'
    BY <2>1, <2>2, <2>3 DEF Minted
  <2>8. HiddenIsMinted' /\ PriorIsMinted' /\ GivenBack'
    BY <1>0, <2>1, <2>2, <2>7 DEF Roster, HiddenIsMinted, PriorIsMinted, GivenBack
  <2> QED BY <2>6, <2>8 DEF Roster
<1>5. \/ op.phase = "unwind"
      \/ UNCHANGED journal /\ (op' = NoOp \/ At("mark"))
      \/ (Put(k, "undone") \/ Put(k, "rolled_back")) /\ op' = NoOp
  BY <1>1 DEF Finish, Fall, Answer, Die
<1> QED BY <1>2, <1>3, <1>4, <1>5

LEMMA RosterMark == ASSUME Roster, Whole', Mark PROVE Roster'
<1>0. op.phase = "mark" /\ UNCHANGED <<mem, disk>> /\ Shape /\ TypeOK /\ op' = NoOp
  BY DEF Mark, Fall, Answer, Die, Roster, Whole, Shape
<1>1. PICK k \in Keys : k = op.key /\ RollsBack(k)
  BY <1>0, SMT DEF Shape, PhaseShape
<1>2. \A j \in Keys : /\ journal'[j].gen = journal[j].gen /\ journal'[j].prior = journal[j].prior
                      /\ journal'[j].state = journal[j].state
                           \/ (j = k /\ journal'[j].state = "rollback_failed")
  <2>1. Put(k, "rollback_failed") \/ UNCHANGED journal
    BY <1>1 DEF Mark
  <2> QED BY <1>0, <2>1, PutFacts, "rollback_failed" \in States DEF States
<1>3. op'.phase = "idle" /\ "idle" \notin Making \cup {"guard"}
  BY <1>0, SMT DEF NoOp, Making
<1>4. \A j \in Keys : (Stands(j) => Stands(j)') /\ (Doomed(j) => Doomed(j)')
  BY <1>1, <1>2, <1>3 DEF Stands, Pending, Doomed, RollsBack
<1>5. Reshuffled
  BY <1>0 DEF Reshuffled
<1> QED BY <1>2, <1>3, <1>4, <1>5, RosterIdle

LEMMA RosterRecover == ASSUME Roster, Whole', NEW k \in Keys, Recover(k) PROVE Roster'
<1>0. op.phase = "idle" /\ UNCHANGED <<journal, mem, disk>> /\ Reshuffled
  BY DEF Recover, NoOp, Reshuffled
<1>1. CASE Compensate(k, "rollback") \/ Compensate(k, "undo")
  BY <1>0, <1>1, RosterCompensate, "rollback" \in Compensating, "undo" \in Compensating DEF Compensating
<1>2. CASE op' = NoOp
  <2>1. op'.phase = "idle" /\ "idle" \notin Making \cup {"guard"}
    BY <1>2, SMT DEF NoOp, Making
  <2>2. \A j \in Keys : (Stands(j) => Stands(j)') /\ (Doomed(j) => Doomed(j)')
    BY <1>0, <2>1 DEF Stands, Pending, Doomed
  <2> QED BY <1>0, <2>1, <2>2, RosterIdle
<1> QED BY <1>1, <1>2 DEF Recover, Die

LEMMA RosterServer ==
  ASSUME Roster, Whole',
         Crash \/ Ready \/ Start \/ Detach \/ UNCHANGED vars
           \/ \E b \in Bots, door \in {"route", "card"} : Attach(b, door)
  PROVE  Roster'
<1>1. ASSUME op'.phase = "idle", UNCHANGED journal, Reshuffled PROVE Roster'
  <2>1. "idle" \notin Making \cup {"guard"}
    BY SMT DEF Making
  <2>2. \A j \in Keys : (Stands(j) => Stands(j)') /\ (Doomed(j) => Doomed(j)')
    BY <1>1, <2>1 DEF Stands, Pending, Doomed
  <2> QED BY <1>1, <2>2, RosterIdle
<1>2. CASE Crash
  BY <1>1, <1>2 DEF Crash, NoOp, Reshuffled
<1>3. CASE Start
  <2>1. mem' = disk /\ UNCHANGED <<journal, disk, op>> /\ op.phase = "idle"
    BY <1>3, SMT DEF Start, Roster, Whole, Shape, PhaseShape
  <2> QED BY <1>1, <2>1 DEF Reshuffled
<1>4. CASE UNCHANGED <<journal, mem, disk, op>>
  <2>1. Reasons' /\ HiddenIsMinted' /\ PriorIsMinted' /\ GivenBack'
    BY <1>4 DEF Roster, Reasons, HiddenIsMinted, PriorIsMinted, GivenBack, Replaced, Going, Doomed,
                Stands, Pending, Minted
  <2> QED BY <2>1 DEF Roster
<1> QED BY <1>2, <1>3, <1>4 DEF Ready, Detach, Attach, vars

LEMMA RosterStep == Roster /\ [Next /\ ~Lost]_vars => Roster'
<1> SUFFICES ASSUME Roster, [Next /\ ~Lost]_vars PROVE Roster'
  OBVIOUS
<1>1. Whole'
  BY WholeStep DEF Roster
<1>2. CASE UNCHANGED vars
  BY <1>1, <1>2, RosterServer
<1>3. CASE Next
  BY <1>1, <1>3, RosterBegin, RosterRecordPrior, RosterSelect, RosterRecordArtifact, RosterCreateArtifact,
     RosterArchive, RosterCommit, RosterRequestUndo, RosterGuard, RosterRemove, RosterRestore,
     RosterFinish, RosterMark, RosterRecover, RosterServer DEF Next, System
<1> QED BY <1>2, <1>3

LEMMA RosterWhole == Roster => AllOrNothing
<1> SUFFICES ASSUME Roster PROVE CrewIsWhole /\ RosterIsBack
  BY DEF AllOrNothing
<1>1. CrewIsWhole
  BY WholeCrew DEF Roster
<1>2. RosterIsBack
  <2> SUFFICES ASSUME \A k \in Keys : Settled(k), NEW b \in mem.hidden \cap mem.bot
               PROVE  \E k \in Keys : journal[k].state = "committed" /\ b \in journal[k].prior
    BY DEF RosterIsBack
  <2>1. \A k \in Keys : ~Pending(k)
    BY DEF Settled
  <2>2. ~Going(b)
    BY <2>1, ArtFacts DEF Going, Doomed
  <2> QED BY <2>1, <2>2 DEF Roster, Reasons, Replaced, Stands
<1> QED BY <1>1, <1>2

\* Whatever crashes and however many writes fail, an import that committed is whole, and one
\* that failed, was recovered or was undone leaves nothing behind and gives every operator it
\* hid back, unless a removal is lost while a failed import unwinds (AllOrNothing).
THEOREM AllOrNothingUnlessLost == Spec /\ [][~Lost]_vars => []AllOrNothing
<1>1. Roster /\ [Next]_vars /\ [~Lost]_vars => Roster'
  BY RosterStep
<1> QED BY <1>1, RosterInit, RosterWhole, PTL DEF Spec

\* An import unwinds what it made only after a write has failed.
FailedFirst == op.phase = "unwind" /\ op.left # {} => fails > 0

LEMMA OneFailure ==
  ASSUME MaxFails <= 1, Shape, Shape', FailedFirst, [Next]_vars
  PROVE  FailedFirst' /\ ~Lost
<1>0. /\ fails \in Nat /\ fails' \in Nat /\ fails' <= MaxFails /\ MaxFails \in Nat
      /\ Shape /\ TypeOK
  <2>1. fails \in 0..MaxFails /\ fails' \in 0..MaxFails /\ Shape /\ TypeOK
    BY DEF Shape, TypeOK
  <2> QED BY <2>1, ImportAssumption, SMT
<1>1. CASE Remove
  <2>1. PICK k \in Keys, x \in op.left :
           /\ op.phase \in Compensating \cup {"unwind"}
           /\ \/ /\ UNCHANGED <<leases, server, fails>>
                 /\ op' = [phase |-> op.phase, key |-> k, made |-> op.made, left |-> op.left \ {x},
                           back |-> op.back]
              \/ Broken /\ fails' = fails + 1
    BY <1>0, <1>1, RemoveFacts
  <2>2. CASE /\ UNCHANGED fails
             /\ op' = [phase |-> op.phase, key |-> k, made |-> op.made, left |-> op.left \ {x},
                       back |-> op.back]
    BY <2>2 DEF FailedFirst, Lost
  <2>3. CASE Broken /\ fails' = fails + 1
    <3>1. op.phase # "unwind"
      BY <1>0, <2>1, <2>3, SMT DEF FailedFirst
    <3>2. op'.phase # "unwind"
      BY <1>0, <2>1, <2>3, <3>1, BrokenPhase
    <3> QED BY <3>1, <3>2 DEF FailedFirst, Lost
  <2> QED BY <2>1, <2>2, <2>3
<1>2. ASSUME op.phase # "unwind" \/ op.left = {} \/ op'.phase # "rollback" PROVE ~Lost
  BY <1>2 DEF Lost
<1>3. CASE Restore
  <2>1. PICK k \in Keys, b \in op.back :
           /\ op.phase \in Compensating \cup {"unwind"} /\ op.left = {}
           /\ \/ op' = [phase |-> op.phase, key |-> k, made |-> op.made, left |-> {},
                        back |-> op.back \ {b}]
              \/ Broken
    BY <1>0, <1>3, RestoreFacts
  <2>2. Broken => op'.phase # "unwind"
    <3>1. ASSUME Compensate(op.key, "rollback") PROVE op'.phase # "unwind"
      BY <3>1, SMT DEF Compensate
    <3> QED BY <1>0, <2>1, <3>1, BrokenPhase
  <2> QED BY <1>2, <2>1, <2>2 DEF FailedFirst
<1>4. ASSUME Unwind, op.phase \in Making, fails' > 0 \/ op.made = {} PROVE FailedFirst' /\ ~Lost
  <2>1. op'.left \subseteq op.made
    BY <1>0, <1>4, UnwindFacts
  <2> QED BY <1>2, <1>4, <2>1 DEF FailedFirst, Making
<1>5. ASSUME op'.phase # "unwind", op.phase # "unwind" \/ op.left = {} \/ op'.phase # "rollback"
      PROVE  FailedFirst' /\ ~Lost
  BY <1>2, <1>5 DEF FailedFirst
<1>6. Failed => fails' > 0
  BY <1>0, SMT DEF Failed
<1>7. \A phase \in Phases : At(phase) => op'.phase = phase
  BY <1>0, AtFacts
<1>8. \A k \in Keys : \A phase \in Compensating : Compensate(k, phase) => op'.phase = phase
  BY SMT DEF Compensate
<1>9. {"select", "record", "create", "mark"} \subseteq Phases /\ "idle" # "unwind"
      /\ "rollback" \in Compensating /\ "undo" \in Compensating
  BY DEF Phases, Compensating
<1>10. op.phase # "idle" => op.key \in Keys
  BY <1>0 DEF Shape, PhaseShape
<1>11. CASE RecordPrior
  BY <1>5, <1>7, <1>8, <1>9, <1>10, <1>11 DEF RecordPrior
<1>12. CASE Select
  <2>1. op.phase = "select" /\ "select" \in Making
    BY <1>12 DEF Select, Making
  <2>2. op.made = {}
    <3>1. PICK k \in Keys : k = op.key
      BY <1>10, <2>1
    <3>2. op.made = First(k, journal[k].done) /\ journal[k].done = 0
      BY <1>0, <2>1, <3>1, "select" # "create" DEF Shape, MakingShape
    <3> QED BY <3>2, SMT DEF First
  <2> QED BY <1>4, <1>5, <1>7, <1>9, <1>12, <2>1, <2>2 DEF Select
<1>13. CASE RecordArtifact
  BY <1>4, <1>5, <1>6, <1>7, <1>9, <1>13, "record" \in Making DEF RecordArtifact, Making
<1>14. CASE CreateArtifact
  <2>1. PICK k \in Keys : /\ op.phase = "create"
                          /\ op'.phase \in {"archive", "record"} \/ (Unwind /\ fails' > 0)
    <3>1. PICK k \in Keys, x \in Arts :
             /\ op.phase = "create"
             /\ \/ op' = [phase |-> IF journal[k].done = Len(Plan) THEN "archive" ELSE "record",
                          key |-> k, made |-> op.made \cup {x}, left |-> op.left,
                          back |-> IF journal[k].done = Len(Plan) THEN journal[k].prior ELSE {}]
                \/ Unwind /\ fails' > 0
      BY <1>0, <1>14, CreateFacts
    <3> QED BY <3>1
  <2> QED BY <1>4, <1>5, <2>1 DEF Making
<1>15. CASE Archive
  <2>1. PICK b \in op.back : /\ op.phase = "archive"
                             /\ op' = [op EXCEPT !.back = @ \ {b}] \/ (Unwind /\ fails' > 0)
    BY <1>0, <1>15, ArchiveFacts
  <2>2. op' = [op EXCEPT !.back = @ \ {b}] => op'.phase = op.phase
    BY <1>0, BackFacts
  <2> QED BY <1>4, <1>5, <2>1, <2>2 DEF Making
<1>16. CASE Commit
  BY <1>5, <1>8, <1>9, <1>10, <1>16 DEF Commit, NoOp
<1>17. CASE Guard
  BY <1>5, <1>8, <1>9, <1>10, <1>17 DEF Guard, NoOp
<1>18. CASE Finish
  <2>1. op.left = {} /\ (op.phase # "idle")
    BY <1>18 DEF Finish
  <2>2. Compensate(op.key, "rollback") \/ op' = NoOp \/ At("mark")
    BY <1>18 DEF Finish, Fall, Answer, Die
  <2> QED BY <1>5, <1>7, <1>8, <1>9, <1>10, <2>1, <2>2 DEF NoOp
<1>19. CASE Mark \/ Crash
  BY <1>5, <1>19 DEF Mark, Crash, Fall, Answer, Die, NoOp
<1>20. CASE \E k \in Keys : Recover(k)
  BY <1>5, <1>8, <1>9, <1>20 DEF Recover, Die, NoOp
<1>21. CASE \E k \in Keys : Begin(k) \/ RequestUndo(k)
  BY <1>5, <1>21, BegunFacts DEF Begin, RequestUndo, NoOp
<1>22. CASE UNCHANGED <<op, fails>>
  BY <1>22 DEF FailedFirst, Lost
<1> QED BY <1>1, <1>3, <1>11, <1>12, <1>13, <1>14, <1>15, <1>16, <1>17, <1>18, <1>19, <1>20, <1>21,
           <1>22 DEF Next, System, Start, Ready, Detach, Attach, vars

\* With at most one failed write, and any number of crashes, nothing is lost: every import
\* is all or nothing (execute, undo and recover, AllOrNothing).
THEOREM AllOrNothingTheorem == ASSUME MaxFails <= 1 PROVE Spec => []AllOrNothing
<1>1. Init => Roster /\ FailedFirst
  BY RosterInit DEF Init, NoOp, FailedFirst
<1>2. Roster /\ FailedFirst /\ [Next]_vars => (Roster /\ FailedFirst)'
  <2> SUFFICES ASSUME Roster, FailedFirst, [Next]_vars PROVE Roster' /\ FailedFirst'
    OBVIOUS
  <2>1. Shape /\ Shape'
    BY ShapeStep DEF Roster, Whole
  <2>2. FailedFirst' /\ ~Lost
    BY <2>1, OneFailure
  <2> QED BY <2>2, RosterStep
<1>3. Roster /\ FailedFirst => AllOrNothing
  BY RosterWhole
<1> QED BY <1>1, <1>2, <1>3, PTL DEF Spec
=============================================================================

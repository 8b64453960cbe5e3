--------------------------- MODULE RoutinesProofs ---------------------------
(***************************************************************************)
(* Proofs about Routines, for any cards and deliveries and any bounds: its  *)
(* types, that nothing is given to the operator twice, that a card tells    *)
(* the truth and an answer holds, that a receipt never changes its mind, and *)
(* that what runs has its turn.                                            *)
(*                                                                         *)
(* The argument: memory only runs ahead of the file (FilesAgree), so that   *)
(* what the file says is settled stays settled in memory and is written     *)
(* back as it was; a run is pushed only where there was none, because the   *)
(* cadence has moved past every occurrence it made (Occurrences) and a card *)
(* without a receipt has no run yet (CardsAgree); and a turn begins only    *)
(* after "running" reached the file (StartIsFresh, BegunIsTaken).           *)
(***************************************************************************)
EXTENDS Routines, TLAPS

Final == {"ended", "cancelled", "missed"}
Taken == {"running", "ended", "cancelled"}

\* What one step may do to the status of a run.
Follows(old, new) ==
  \/ new = old
  \/ old = "none" /\ new \in {"queued", "missed"}
  \/ old = "queued" /\ new \in Taken
  \/ old = "running" /\ new \in {"ended", "cancelled"}

\* The occurrences that have a run are over, and the next one is not among them.
Occurs(m) == \A i \in 1..MaxDue :
  m.run[<<"due", i>>] # "none" => i <= clock /\ (m.next = 0 \/ i < m.next)

FilesAgree ==
  /\ mem.receipts = disk.receipts
  /\ \A c \in Causes :
       /\ disk.run[c] # "none" => mem.run[c] # "none"
       /\ disk.run[c] \in Final => mem.run[c] = disk.run[c]
  /\ server = "down" => mem = disk /\ call = Idle

Occurrences == Occurs(mem) /\ Occurs(disk)

BegunIsTaken == \A c \in Causes :
  /\ ledger.began[c] \in {0, 1}
  /\ ledger.began[c] = 1 => mem.run[c] \in Taken /\ disk.run[c] \in Taken

StartIsFresh ==
  /\ call.at \in {"pass", "start"} => call.n <= Len(mem.order)
  /\ call.at = "start" =>
       /\ call.of \in Causes /\ ledger.began[call.of] = 0
       /\ mem.run[call.of] = "running" /\ disk.run[call.of] = "running"

CardsAgree == \A q \in Cards :
  /\ card[q].state = "none" => q \notin mem.receipts /\ ledger.applied[q] = 0
  /\ card[q].state = "open" => ledger.applied[q] = IF q \in mem.receipts THEN 1 ELSE 0
  /\ card[q].state = "deny" => q \notin mem.receipts /\ ledger.applied[q] = 0
  /\ card[q].state = "allow" => ledger.applied[q] = 1
  /\ card[q].state = "open" /\ q \notin mem.receipts => mem.run[<<"ask", q>>] = "none"
  /\ card[q].state = "allow" \/ (card[q].state = "open" /\ q \in mem.receipts) =>
       (card[q].act = "run_now" => disk.run[<<"ask", q>>] # "none")

CallsAgree ==
  /\ call.at = "settle" => call.of \in Cards /\ card[call.of].state = "open" /\ call.of \in mem.receipts
  /\ call.at = "forget" => call.of \in Cards /\ card[call.of].state = "allow"
  /\ call.at \in {"enqueue", "finish"} => call.of \in Deliveries
  /\ call.at = "finish" => mem.run[<<"hook", call.of>>] # "none"

ReceiptsHold == limits.fail = 0 =>
  /\ mem.run = disk.run
  /\ \A d \in Deliveries :
       hook.got[d] = "done" \/ hookdisk.got[d] = "done" => disk.run[<<"hook", d>>] # "none"

\* The inductive invariant.
IInv ==
  /\ TypeOK /\ FilesAgree /\ Occurrences /\ BegunIsTaken /\ StartIsFresh
  /\ CardsAgree /\ CallsAgree /\ ReceiptsHold
-----------------------------------------------------------------------------
(* What the operators make of a book.                                       *)

\* A book that may follow m.
Grows(m, n) ==
  /\ n \in Book /\ Occurs(n) /\ Len(n.order) >= Len(m.order)
  /\ \A c \in Causes : Follows(m.run[c], n.run[c])

\* One that has no run m has not, and m's receipts.
Moves(m, n) ==
  /\ n \in Book /\ n.order = m.order /\ n.receipts = m.receipts
  /\ n.next \in {m.next, 0, clock + 1}
  /\ \A c \in Causes : Follows(m.run[c], n.run[c]) /\ (m.run[c] = "none" => n.run[c] = "none")

\* A book in which runs move on may follow: the next occurrence is the same, none, or
\* later than now (update, remove, cancelRun, handleRuntimeEvent).
LEMMA MovesGrows ==
  ASSUME TypeOK, NEW m \in Book, Occurs(m), NEW n, Moves(m, n)
  PROVE  Grows(m, n)
<1>1. \A i \in 1..MaxDue : <<"due", i>> \in Causes
  BY DEF Causes
<1>2. Occurs(n)
  <2> SUFFICES ASSUME NEW i \in 1..MaxDue, n.run[<<"due", i>>] # "none"
               PROVE  i <= clock /\ (n.next = 0 \/ i < n.next)
    BY DEF Occurs
  <2>1. m.run[<<"due", i>>] # "none"
    BY <1>1 DEF Moves
  <2>2. i <= clock /\ (m.next = 0 \/ i < m.next)
    BY <2>1 DEF Occurs
  <2>3. clock \in Nat
    BY DEF TypeOK
  <2>4. i < clock + 1
    BY <2>2, <2>3
  <2> QED BY <2>2, <2>4 DEF Moves
<1>3. Len(n.order) >= Len(m.order)
  BY DEF Moves, Book
<1> QED BY <1>2, <1>3 DEF Grows, Moves

\* A book may stay as it is.
LEMMA Stays ==
  ASSUME NEW m \in Book
  PROVE  Moves(m, m)
BY DEF Book, Moves, Follows

\* The fields of a book with one more run.
LEMMA PushedFields ==
  ASSUME NEW m \in Book, NEW c \in Causes, NEW status \in Status
  PROVE  /\ Pushed(m, c, status) \in Book
         /\ Pushed(m, c, status).run = [m.run EXCEPT ![c] = status]
         /\ Len(Pushed(m, c, status).order) = Len(m.order) + 1
         /\ Pushed(m, c, status).next = m.next
         /\ Pushed(m, c, status).receipts = m.receipts
<1>1. m.order \in Seq(Causes) /\ m.run \in [Causes -> Status]
  BY DEF Book
<1>2. Append(m.order, c) \in Seq(Causes) /\ Len(Append(m.order, c)) = Len(m.order) + 1
  BY <1>1
<1>3. [m.run EXCEPT ![c] = status] \in [Causes -> Status]
  BY <1>1
<1> QED BY <1>2, <1>3 DEF Book, Pushed

\* The run of a request or a delivery goes where there was none (newRun, enqueueWebhook).
LEMMA PushedGrows ==
  ASSUME NEW m \in Book, Occurs(m), NEW c \in Causes, m.run[c] = "none", c[1] # "due"
  PROVE  Grows(m, Pushed(m, c, "queued"))
<1> DEFINE n == Pushed(m, c, "queued")
<1>1. "queued" \in Status
  BY DEF Status
<1>2. /\ n \in Book /\ n.run = [m.run EXCEPT ![c] = "queued"] /\ n.next = m.next
      /\ Len(n.order) = Len(m.order) + 1
  BY <1>1, PushedFields
<1> HIDE DEF n
<1>3. \A d \in Causes : Follows(m.run[d], n.run[d])
  BY <1>2 DEF Book, Follows
<1>4. Occurs(n)
  <2> SUFFICES ASSUME NEW i \in 1..MaxDue PROVE n.run[<<"due", i>>] = m.run[<<"due", i>>]
    BY <1>2 DEF Occurs
  <2>1. <<"due", i>> \in Causes /\ <<"due", i>> # c
    BY DEF Causes
  <2> QED BY <1>2, <2>1 DEF Book
<1>5. Len(n.order) >= Len(m.order)
  BY <1>2 DEF Book
<1> QED BY <1>2, <1>3, <1>4, <1>5 DEF Grows, n

\* tick: the occurrence had no run, and the cadence moves past it.
LEMMA DueGrows ==
  ASSUME RoutinesAssumption, TypeOK, Occurs(mem), NEW status \in {"queued", "missed"},
         mem.next \in 1..clock
  PROVE  LET n == Advanced(Pushed(mem, <<"due", mem.next>>, status)) IN
         /\ Grows(mem, n) /\ n.receipts = mem.receipts
         /\ \A q \in Cards : n.run[<<"ask", q>>] = mem.run[<<"ask", q>>]
<1> DEFINE c == <<"due", mem.next>>
           p == Pushed(mem, c, status)
           n == Advanced(p)
<1>1. clock \in 0..MaxDue /\ MaxDue \in Nat /\ mem \in Book /\ limits.rev \in Nat
  BY DEF TypeOK, RoutinesAssumption
<1>2. mem.next \in 1..MaxDue /\ c \in Causes /\ status \in Status
  BY <1>1 DEF Causes, Status
<1>3. mem.run[c] = "none"
  BY <1>1, <1>2 DEF Occurs
<1>4. /\ p \in Book /\ p.run = [mem.run EXCEPT ![c] = status] /\ p.receipts = mem.receipts
      /\ Len(p.order) = Len(mem.order) + 1
  BY <1>1, <1>2, PushedFields
<1> HIDE DEF p
<1>5. /\ n \in Book /\ n.run = p.run /\ n.next = clock + 1 /\ n.order = p.order
      /\ n.receipts = p.receipts
  <2>1. clock + 1 \in 0..(MaxDue + 1) /\ limits.rev + 1 \in Nat
    BY <1>1
  <2> QED BY <2>1, <1>4 DEF Book, Advanced, Stamped
<1> HIDE DEF n
<1>6. \A d \in Causes : Follows(mem.run[d], n.run[d])
  <2> HIDE DEF c
  <2>1. mem.run \in [Causes -> Status]
    BY <1>1 DEF Book
  <2> TAKE d \in Causes
  <2>2. n.run[d] = IF d = c THEN status ELSE mem.run[d]
    BY <2>1, <1>2, <1>4, <1>5
  <2> QED BY <2>2, <1>3 DEF Follows
<1>7. Occurs(n)
  <2> SUFFICES ASSUME NEW i \in 1..MaxDue, n.run[<<"due", i>>] # "none"
               PROVE  i <= clock /\ i < n.next
    BY DEF Occurs
  <2>1. CASE i = mem.next
    BY <2>1, <1>1, <1>5
  <2>2. CASE i # mem.next
    <3>1. <<"due", i>> \in Causes /\ <<"due", i>> # c
      BY <2>2 DEF Causes
    <3>2. mem.run[<<"due", i>>] # "none"
      BY <3>1, <1>1, <1>4, <1>5 DEF Book
    <3> QED BY <3>2, <1>1, <1>5 DEF Occurs
  <2> QED BY <2>1, <2>2
<1>8. Len(n.order) >= Len(mem.order)
  BY <1>1, <1>4, <1>5 DEF Book
<1>9. \A q \in Cards : n.run[<<"ask", q>>] = mem.run[<<"ask", q>>]
  <2> TAKE q \in Cards
  <2>1. <<"ask", q>> \in Causes /\ <<"ask", q>> # c
    BY DEF Causes
  <2> QED BY <2>1, <1>1, <1>4, <1>5 DEF Book
<1> QED BY <1>4, <1>5, <1>6, <1>7, <1>8, <1>9 DEF Grows, n, p

\* The end of a run's turn touches it only if it is running (handleRuntimeEvent, failThread).
LEMMA EndedMoves ==
  ASSUME TypeOK, NEW c
  PROVE  Moves(mem, Ended(c))
<1>1. mem \in Book /\ mem.run \in [Causes -> Status]
  BY DEF TypeOK, Book
<1>2. Ended(c) \in Book /\ Ended(c).order = mem.order /\ Ended(c).receipts = mem.receipts
        /\ Ended(c).next = mem.next
        /\ Ended(c).run = [mem.run EXCEPT ![c] = IF @ = "running" THEN "ended" ELSE @]
  BY <1>1 DEF Book, Ended, Status
<1> HIDE DEF Ended
<1>3. \A d \in Causes : Follows(mem.run[d], Ended(c).run[d]) /\ (mem.run[d] = "none" => Ended(c).run[d] = "none")
  BY <1>1, <1>2 DEF Follows
<1> QED BY <1>2, <1>3 DEF Moves

\* The fields of a book whose waiting runs are cancelled (update, remove).
LEMMA DroppedFields ==
  ASSUME NEW m \in Book
  PROVE  /\ Dropped(m) \in Book /\ Dropped(m).order = m.order
         /\ Dropped(m).receipts = m.receipts /\ Dropped(m).next = m.next
         /\ \A d \in Causes : Dropped(m).run[d] =
              IF OfCadence(d) /\ m.run[d] = "queued" THEN "cancelled" ELSE m.run[d]
<1>1. /\ Dropped(m) \in Book /\ Dropped(m).order = m.order
      /\ Dropped(m).receipts = m.receipts /\ Dropped(m).next = m.next
  BY DEF Book, Dropped, Marked, Status
<1> QED BY <1>1 DEF Book, Dropped, Marked

\* Where the cadence can stand after a step.
LEMMA Ranges ==
  ASSUME RoutinesAssumption, TypeOK
  PROVE  /\ mem \in Book /\ mem.run \in [Causes -> Status] /\ limits.rev + 1 \in Nat
         /\ clock + 1 \in 0..(MaxDue + 1) /\ 0 \in 0..(MaxDue + 1)
<1>1. mem \in Book /\ mem.run \in [Causes -> Status]
  BY DEF TypeOK, Book
<1>2. clock \in 0..MaxDue /\ limits.rev \in Nat
  BY DEF TypeOK
<1>3. MaxDue \in Nat
  BY DEF RoutinesAssumption
<1> QED BY <1>1, <1>2, <1>3

\* pause, resume and delete give the cadence no run; they cancel those that wait.
LEMMA AppliedMoves ==
  ASSUME RoutinesAssumption, TypeOK, NEW act \in Acts, act # "run_now", NEW c
  PROVE  Moves(mem, Applied(mem, act, c))
<1> DEFINE n == Applied(mem, act, c)
           off == Stamped([mem EXCEPT !.state = "off", !.next = 0])
           gone == [mem EXCEPT !.state = "gone", !.next = 0]
<1>1. /\ mem \in Book /\ mem.run \in [Causes -> Status] /\ limits.rev + 1 \in Nat
      /\ clock + 1 \in 0..(MaxDue + 1) /\ 0 \in 0..(MaxDue + 1)
  BY Ranges
<1>2. act \in {"pause", "resume", "delete"}
  BY DEF Acts
<1>3. /\ n \in Book /\ n.order = mem.order /\ n.receipts = mem.receipts
      /\ n.next \in {0, clock + 1}
      /\ \A d \in Causes : n.run[d] \in {mem.run[d], IF mem.run[d] = "queued" THEN "cancelled" ELSE mem.run[d]}
  <2>1. CASE act = "pause"
    <3>1. off \in Book /\ off.order = mem.order /\ off.receipts = mem.receipts /\ off.run = mem.run /\ off.next = 0
      BY <1>1 DEF Book, Stamped
    <3>2. n = Dropped(off)
      BY <2>1 DEF Applied
    <3> HIDE DEF n, off
    <3> QED BY <3>1, <3>2, DroppedFields
  <2>2. CASE act = "resume"
    <3>1. n = Stamped([mem EXCEPT !.state = "on", !.next = clock + 1])
      BY <2>2 DEF Applied
    <3> QED BY <3>1, <1>1 DEF Book, Stamped
  <2>3. CASE act = "delete"
    <3>1. gone \in Book /\ gone.order = mem.order /\ gone.receipts = mem.receipts /\ gone.run = mem.run /\ gone.next = 0
      BY <1>1 DEF Book
    <3>2. n = Dropped(gone)
      BY <2>3 DEF Applied
    <3> HIDE DEF n, gone
    <3> QED BY <3>1, <3>2, DroppedFields
  <2> QED BY <1>2, <2>1, <2>2, <2>3
<1> HIDE DEF n
<1>4. \A d \in Causes : Follows(mem.run[d], n.run[d]) /\ (mem.run[d] = "none" => n.run[d] = "none")
  BY <1>3 DEF Follows, Taken
<1> QED BY <1>3, <1>4 DEF Moves, n

\* What a person asks for, in the calendar or with a card: "run now" gives the request of
\* that card its run, and no other card's.
LEMMA AppliedGrows ==
  ASSUME RoutinesAssumption, TypeOK, Occurs(mem), NEW act \in Acts, NEW q \in Cards,
         act = "run_now" => mem.run[<<"ask", q>>] = "none"
  PROVE  LET n == Applied(mem, act, <<"ask", q>>) IN
         /\ Grows(mem, n) /\ n.receipts = mem.receipts
         /\ \A p \in Cards : p # q /\ mem.run[<<"ask", p>>] = "none" => n.run[<<"ask", p>>] = "none"
         /\ act = "run_now" => n.run[<<"ask", q>>] = "queued"
<1> DEFINE c == <<"ask", q>>
           n == Applied(mem, act, c)
<1>1. mem \in Book /\ mem.run \in [Causes -> Status] /\ \A p \in Cards : <<"ask", p>> \in Causes
  BY DEF TypeOK, Book, Causes
<1>2. CASE act = "run_now"
  <2>1. n = Pushed(mem, c, "queued") /\ c \in Causes /\ c[1] # "due"
    BY <1>1, <1>2 DEF Applied
  <2>2. "queued" \in Status
    BY DEF Status
  <2>3. /\ n \in Book /\ n.run = [mem.run EXCEPT ![c] = "queued"] /\ n.receipts = mem.receipts
    <3> HIDE DEF n, c
    <3>1. mem \in Book /\ c \in Causes /\ "queued" \in Status
      BY <2>1, <2>2, <1>1
    <3>2. /\ Pushed(mem, c, "queued") \in Book
          /\ Pushed(mem, c, "queued").run = [mem.run EXCEPT ![c] = "queued"]
          /\ Pushed(mem, c, "queued").receipts = mem.receipts
      BY <3>1, PushedFields
    <3> QED BY <2>1, <3>2
  <2>4. Grows(mem, n)
    BY <2>1, <1>1, <1>2, PushedGrows
  <2>5. \A p \in Cards : p # q => <<"ask", p>> # c
    OBVIOUS
  <2> HIDE DEF n, c
  <2> QED BY <2>1, <2>3, <2>4, <2>5, <1>1 DEF n, c
<1>3. CASE act # "run_now"
  <2>1. Moves(mem, n)
    BY <1>3, AppliedMoves
  <2> HIDE DEF n
  <2>2. Grows(mem, n)
    BY <2>1, <1>1, MovesGrows
  <2>3. \A p \in Cards : mem.run[<<"ask", p>>] = "none" => n.run[<<"ask", p>>] = "none"
    BY <2>1, <1>1 DEF Moves
  <2> QED BY <1>3, <2>1, <2>2, <2>3 DEF Moves, n
<1> QED BY <1>2, <1>3
-----------------------------------------------------------------------------
(* What a step that changes the two files leaves true.                      *)

\* Memory and file after one write, made or failed: what the file called settled stays so.
Settled(old, new) ==
  \A c \in Causes : old.run[c] \in Final => new.run[c] = old.run[c]

Written ==
  /\ Grows(mem, mem') /\ disk' \in {disk, mem'} /\ mem'.receipts = disk'.receipts
  /\ server' = "up" \/ (mem' = disk' /\ call' = Idle)
  /\ clock' = clock

\* save and commitMutation: memory runs ahead of the file, and what is settled in the
\* file stays settled in both.
LEMMA FilesStep ==
  ASSUME TypeOK, FilesAgree, Occurrences, Written
  PROVE  mem' \in Book /\ disk' \in Book /\ FilesAgree' /\ Occurrences' /\ Settled(disk, disk')
<1>1. mem \in Book /\ disk \in Book
  BY DEF TypeOK
<1>2. mem' \in Book /\ disk' \in Book
  BY <1>1 DEF Written, Grows
<1>3. \A c \in Causes : /\ mem.run[c] # "none" => mem'.run[c] # "none"
                        /\ mem.run[c] \in Final => mem'.run[c] = mem.run[c]
  BY DEF Written, Grows, Follows, Final, Taken
<1>4. FilesAgree'
  <2>1. \A c \in Causes : /\ disk'.run[c] # "none" => mem'.run[c] # "none"
                          /\ disk'.run[c] \in Final => mem'.run[c] = disk'.run[c]
    BY <1>3 DEF Written, FilesAgree
  <2>2. server' = "down" => mem' = disk' /\ call' = Idle
    BY DEF Written
  <2>3. Idle' = Idle
    BY DEF Idle
  <2> QED BY <2>1, <2>2, <2>3 DEF Written, FilesAgree
<1>5. Occurrences'
  BY DEF Occurrences, Occurs, Written, Grows
<1>6. Settled(disk, disk')
  BY <1>3 DEF Settled, Written, FilesAgree
<1> QED BY <1>2, <1>4, <1>5, <1>6

\* A run that began has been taken, and stays so.
LEMMA BegunStep ==
  ASSUME TypeOK, BegunIsTaken, Written, ledger'.began = ledger.began
  PROVE  BegunIsTaken'
<1>1. \A c \in Causes : mem.run[c] \in Taken => mem'.run[c] \in Taken
  BY DEF Written, Grows, Follows, Taken
<1> QED BY <1>1 DEF BegunIsTaken, Written, Taken

\* Cards and their receipts, after a step that is not about them.
LEMMA CardsStep ==
  ASSUME TypeOK, FilesAgree, CardsAgree, Written, card' = card,
         ledger'.applied = ledger.applied, mem'.receipts = mem.receipts,
         \A q \in Cards : card[q].state = "open" /\ mem.run[<<"ask", q>>] = "none"
                            => mem'.run[<<"ask", q>>] = "none"
  PROVE  CardsAgree'
<1>1. \A q \in Cards : <<"ask", q>> \in Causes
  BY DEF Causes
<1>2. \A q \in Cards : disk.run[<<"ask", q>>] # "none" => disk'.run[<<"ask", q>>] # "none"
  BY <1>1 DEF FilesAgree, Written, Grows, Follows, Taken
<1> QED BY <1>2 DEF CardsAgree

\* Receipts of deliveries, after a step that commits none.
LEMMA ReceiptsStep ==
  ASSUME TypeOK, FilesAgree, ReceiptsHold, Written,
         limits'.fail = 0 => limits.fail = 0 /\ (mem' = disk' \/ (mem' = mem /\ disk' = disk)),
         \A d \in Deliveries : hook'.got[d] = "done" \/ hookdisk'.got[d] = "done"
                                 => hook.got[d] = "done" \/ hookdisk.got[d] = "done"
  PROVE  ReceiptsHold'
<1>1. \A d \in Deliveries : <<"hook", d>> \in Causes
  BY DEF Causes
<1>2. \A d \in Deliveries : disk.run[<<"hook", d>>] # "none" => disk'.run[<<"hook", d>>] # "none"
  BY <1>1 DEF FilesAgree, Written, Grows, Follows, Taken
<1> QED BY <1>2 DEF ReceiptsHold

\* A run set in memory to a book it may grow to, then written or not.
LEMMA WrittenBook ==
  ASSUME TypeOK, FilesAgree, NEW n, Grows(mem, n), n.receipts = mem.receipts,
         mem' = n, disk' \in {disk, n}, server' = "up", clock' = clock
  PROVE  Written
BY DEF Written, FilesAgree

\* A step that leaves both files alone.
LEMMA WrittenSame ==
  ASSUME TypeOK, FilesAgree, Occurrences, mem' = mem, disk' = disk, server' = "up",
         clock' = clock
  PROVE  Written
<1>1. mem \in Book /\ Occurs(mem)
  BY DEF TypeOK, Occurrences
<1>2. Grows(mem, mem)
  BY <1>1, Stays, MovesGrows
<1> QED BY <1>2 DEF Written, FilesAgree

\* The handlers under way are the server's.
LEMMA CallIsUp ==
  ASSUME TypeOK, FilesAgree, call # Idle
  PROVE  server = "up"
BY DEF TypeOK, FilesAgree

\* What is left to show of a step that writes: the parts that differ from one to the next.
LEMMA InvStep ==
  ASSUME IInv, Written, ledger'.began = ledger.began,
         TypeOK', StartIsFresh', CardsAgree', CallsAgree',
         limits'.fail = 0 => limits.fail = 0 /\ (mem' = disk' \/ (mem' = mem /\ disk' = disk)),
         \A d \in Deliveries : hook'.got[d] = "done" \/ hookdisk'.got[d] = "done"
                                 => hook.got[d] = "done" \/ hookdisk.got[d] = "done"
  PROVE  IInv' /\ Settled(disk, disk')
<1>1. TypeOK /\ FilesAgree /\ Occurrences /\ BegunIsTaken /\ ReceiptsHold
  BY DEF IInv
<1>2. FilesAgree' /\ Occurrences' /\ Settled(disk, disk')
  BY <1>1, FilesStep
<1>3. BegunIsTaken'
  BY <1>1, BegunStep
<1>4. ReceiptsHold'
  BY <1>1, ReceiptsStep
<1> QED BY <1>2, <1>3, <1>4 DEF IInv

\* A failed write counts.
LEMMA FailCounts ==
  ASSUME RoutinesAssumption, TypeOK, CanFail, Fails \/ FailsStamped
  PROVE  /\ limits'.fail # 0
         /\ limits' \in [fault : 0..MaxFaults, fail : 0..MaxFails, rev : Nat]
<1>1. limits \in [fault : 0..MaxFaults, fail : 0..MaxFails, rev : Nat]
  BY DEF TypeOK
<1>2. MaxFails \in Nat
  BY DEF RoutinesAssumption
<1>3. limits.fail + 1 \in 0..MaxFails /\ limits.fail + 1 # 0 /\ limits.rev + 1 \in Nat
  BY <1>1, <1>2 DEF CanFail
<1> QED BY <1>1, <1>3 DEF Fails, FailsStamped

\* A revision is stamped.
LEMMA StampCounts ==
  ASSUME TypeOK, Stamps
  PROVE  /\ limits'.fail = limits.fail
         /\ limits' \in [fault : 0..MaxFaults, fail : 0..MaxFails, rev : Nat]
<1>1. limits \in [fault : 0..MaxFaults, fail : 0..MaxFails, rev : Nat]
  BY DEF TypeOK
<1>2. limits.rev + 1 \in Nat
  BY <1>1
<1> QED BY <1>1, <1>2 DEF Stamps
\* A fault is counted.
LEMMA FaultCounts ==
  ASSUME RoutinesAssumption, TypeOK, Faults
  PROVE  /\ limits'.fail = limits.fail
         /\ limits' \in [fault : 0..MaxFaults, fail : 0..MaxFails, rev : Nat]
<1>1. limits \in [fault : 0..MaxFaults, fail : 0..MaxFails, rev : Nat]
  BY DEF TypeOK
<1>2. MaxFaults \in Nat
  BY DEF RoutinesAssumption
<1>3. limits.fault + 1 \in 0..MaxFaults
  BY <1>1, <1>2 DEF Faults
<1> QED BY <1>1, <1>3 DEF Faults

\* The book of the turns keeps its shape when one turn moves to another stage.
LEMMA TurnMoves ==
  ASSUME turn \in TurnBook, NEW c \in Causes, NEW stage \in Stages, NEW of \in Causes \cup {None},
         NEW grace \in SUBSET Causes, NEW lost \in SUBSET Causes, NEW orphans \in SUBSET Causes
  PROVE  [of |-> of, at |-> [turn.at EXCEPT ![c] = stage], grace |-> grace, lost |-> lost,
          orphans |-> orphans] \in TurnBook
<1>1. turn.at \in [Causes -> Stages]
  BY DEF TurnBook
<1>2. [turn.at EXCEPT ![c] = stage] \in [Causes -> Stages]
  BY <1>1
<1> QED BY <1>2 DEF TurnBook

\* Field by field.
LEMMA TurnFields ==
  ASSUME turn \in TurnBook
  PROVE  /\ turn = [of |-> turn.of, at |-> turn.at, grace |-> turn.grace, lost |-> turn.lost,
                    orphans |-> turn.orphans]
         /\ turn.of \in Causes \cup {None} /\ turn.at \in [Causes -> Stages]
         /\ turn.grace \in SUBSET Causes /\ turn.lost \in SUBSET Causes
         /\ turn.orphans \in SUBSET Causes
BY DEF TurnBook

\* As it is when a server starts.
LEMMA NoTurnType == NoTurn \in TurnBook
<1>1. [c \in Causes |-> "none"] \in [Causes -> Stages]
  BY DEF Stages
<1> QED BY <1>1 DEF NoTurn, TurnBook

\* A run that runs nowhere is noted as such.
LEMMA OrphanedType ==
  ASSUME turn \in TurnBook, NEW c \in Causes, Orphaned(c)
  PROVE  turn' \in TurnBook /\ turn'.at = turn.at /\ turn'.orphans = turn.orphans \cup {c}
<1>1. turn' = [of |-> turn.of, at |-> turn.at, grace |-> turn.grace, lost |-> turn.lost,
               orphans |-> turn.orphans \cup {c}]
  BY TurnFields DEF Orphaned
<1> QED BY <1>1, TurnFields DEF TurnBook
-----------------------------------------------------------------------------
(* The scheduler's steps.                                                   *)

\* The invariant holds at the start.
LEMMA InitInv ==
  ASSUME RoutinesAssumption, Init
  PROVE  IInv
<1>1. MaxDue \in Nat /\ MaxFaults \in Nat /\ MaxFails \in Nat
  BY DEF RoutinesAssumption
<1>2. mem \in Book /\ disk \in Book
  BY <1>1 DEF Init, Book, Status
<1>3. hook \in Hooks /\ hookdisk \in Hooks
  BY DEF Init, Hooks
<1>4. card \in [Cards -> [state : {"none", "open", "allow", "deny"}, act : Acts, rev : Nat]]
  BY DEF Init, Acts
<1>5. call \in [at : Steps, of : Causes \cup Cards \cup Deliveries \cup {None}, n : Nat]
  BY DEF Init, Idle, Steps
<1>6. TypeOK
  BY <1>1, <1>2, <1>3, <1>4, <1>5, NoTurnType DEF Init, TypeOK
<1>7. \A i \in 1..MaxDue : <<"due", i>> \in Causes
  BY DEF Causes
<1>8. FilesAgree /\ Occurrences
  BY <1>7 DEF Init, FilesAgree, Occurrences, Occurs, Final
<1>9. \A q \in Cards : <<"ask", q>> \in Causes
  BY DEF Causes
<1>10. BegunIsTaken /\ StartIsFresh /\ CardsAgree /\ CallsAgree /\ ReceiptsHold
  BY <1>9 DEF Init, BegunIsTaken, StartIsFresh, CardsAgree, CallsAgree, ReceiptsHold, Idle
<1> QED BY <1>6, <1>8, <1>10 DEF IInv

\* tick.
LEMMA TickDueStep ==
  ASSUME RoutinesAssumption, IInv, TickDue
  PROVE  IInv' /\ Settled(disk, disk')
<1>1. TypeOK /\ FilesAgree /\ Occurrences /\ CardsAgree /\ Occurs(mem)
  BY DEF IInv, Occurrences
<1>2. PICK status \in {"queued", "missed"} :
        LET m == Advanced(Pushed(mem, <<"due", mem.next>>, status)) IN
        \/ Saved(m) /\ Goto("pass", None, Len(m.order)) /\ Stamps
        \/ Unsaved(m) /\ UNCHANGED call /\ FailsStamped
  BY DEF TickDue
<1> DEFINE m == Advanced(Pushed(mem, <<"due", mem.next>>, status))
<1>3. mem.next \in 1..clock /\ server = "up" /\ call = Idle
  BY DEF TickDue, Ready, Due
<1>4. Grows(mem, m) /\ m.receipts = mem.receipts
        /\ \A q \in Cards : m.run[<<"ask", q>>] = mem.run[<<"ask", q>>]
  BY <1>1, <1>3, DueGrows
<1>5. \/ Saved(m) /\ Goto("pass", None, Len(m.order)) /\ Stamps
      \/ Unsaved(m) /\ UNCHANGED call /\ FailsStamped
  BY <1>2
<1> HIDE DEF m
<1>6. UNCHANGED <<hook, hookdisk, card, turn, bot, server, clock, ledger>>
  BY DEF TickDue
<1>7. mem' = m /\ disk' \in {disk, m}
  BY <1>5 DEF Saved, Unsaved
<1>8. Written
  BY <1>1, <1>3, <1>4, <1>6, <1>7, WrittenBook
<1>9. limits' \in [fault : 0..MaxFaults, fail : 0..MaxFails, rev : Nat]
        /\ (limits'.fail = 0 => limits.fail = 0 /\ mem' = disk')
  BY <1>1, <1>5, FailCounts, StampCounts DEF Saved, Unsaved
<1>10. m.order \in Seq(Causes) /\ m \in Book
  BY <1>4 DEF Grows, Book
<1>11. call' \in [at : Steps, of : Causes \cup Cards \cup Deliveries \cup {None}, n : Nat]
  BY <1>1, <1>5, <1>10 DEF TypeOK, Goto, Steps
<1>12. TypeOK'
  BY <1>1, <1>6, <1>7, <1>9, <1>10, <1>11 DEF TypeOK
<1>13. StartIsFresh' /\ CallsAgree'
  BY <1>3, <1>5, <1>7, <1>10 DEF StartIsFresh, CallsAgree, Idle, Goto
<1>14. CardsAgree'
  BY <1>1, <1>4, <1>6, <1>7, <1>8, CardsStep
<1> QED BY <1>6, <1>8, <1>9, <1>12, <1>13, <1>14, InvStep

\* tick, when nothing is due.
LEMMA TickQueueStep ==
  ASSUME RoutinesAssumption, IInv, TickQueue
  PROVE  IInv' /\ Settled(disk, disk')
<1>1. TypeOK /\ FilesAgree /\ Occurrences /\ CardsAgree
  BY DEF IInv
<1>2. /\ call = Idle /\ server = "up"
      /\ UNCHANGED <<mem, disk, hook, hookdisk, card, turn, bot, server, clock, ledger, limits>>
      /\ call' = [at |-> "pass", of |-> None, n |-> Len(mem.order)]
  BY DEF TickQueue, Ready, Goto, files
<1>3. Written
  BY <1>1, <1>2, WrittenSame
<1>4. mem.order \in Seq(Causes)
  BY <1>1 DEF TypeOK, Book
<1>5. TypeOK'
  <2>1. Len(mem.order) \in Nat
    BY <1>4
  <2>2. call' \in [at : Steps, of : Causes \cup Cards \cup Deliveries \cup {None}, n : Nat]
    BY <1>2, <2>1 DEF Steps
  <2> QED BY <1>1, <1>2, <2>2 DEF TypeOK
<1>6. StartIsFresh' /\ CallsAgree'
  BY <1>2, <1>4 DEF StartIsFresh, CallsAgree
<1>7. CardsAgree'
  BY <1>1, <1>2 DEF CardsAgree
<1> QED BY <1>2, <1>3, <1>5, <1>6, <1>7, InvStep

\* One run of the pass: it is taken, in memory and in the file, before its turn is started.
LEMMA VisitStep ==
  ASSUME RoutinesAssumption, IInv, Visit
  PROVE  IInv' /\ Settled(disk, disk')
<1>1. TypeOK /\ FilesAgree /\ Occurrences /\ CardsAgree /\ BegunIsTaken /\ StartIsFresh /\ Occurs(mem)
  BY DEF IInv, Occurrences
<1>2. call.at = "pass" /\ UNCHANGED <<hook, hookdisk, card, bot, server, clock, ledger>>
  BY DEF Visit
<1>3. server = "up"
  BY <1>1, <1>2, CallIsUp DEF Idle
<1>4. /\ mem \in Book /\ mem.order \in Seq(Causes) /\ mem.run \in [Causes -> Status]
      /\ call.n \in Nat /\ call.n <= Len(mem.order)
  BY <1>1, <1>2 DEF TypeOK, Book, StartIsFresh
<1>5. CASE call' = Idle /\ UNCHANGED <<mem, disk, limits, turn>>
  <2>1. Written
    BY <1>1, <1>2, <1>3, <1>5, WrittenSame
  <2>2. TypeOK'
    BY <1>1, <1>2, <1>5 DEF TypeOK, Idle, Steps
  <2>3. StartIsFresh' /\ CallsAgree' /\ CardsAgree'
    BY <1>1, <1>2, <1>5 DEF StartIsFresh, CallsAgree, CardsAgree, Idle
  <2> QED BY <1>2, <1>5, <2>1, <2>2, <2>3, InvStep
<1>6. ASSUME NEW i \in 1..call.n, Queued(mem.order[i]),
             LET c == mem.order[i]
                 m == [mem EXCEPT !.run[c] = IF Missing THEN "ended" ELSE "running"] IN
             \/ /\ Saved(m) /\ UNCHANGED <<limits, turn>>
                /\ IF Missing THEN Goto("pass", None, i - 1) ELSE Goto("start", c, i - 1)
             \/ Unsaved(m) /\ Fails /\ Orphaned(c) /\ call' = Idle
      PROVE  IInv' /\ Settled(disk, disk')
  <2> DEFINE c == mem.order[i]
             status == IF Missing THEN "ended" ELSE "running"
             m == [mem EXCEPT !.run[c] = status]
  <2>1. c \in Causes /\ mem.run[c] = "queued" /\ i - 1 \in Nat /\ i - 1 <= Len(mem.order)
    BY <1>4, <1>6 DEF Queued
  <2>2. \/ /\ Saved(m) /\ UNCHANGED <<limits, turn>>
           /\ \/ Goto("pass", None, i - 1)
              \/ ~Missing /\ Goto("start", c, i - 1)
        \/ Unsaved(m) /\ Fails /\ Orphaned(c) /\ call' = Idle
    BY <1>6
  <2>3. status \in {"ended", "running"} /\ (~Missing => status = "running") /\ status \in Status
    BY DEF Status
  <2> HIDE DEF status, c
  <2>4. /\ m \in Book /\ m.order = mem.order /\ m.receipts = mem.receipts /\ m.next = mem.next
        /\ m.run = [mem.run EXCEPT ![c] = status]
    BY <1>4, <2>1, <2>3 DEF Book
  <2> HIDE DEF m
  <2>5. Moves(mem, m)
    BY <1>4, <2>1, <2>3, <2>4 DEF Moves, Follows, Taken
  <2>6. Grows(mem, m)
    BY <1>1, <1>4, <2>5, MovesGrows
  <2>7. mem' = m /\ disk' \in {disk, m}
    BY <2>2 DEF Saved, Unsaved
  <2>8. Written
    BY <1>1, <1>2, <1>3, <2>4, <2>6, <2>7, WrittenBook
  <2>9. limits' \in [fault : 0..MaxFaults, fail : 0..MaxFails, rev : Nat]
          /\ (limits'.fail = 0 => limits.fail = 0 /\ mem' = disk')
    BY <1>1, <2>2, FailCounts DEF Saved, Unsaved, TypeOK
  <2>10. call' \in [at : Steps, of : Causes \cup Cards \cup Deliveries \cup {None}, n : Nat]
    BY <2>1, <2>2 DEF Goto, Steps, Idle
  <2>11. TypeOK'
    <3>1. turn' \in TurnBook
      BY <1>1, <2>1, <2>2, OrphanedType DEF TypeOK
    <3> QED BY <1>1, <1>2, <2>4, <2>7, <2>9, <2>10, <3>1 DEF TypeOK
  <2>12. CallsAgree'
    BY <2>2 DEF CallsAgree, Goto, Idle
  <2>13. ledger.began[c] = 0
    BY <1>1, <2>1 DEF BegunIsTaken, Taken
  <2>14. StartIsFresh'
    <3>1. CASE call'.at # "start"
      BY <3>1, <2>1, <2>2, <2>4, <2>7 DEF StartIsFresh, Goto, Idle
    <3>2. CASE call'.at = "start"
      <4>1. ~Missing /\ Saved(m) /\ call' = [at |-> "start", of |-> c, n |-> i - 1]
        BY <3>2, <2>2 DEF Goto, Idle
      <4>2. mem'.run[c] = "running" /\ disk'.run[c] = "running"
        BY <4>1, <1>4, <2>1, <2>3, <2>4 DEF Saved
      <4> QED BY <4>1, <4>2, <1>2, <2>1, <2>4, <2>7, <2>13 DEF StartIsFresh
    <3> QED BY <3>1, <3>2
  <2>15. CardsAgree'
    <3>1. \A q \in Cards : <<"ask", q>> \in Causes
      BY DEF Causes
    <3> QED BY <1>1, <1>2, <2>4, <2>5, <2>7, <2>8, <3>1, CardsStep DEF Moves
  <2> QED BY <1>2, <2>8, <2>9, <2>11, <2>12, <2>14, <2>15, InvStep
<1> QED BY <1>5, <1>6 DEF Visit

\* startTurn: a run begins once, after the file says that it is running.
LEMMA BeginStep ==
  ASSUME RoutinesAssumption, IInv, Begin
  PROVE  IInv' /\ Settled(disk, disk')
<1>1. TypeOK /\ FilesAgree /\ Occurrences /\ CardsAgree /\ BegunIsTaken /\ StartIsFresh
        /\ ReceiptsHold /\ Occurs(mem) /\ mem \in Book
  BY DEF IInv, Occurrences, TypeOK
<1>2. call.at = "start" /\ UNCHANGED <<hook, hookdisk, card, bot, server, clock>>
  BY DEF Begin
<1>3. server = "up"
  BY <1>1, <1>2, CallIsUp DEF Idle
<1>4. /\ call.of \in Causes /\ ledger.began[call.of] = 0 /\ call.n \in Nat /\ call.n <= Len(mem.order)
      /\ mem.run[call.of] = "running" /\ disk.run[call.of] = "running"
  BY <1>1, <1>2 DEF StartIsFresh, TypeOK
<1>5. CASE /\ turn' = [turn EXCEPT !.of = call.of, !.at[call.of] = "setup"] /\ Goto("pass", None, call.n)
           /\ ledger' = [ledger EXCEPT !.began[call.of] = @ + 1] /\ UNCHANGED <<mem, disk, limits>>
  <2>1. Written
    BY <1>1, <1>2, <1>3, <1>5, WrittenSame
  <2>2. /\ ledger' \in [began : [Causes -> Nat], applied : [Cards -> Nat]]
        /\ ledger'.began = [ledger.began EXCEPT ![call.of] = 1] /\ ledger'.applied = ledger.applied
    <3>1. ledger \in [began : [Causes -> Nat], applied : [Cards -> Nat]]
      BY <1>1 DEF TypeOK
    <3>2. ledger'.began = [ledger.began EXCEPT ![call.of] = ledger.began[call.of] + 1]
            /\ ledger'.applied = ledger.applied
            /\ ledger' = [began |-> ledger'.began, applied |-> ledger'.applied]
      BY <3>1, <1>5
    <3>3. ledger'.began = [ledger.began EXCEPT ![call.of] = 1]
      BY <3>2, <1>4
    <3>4. ledger'.began \in [Causes -> Nat]
      <4>1. ledger.began \in [Causes -> Nat]
        BY <3>1
      <4>2. [ledger.began EXCEPT ![call.of] = 1] \in [Causes -> Nat]
        BY <4>1
      <4> QED BY <4>2, <3>3
    <3> QED BY <3>1, <3>2, <3>3, <3>4
  <2>3. TypeOK'
    <3>1. call' \in [at : Steps, of : Causes \cup Cards \cup Deliveries \cup {None}, n : Nat]
      BY <1>4, <1>5 DEF Goto, Steps
    <3>2. turn' \in TurnBook
      <4>1. turn \in TurnBook
        BY <1>1 DEF TypeOK
      <4>2. turn' = [of |-> call.of, at |-> [turn.at EXCEPT ![call.of] = "setup"],
                     grace |-> turn.grace, lost |-> turn.lost, orphans |-> turn.orphans]
        BY <1>5, <4>1, TurnFields
      <4>3. "setup" \in Stages
        BY DEF Stages
      <4> QED BY <1>4, <4>1, <4>2, <4>3, TurnFields, TurnMoves
    <3> QED BY <1>1, <1>2, <1>5, <2>2, <3>1, <3>2 DEF TypeOK
  <2>4. FilesAgree' /\ Occurrences' /\ Settled(disk, disk')
    BY <1>1, <2>1, FilesStep
  <2>5. BegunIsTaken'
    <3>1. ledger.began \in [Causes -> Nat] /\ mem' = mem /\ disk' = disk
      BY <1>1, <1>5 DEF TypeOK
    <3>2. \A c \in Causes : ledger'.began[c] = IF c = call.of THEN 1 ELSE ledger.began[c]
      BY <2>2, <3>1
    <3> QED BY <1>1, <1>4, <3>1, <3>2 DEF BegunIsTaken, Taken
  <2>6. StartIsFresh' /\ CallsAgree'
    BY <1>4, <1>5 DEF StartIsFresh, CallsAgree, Goto
  <2>7. CardsAgree'
    BY <1>1, <1>2, <1>5, <2>2 DEF CardsAgree
  <2>8. ReceiptsHold'
    BY <1>1, <1>2, <1>5 DEF ReceiptsHold
  <2> QED BY <2>3, <2>4, <2>5, <2>6, <2>7, <2>8 DEF IInv
<1>6. CASE /\ UNCHANGED <<turn, ledger>>
           /\ \/ Saved(Ended(call.of)) /\ Goto("pass", None, call.n) /\ UNCHANGED limits
              \/ Unsaved(Ended(call.of)) /\ Fails /\ call' = Idle
  <2> DEFINE m == Ended(call.of)
  <2>1. Moves(mem, m)
    BY <1>1, EndedMoves
  <2>2. \/ Saved(m) /\ Goto("pass", None, call.n) /\ UNCHANGED limits
        \/ Unsaved(m) /\ Fails /\ call' = Idle
    BY <1>6
  <2> HIDE DEF m
  <2>3. Grows(mem, m) /\ m \in Book /\ m.order = mem.order /\ m.receipts = mem.receipts
    BY <1>1, <2>1, MovesGrows DEF Moves
  <2>4. mem' = m /\ disk' \in {disk, m}
    BY <2>2 DEF Saved, Unsaved
  <2>5. Written
    BY <1>1, <1>2, <1>3, <2>3, <2>4, WrittenBook
  <2>6. limits' \in [fault : 0..MaxFaults, fail : 0..MaxFails, rev : Nat]
          /\ (limits'.fail = 0 => limits.fail = 0 /\ mem' = disk')
    BY <1>1, <2>2, FailCounts DEF Saved, Unsaved, TypeOK
  <2>7. TypeOK'
    <3>1. call' \in [at : Steps, of : Causes \cup Cards \cup Deliveries \cup {None}, n : Nat]
      BY <1>4, <2>2 DEF Goto, Idle, Steps
    <3> QED BY <1>1, <1>2, <1>6, <2>3, <2>4, <2>6, <3>1 DEF TypeOK
  <2>8. StartIsFresh' /\ CallsAgree'
    BY <1>4, <2>2, <2>3, <2>4 DEF StartIsFresh, CallsAgree, Goto, Idle
  <2>9. CardsAgree'
    <3>1. \A q \in Cards : <<"ask", q>> \in Causes
      BY DEF Causes
    <3> QED BY <1>1, <1>2, <1>6, <2>1, <2>3, <2>4, <2>5, <3>1, CardsStep DEF Moves
  <2> QED BY <1>2, <1>6, <2>5, <2>6, <2>7, <2>8, <2>9, InvStep
<1> QED BY <1>5, <1>6 DEF Begin
-----------------------------------------------------------------------------
(* Turns, the calendar and the operator.                                    *)

\* A step in which runs only move on.
LEMMA MovesStep ==
  ASSUME RoutinesAssumption, IInv, NEW m, Moves(mem, m), mem' = m, disk' \in {disk, m},
         server' = "up", UNCHANGED <<clock, ledger, card>>,
         TypeOK', StartIsFresh', CallsAgree',
         limits'.fail = 0 => limits.fail = 0 /\ (mem' = disk' \/ (mem' = mem /\ disk' = disk)),
         \A d \in Deliveries : hook'.got[d] = "done" \/ hookdisk'.got[d] = "done"
                                 => hook.got[d] = "done" \/ hookdisk.got[d] = "done"
  PROVE  IInv' /\ Settled(disk, disk')
<1>1. TypeOK /\ FilesAgree /\ Occurrences /\ CardsAgree /\ Occurs(mem) /\ mem \in Book
  BY DEF IInv, Occurrences, TypeOK
<1>2. Grows(mem, m) /\ m.receipts = mem.receipts
  BY <1>1, MovesGrows DEF Moves
<1>3. Written
  BY <1>1, <1>2, WrittenBook
<1>4. \A q \in Cards : <<"ask", q>> \in Causes
  BY DEF Causes
<1>5. CardsAgree'
  BY <1>1, <1>2, <1>3, <1>4, CardsStep DEF Moves
<1> QED BY <1>3, <1>5, InvStep

\* The common part of a step made while no handler is under way and none begins.
LEMMA IdleStep ==
  ASSUME IInv, Ready, call' = call
  PROVE  StartIsFresh' /\ CallsAgree' /\ server = "up"
BY DEF Ready, Idle, StartIsFresh, CallsAgree

\* The end of a run, reported by its turn or by a failed dispatch.
LEMMA EndStep ==
  ASSUME RoutinesAssumption, IInv, NEW c \in Causes, Ready,
         UNCHANGED <<hook, hookdisk, card, bot, call, server, clock, ledger>>,
         turn' \in TurnBook, EndSaved(c) \/ EndUnsaved(c)
  PROVE  IInv' /\ Settled(disk, disk')
<1>1. TypeOK /\ mem \in Book
  BY DEF IInv, TypeOK
<1>2. StartIsFresh' /\ CallsAgree' /\ server = "up"
  BY IdleStep
<1>3. PICK m : /\ Moves(mem, m) /\ mem' = m /\ disk' \in {disk, m}
               /\ \/ UNCHANGED limits /\ (disk' = m \/ (disk' = disk /\ m = mem))
                  \/ CanFail /\ Fails
  BY <1>1, Stays, EndedMoves DEF EndSaved, EndUnsaved, Saved, Unsaved, Unwritten
<1>4. limits' \in [fault : 0..MaxFaults, fail : 0..MaxFails, rev : Nat]
        /\ (limits'.fail = 0 => limits.fail = 0 /\ (mem' = disk' \/ (mem' = mem /\ disk' = disk)))
  BY <1>1, <1>3, FailCounts DEF TypeOK
<1>5. TypeOK'
  BY <1>1, <1>3, <1>4 DEF TypeOK, Moves
<1> QED BY <1>2, <1>3, <1>4, <1>5, MovesStep

\* A step of turns alone: no run is ended, no file written.
LEMMA AloneStep ==
  ASSUME RoutinesAssumption, IInv, Ready, UNCHANGED limits \/ Faults, turn' \in TurnBook,
         UNCHANGED <<files, card, bot, call, server, clock, ledger>>
  PROVE  IInv' /\ Settled(disk, disk')
<1>1. TypeOK /\ mem \in Book /\ UNCHANGED <<mem, disk, hook, hookdisk>>
  BY DEF IInv, TypeOK, files
<1>2. StartIsFresh' /\ CallsAgree' /\ server = "up"
  BY IdleStep
<1>3. /\ limits'.fail = limits.fail
      /\ limits' \in [fault : 0..MaxFaults, fail : 0..MaxFails, rev : Nat]
  BY <1>1, FaultCounts DEF TypeOK
<1>4. TypeOK'
  BY <1>1, <1>3 DEF TypeOK
<1> QED BY <1>1, <1>2, <1>3, <1>4, Stays, MovesStep

\* What the turns' steps make of their book.
LEMMA TurnTypes ==
  ASSUME turn \in TurnBook, NEW c \in Causes
  PROVE  /\ SetupEnds(c) => turn' \in TurnBook /\ turn'.at = [turn.at EXCEPT ![c] = "run"]
                             /\ turn'.orphans = turn.orphans
         /\ OverAndIdle(c) => turn' \in TurnBook /\ turn'.at = [turn.at EXCEPT ![c] = "none"]
                             /\ turn'.orphans = turn.orphans
         /\ turn' = [turn EXCEPT !.at[c] = "none"] =>
                turn' \in TurnBook /\ turn'.at = [turn.at EXCEPT ![c] = "none"]
                /\ turn'.orphans = turn.orphans
         /\ Stall(c) => turn' \in TurnBook /\ turn'.at = [turn.at EXCEPT ![c] = "stopping"]
                             /\ turn'.orphans = turn.orphans
         /\ Release(c) => turn' \in TurnBook /\ turn'.at = turn.at /\ turn'.orphans = turn.orphans
         /\ Dies(c) => turn' \in TurnBook /\ turn'.at = [turn.at EXCEPT ![c] = "none"]
                             /\ turn'.orphans = turn.orphans \cup {d \in {c} : Active(d)}
<1> DEFINE T(of, at, grace, lost, orphans) ==
             [of |-> of, at |-> at, grace |-> grace, lost |-> lost, orphans |-> orphans]
<1>1. {"none", "setup", "run", "stopping"} = Stages
  BY DEF Stages
<1>2. ASSUME SetupEnds(c)
      PROVE  turn' = T(turn.of, [turn.at EXCEPT ![c] = "run"], turn.grace, turn.lost, turn.orphans)
  BY <1>2, TurnFields DEF SetupEnds
<1>3. ASSUME OverAndIdle(c)
      PROVE  turn' = T(None, [turn.at EXCEPT ![c] = "none"], turn.grace, turn.lost \ {c}, turn.orphans)
  BY <1>3, TurnFields DEF OverAndIdle
<1>4. ASSUME turn' = [turn EXCEPT !.at[c] = "none"]
      PROVE  turn' = T(turn.of, [turn.at EXCEPT ![c] = "none"], turn.grace, turn.lost, turn.orphans)
  BY <1>4, TurnFields
<1>5. ASSUME Stall(c)
      PROVE  turn' = T(turn.of, [turn.at EXCEPT ![c] = "stopping"], turn.grace \cup {c}, turn.lost,
                       turn.orphans)
  BY <1>5, TurnFields DEF Stall
<1>6. ASSUME Release(c)
      PROVE  turn' = T(None, turn.at, turn.grace \ {c}, turn.lost, turn.orphans)
  BY <1>6, TurnFields DEF Release
<1>7. ASSUME Dies(c)
      PROVE  turn' = T(turn.of, [turn.at EXCEPT ![c] = "none"], turn.grace, turn.lost \ {c},
                       turn.orphans \cup {d \in {c} : Active(d)})
  BY <1>7, TurnFields DEF Dies
<1>8. PICK more \in SUBSET Causes, less \in SUBSET Causes, heard \in SUBSET Causes,
           dead \in SUBSET Causes :
             /\ more = turn.grace \cup {c} /\ less = turn.grace \ {c} /\ heard = turn.lost \ {c}
             /\ dead = turn.orphans \cup {d \in {c} : Active(d)}
  BY TurnFields
<1>9. \A grace, lost, orphans \in SUBSET Causes, of \in Causes \cup {None} :
        /\ T(of, turn.at, grace, lost, orphans) \in TurnBook
        /\ \A stage \in Stages :
             T(of, [turn.at EXCEPT ![c] = stage], grace, lost, orphans) \in TurnBook
  BY TurnFields, TurnMoves DEF TurnBook
<1>10. None \in Causes \cup {None}
  OBVIOUS
<1>11. SetupEnds(c) => turn' \in TurnBook /\ turn'.at = [turn.at EXCEPT ![c] = "run"]
                       /\ turn'.orphans = turn.orphans
  BY <1>1, <1>2, <1>9, TurnFields
<1>12. OverAndIdle(c) => turn' \in TurnBook /\ turn'.at = [turn.at EXCEPT ![c] = "none"]
                        /\ turn'.orphans = turn.orphans
  <2>1. OverAndIdle(c) => turn' = T(None, [turn.at EXCEPT ![c] = "none"], turn.grace, heard, turn.orphans)
    BY <1>8, <1>3
  <2>2. T(None, [turn.at EXCEPT ![c] = "none"], turn.grace, heard, turn.orphans) \in TurnBook
    BY <1>1, <1>8, <1>9, <1>10, TurnFields
  <2>3. OverAndIdle(c) => turn'.at = [turn.at EXCEPT ![c] = "none"] /\ turn'.orphans = turn.orphans
    BY <2>1
  <2> QED BY <1>8, <2>1, <2>2, <2>3
<1>13. turn' = [turn EXCEPT !.at[c] = "none"] =>
         turn' \in TurnBook /\ turn'.at = [turn.at EXCEPT ![c] = "none"]
         /\ turn'.orphans = turn.orphans
  BY <1>1, <1>4, <1>9, TurnFields
<1>14. Stall(c) => turn' \in TurnBook /\ turn'.at = [turn.at EXCEPT ![c] = "stopping"]
                   /\ turn'.orphans = turn.orphans
  <2>1. Stall(c) => turn' = T(turn.of, [turn.at EXCEPT ![c] = "stopping"], more, turn.lost, turn.orphans)
    BY <1>8, <1>5
  <2>2. T(turn.of, [turn.at EXCEPT ![c] = "stopping"], more, turn.lost, turn.orphans) \in TurnBook
    BY <1>1, <1>8, <1>9, <1>10, TurnFields
  <2>3. Stall(c) => turn'.at = [turn.at EXCEPT ![c] = "stopping"] /\ turn'.orphans = turn.orphans
    BY <2>1
  <2> QED BY <1>8, <2>1, <2>2, <2>3
<1>15. Release(c) => turn' \in TurnBook /\ turn'.at = turn.at /\ turn'.orphans = turn.orphans
  BY <1>6, <1>8, <1>9, <1>10, TurnFields
<1>16. Dies(c) => turn' \in TurnBook /\ turn'.at = [turn.at EXCEPT ![c] = "none"]
                  /\ turn'.orphans = turn.orphans \cup {d \in {c} : Active(d)}
  <2>1. Dies(c) => turn' = T(turn.of, [turn.at EXCEPT ![c] = "none"], turn.grace, heard, dead)
    BY <1>8, <1>7
  <2>2. T(turn.of, [turn.at EXCEPT ![c] = "none"], turn.grace, heard, dead) \in TurnBook
    BY <1>1, <1>8, <1>9, <1>10, TurnFields
  <2>3. Dies(c) => turn'.at = [turn.at EXCEPT ![c] = "none"] /\ turn'.orphans = dead
    BY <2>1
  <2> QED BY <1>8, <2>1, <2>2, <2>3
<1> QED BY <1>11, <1>12, <1>13, <1>14, <1>15, <1>16

\* reloadProviders kills the processes it has, and lets a turn that is being set up go on.
LEMMA ReloadTypes ==
  ASSUME turn \in TurnBook, ReloadProviders
  PROVE  /\ turn' \in TurnBook
         /\ \A c \in Causes : Active(c) /\ turn.at[c] # "none"
              => turn'.at[c] = turn.at[c] \/ c \in turn'.orphans
         /\ turn.orphans \subseteq turn'.orphans
<1> DEFINE killed == {c \in Causes : AtWork(c) /\ c \notin turn.lost}
           at == [c \in Causes |-> IF c \in killed THEN "none" ELSE turn.at[c]]
<1>1. turn' = [of |-> None, at |-> at, grace |-> turn.grace,
               lost |-> turn.lost \cup {c \in Causes : turn.at[c] = "setup"},
               orphans |-> turn.orphans \cup {c \in killed : Active(c)}]
  BY TurnFields DEF ReloadProviders
<1>2. at \in [Causes -> Stages]
  BY TurnFields DEF Stages
<1>3. turn' \in TurnBook
  BY <1>1, <1>2, TurnFields DEF TurnBook
<1>4. \A c \in Causes : turn'.at[c] = IF c \in killed THEN "none" ELSE turn.at[c]
  BY <1>1
<1>5. turn'.orphans = turn.orphans \cup {c \in killed : Active(c)}
  BY <1>1
<1> QED BY <1>3, <1>4, <1>5

\* The steps of turns.
LEMMA TurnStep ==
  ASSUME RoutinesAssumption, IInv,
         \/ ReloadProviders
         \/ \E c \in Causes : \/ SetupEnds(c) \/ SetupFails(c) \/ TurnEnds(c) \/ Stall(c)
                             \/ Release(c) \/ Dies(c)
  PROVE  IInv' /\ Settled(disk, disk')
<1>1. turn \in TurnBook
  BY DEF IInv, TypeOK
<1>2. CASE ReloadProviders
  BY <1>1, <1>2, ReloadTypes, AloneStep DEF ReloadProviders
<1>3. ASSUME NEW c \in Causes, SetupEnds(c) \/ Stall(c) \/ Release(c) \/ Dies(c)
      PROVE  IInv' /\ Settled(disk, disk')
  <2>1. turn' \in TurnBook
    BY <1>1, <1>3, TurnTypes
  <2>2. /\ Ready /\ UNCHANGED <<files, card, bot, call, server, clock, ledger>>
        /\ UNCHANGED limits \/ Faults
    BY <1>3 DEF SetupEnds, Stall, Release, Dies
  <2> QED BY <2>1, <2>2, AloneStep
<1>4. ASSUME NEW c \in Causes, SetupFails(c) \/ TurnEnds(c)
      PROVE  IInv' /\ Settled(disk, disk')
  <2>1. /\ Ready /\ UNCHANGED <<hook, hookdisk, card, bot, call, server, clock, ledger>>
        /\ EndSaved(c) \/ EndUnsaved(c)
        /\ OverAndIdle(c) \/ turn' = [turn EXCEPT !.at[c] = "none"]
    BY <1>4 DEF SetupFails, TurnEnds
  <2>2. turn' \in TurnBook
    BY <1>1, <2>1, TurnTypes
  <2> QED BY <2>1, <2>2, EndStep
<1> QED BY <1>2, <1>3, <1>4

\* cancelRun: a run that waits or runs is cancelled.
LEMMA CancelStep ==
  ASSUME RoutinesAssumption, IInv, NEW c \in Causes, Cancel(c)
  PROVE  IInv' /\ Settled(disk, disk')
<1> DEFINE m == [mem EXCEPT !.run[c] = "cancelled"]
<1>1. TypeOK /\ mem \in Book /\ mem.run \in [Causes -> Status]
  BY DEF IInv, TypeOK, Book
<1>2. /\ Ready /\ mem.run[c] \in {"queued", "running"}
      /\ (Saved(m) /\ UNCHANGED limits) \/ (Unsaved(m) /\ Fails)
      /\ UNCHANGED <<hook, hookdisk, card, turn, bot, call, server, clock, ledger>>
  BY DEF Cancel
<1>3. StartIsFresh' /\ CallsAgree' /\ server = "up"
  BY <1>2, IdleStep
<1>4. /\ m \in Book /\ m.order = mem.order /\ m.receipts = mem.receipts /\ m.next = mem.next
      /\ m.run = [mem.run EXCEPT ![c] = "cancelled"]
  BY <1>1 DEF Book, Status
<1> HIDE DEF m
<1>5. Moves(mem, m)
  BY <1>1, <1>2, <1>4 DEF Moves, Follows, Taken
<1>6. mem' = m /\ disk' \in {disk, m}
  BY <1>2 DEF Saved, Unsaved
<1>7. limits' \in [fault : 0..MaxFaults, fail : 0..MaxFails, rev : Nat]
        /\ (limits'.fail = 0 => limits.fail = 0 /\ mem' = disk')
  BY <1>1, <1>2, FailCounts DEF Saved, Unsaved, TypeOK
<1>8. TypeOK'
  BY <1>1, <1>2, <1>4, <1>6, <1>7 DEF TypeOK
<1> QED BY <1>2, <1>3, <1>5, <1>6, <1>7, <1>8, MovesStep

\* The calendar's run now, pause, resume and delete.
LEMMA CalendarStep ==
  ASSUME RoutinesAssumption, IInv, NEW act \in Acts, NEW q \in Cards, Calendar(act, q)
  PROVE  IInv' /\ Settled(disk, disk')
<1> DEFINE m == Applied(mem, act, <<"ask", q>>)
<1>1. TypeOK /\ FilesAgree /\ Occurrences /\ CardsAgree /\ Occurs(mem)
  BY DEF IInv, Occurrences
<1>2. /\ Ready /\ (act = "run_now" => mem.run[<<"ask", q>>] = "none" /\ card[q].state = "none")
      /\ Saved(m) /\ Stamping(act)
      /\ UNCHANGED <<hook, hookdisk, card, turn, bot, call, server, clock, ledger>>
  BY DEF Calendar
<1>3. StartIsFresh' /\ CallsAgree' /\ server = "up"
  BY <1>2, IdleStep
<1>4. /\ Grows(mem, m) /\ m.receipts = mem.receipts
      /\ \A p \in Cards : p # q /\ mem.run[<<"ask", p>>] = "none" => m.run[<<"ask", p>>] = "none"
  BY <1>1, <1>2, AppliedGrows
<1>5. act # "run_now" => Moves(mem, m)
  BY <1>1, AppliedMoves
<1> HIDE DEF m
<1>6. mem' = m /\ disk' = m
  BY <1>2 DEF Saved
<1>7. Written
  BY <1>1, <1>2, <1>3, <1>4, <1>6, WrittenBook
<1>8. limits' \in [fault : 0..MaxFaults, fail : 0..MaxFails, rev : Nat]
        /\ limits'.fail = limits.fail
  BY <1>1, <1>2, StampCounts DEF Stamping, TypeOK
<1>9. TypeOK'
  BY <1>1, <1>2, <1>4, <1>6, <1>8 DEF TypeOK, Grows
<1>10. CardsAgree'
  <2>1. \A p \in Cards : <<"ask", p>> \in Causes
    BY DEF Causes
  <2>2. \A p \in Cards : card[p].state = "open" /\ mem.run[<<"ask", p>>] = "none" => m.run[<<"ask", p>>] = "none"
    BY <1>2, <1>4, <1>5, <2>1 DEF Moves
  <2> QED BY <1>1, <1>2, <1>4, <1>6, <1>7, <2>2, CardsStep
<1> QED BY <1>2, <1>3, <1>6, <1>7, <1>8, <1>9, <1>10, InvStep

\* disableForBot: what waits or runs is cancelled, and the cadence is paused.
LEMMA DropCadenceStep ==
  ASSUME RoutinesAssumption, IInv, DropCadence
  PROVE  IInv' /\ Settled(disk, disk')
<1> DEFINE off == IF mem.state = "on" THEN Stamped([mem EXCEPT !.state = "off", !.next = 0]) ELSE mem
           m == Marked(off, {c \in Causes : mem.run[c] \in {"queued", "running"}}, "cancelled")
<1>1. TypeOK
  BY DEF IInv
<1>2. /\ mem \in Book /\ mem.run \in [Causes -> Status] /\ limits.rev + 1 \in Nat
      /\ 0 \in 0..(MaxDue + 1)
  BY <1>1, Ranges
<1>3. /\ Ready /\ UNCHANGED <<hook, hookdisk, card, turn, bot, server, clock, ledger>>
      /\ \/ (IF m = mem THEN Unwritten ELSE Saved(m)) /\ Goto("drop", None, 0) /\ Stamps
         \/ m # mem /\ Unsaved(m) /\ FailsStamped /\ UNCHANGED call
  BY DEF DropCadence
<1>4. off \in Book /\ off.order = mem.order /\ off.receipts = mem.receipts
        /\ off.run = mem.run /\ off.next \in {0, mem.next}
  BY <1>2 DEF Book, Stamped
<1> HIDE DEF off
<1>5. /\ m \in Book /\ m.order = mem.order /\ m.receipts = mem.receipts /\ m.next \in {0, mem.next}
      /\ \A c \in Causes : m.run[c] = IF mem.run[c] \in {"queued", "running"} THEN "cancelled" ELSE mem.run[c]
  <2>1. m \in Book /\ m.order = mem.order /\ m.receipts = mem.receipts /\ m.next \in {0, mem.next}
    BY <1>4 DEF Book, Marked, Status
  <2> QED BY <2>1, <1>4 DEF Book, Marked
<1> HIDE DEF m
<1>6. Moves(mem, m)
  BY <1>5 DEF Moves, Follows, Taken
<1>7. mem' = m /\ disk' \in {disk, m} /\ (disk' = m \/ (disk' = disk /\ m = mem) \/ (CanFail /\ FailsStamped))
  BY <1>3 DEF Saved, Unsaved, Unwritten
<1>8. limits' \in [fault : 0..MaxFaults, fail : 0..MaxFails, rev : Nat]
        /\ (limits'.fail = 0 => limits.fail = 0 /\ (mem' = disk' \/ (mem' = mem /\ disk' = disk)))
  <2>1. CASE Stamps
    <3>1. ~FailsStamped
      <4>1. limits'.fail = limits.fail
        BY <2>1, <1>1, StampCounts
      <4>2. limits \in [fault : 0..MaxFaults, fail : 0..MaxFails, rev : Nat]
        BY <1>1 DEF TypeOK
      <4>3. limits.fail + 1 # limits.fail
        BY <4>2
      <4>4. FailsStamped => limits'.fail = limits.fail + 1
        BY <4>2 DEF FailsStamped
      <4> QED BY <4>1, <4>3, <4>4
    <3> QED BY <1>1, <1>7, <2>1, <3>1, StampCounts
  <2>2. CASE CanFail /\ FailsStamped
    BY <1>1, <2>2, FailCounts
  <2> QED BY <2>1, <2>2, <1>3 DEF Unsaved
<1>9. TypeOK'
  <2>1. call' \in [at : Steps, of : Causes \cup Cards \cup Deliveries \cup {None}, n : Nat]
    BY <1>1, <1>3 DEF TypeOK, Goto, Steps
  <2> QED BY <1>1, <1>3, <1>5, <1>7, <1>8, <2>1 DEF TypeOK
<1>10. StartIsFresh' /\ CallsAgree' /\ server = "up"
  BY <1>3 DEF Ready, Idle, Goto, StartIsFresh, CallsAgree
<1> QED BY <1>3, <1>6, <1>7, <1>8, <1>9, <1>10, MovesStep

\* What is left of a step that leaves the cadence's files and cards alone.
LEMMA ApartStep ==
  ASSUME RoutinesAssumption, IInv, server = "up",
         UNCHANGED <<mem, disk, card, server, clock, ledger>>,
         hook' \in Hooks, hookdisk' \in Hooks, turn' = turn, bot' \in {"here", "gone"},
         call' \in [at : Steps, of : Causes \cup Cards \cup Deliveries \cup {None}, n : Nat],
         limits' = limits \/ (CanFail /\ Fails),
         StartIsFresh', CallsAgree',
         \A d \in Deliveries : hook'.got[d] = "done" \/ hookdisk'.got[d] = "done"
                                 => hook.got[d] = "done" \/ hookdisk.got[d] = "done"
  PROVE  IInv' /\ Settled(disk, disk')
<1>1. TypeOK /\ mem \in Book
  BY DEF IInv, TypeOK
<1>2. limits' \in [fault : 0..MaxFaults, fail : 0..MaxFails, rev : Nat]
        /\ (limits'.fail = 0 => limits.fail = 0)
  BY <1>1, FailCounts DEF TypeOK
<1>3. TypeOK'
  BY <1>1, <1>2 DEF TypeOK
<1> QED BY <1>1, <1>2, <1>3, Stays, MovesStep

\* WebhookManager.disableForBot and the end of the operator.
LEMMA DropHookStep ==
  ASSUME RoutinesAssumption, IInv, DropHook
  PROVE  IInv' /\ Settled(disk, disk')
<1>1. TypeOK /\ FilesAgree /\ hook \in Hooks /\ hookdisk \in Hooks
  BY DEF IInv, TypeOK
<1>2. /\ call.at = "drop" /\ call' = Idle /\ UNCHANGED <<mem, disk, card, turn, server, clock, ledger>>
      /\ hook' = [hook EXCEPT !.state = IF @ = "on" THEN "off" ELSE @]
      /\ \/ hookdisk' = hook' /\ bot' = "gone" /\ UNCHANGED limits
         \/ CanFail /\ Fails /\ UNCHANGED <<hookdisk, bot>>
  BY DEF DropHook
<1>3. server = "up"
  BY <1>1, <1>2, CallIsUp DEF Idle
<1>4. hook' \in Hooks /\ hook'.got = hook.got
  BY <1>1, <1>2 DEF Hooks
<1>5. bot' \in {"here", "gone"} /\ hookdisk' \in Hooks
  BY <1>1, <1>2, <1>4 DEF TypeOK
<1>6. call' \in [at : Steps, of : Causes \cup Cards \cup Deliveries \cup {None}, n : Nat]
        /\ StartIsFresh' /\ CallsAgree'
  BY <1>2 DEF Idle, Steps, StartIsFresh, CallsAgree
<1>7. \A d \in Deliveries : hook'.got[d] = "done" \/ hookdisk'.got[d] = "done"
                                 => hook.got[d] = "done" \/ hookdisk.got[d] = "done"
  BY <1>2, <1>4
<1> QED BY <1>2, <1>3, <1>4, <1>5, <1>6, <1>7, ApartStep
-----------------------------------------------------------------------------
(* Cards.                                                                   *)

\* A step that is about cards: the files keep their runs.
LEMMA CardStep ==
  ASSUME RoutinesAssumption, IInv, server = "up",
         UNCHANGED <<hook, hookdisk, turn, bot, server, clock, ledger>>,
         \/ UNCHANGED <<mem, disk>>
         \/ \E q : Saved([mem EXCEPT !.receipts = @ \ {q}]),
         limits' = limits \/ (CanFail /\ Fails),
         card' \in [Cards -> [state : {"none", "open", "allow", "deny"}, act : Acts, rev : Nat]],
         call' \in [at : Steps, of : Causes \cup Cards \cup Deliveries \cup {None}, n : Nat],
         StartIsFresh', CallsAgree', CardsAgree'
  PROVE  IInv' /\ Settled(disk, disk')
<1>1. TypeOK /\ FilesAgree /\ Occurrences /\ Occurs(mem) /\ mem \in Book
  BY DEF IInv, TypeOK, Occurrences
<1>2. limits' \in [fault : 0..MaxFaults, fail : 0..MaxFails, rev : Nat]
        /\ (limits'.fail = 0 => limits.fail = 0)
  BY <1>1, FailCounts DEF TypeOK
<1>3. Grows(mem, mem)
  BY <1>1, Stays, MovesGrows
<1>4. Written /\ (mem' = disk' \/ (mem' = mem /\ disk' = disk)) /\ mem' \in Book /\ disk' \in Book
  <2>1. CASE UNCHANGED <<mem, disk>>
    BY <2>1, <1>1, WrittenSame DEF TypeOK
  <2>2. ASSUME NEW q, Saved([mem EXCEPT !.receipts = @ \ {q}])
        PROVE  Written /\ mem' = disk' /\ mem' \in Book
    <3> DEFINE m == [mem EXCEPT !.receipts = @ \ {q}]
    <3>1. m \in Book /\ m.run = mem.run /\ m.next = mem.next /\ m.order = mem.order
      BY <1>1 DEF Book
    <3>2. mem' = m /\ disk' = m
      BY <2>2 DEF Saved
    <3> HIDE DEF m
    <3>3. Grows(mem, m)
      BY <1>3, <3>1 DEF Grows, Occurs
    <3> QED BY <3>1, <3>2, <3>3 DEF Written
  <2> QED BY <2>1, <2>2
<1>5. TypeOK'
  BY <1>1, <1>2, <1>4 DEF TypeOK
<1> QED BY <1>2, <1>4, <1>5, InvStep

\* propose: a card has no receipt, and its request no run.
LEMMA ProposeStep ==
  ASSUME RoutinesAssumption, IInv, NEW q \in Cards, NEW act \in CardActs, Propose(q, act)
  PROVE  IInv' /\ Settled(disk, disk')
<1>1. TypeOK /\ CardsAgree /\ mem \in Book /\ act \in Acts
        /\ card \in [Cards -> [state : {"none", "open", "allow", "deny"}, act : Acts, rev : Nat]]
  BY DEF IInv, TypeOK, RoutinesAssumption, Acts
<1>2. /\ Ready /\ card[q].state = "none" /\ mem.run[<<"ask", q>>] = "none"
      /\ card' = [card EXCEPT ![q] = [state |-> "open", act |-> act, rev |-> mem.rev]]
      /\ UNCHANGED <<mem, disk, hook, hookdisk, turn, bot, call, server, clock, ledger, limits>>
  BY DEF Propose, files
<1>3. StartIsFresh' /\ CallsAgree' /\ server = "up"
  BY <1>2, IdleStep
<1>4. card' \in [Cards -> [state : {"none", "open", "allow", "deny"}, act : Acts, rev : Nat]]
  <2>1. mem.rev \in Nat
    BY <1>1 DEF Book
  <2> QED BY <1>1, <1>2, <2>1
<1>5. CardsAgree'
  <2>1. card'[q].state = "open" /\ \A p \in Cards : p # q => card'[p] = card[p]
    BY <1>1, <1>2
  <2> QED BY <1>1, <1>2, <2>1 DEF CardsAgree
<1>6. call' \in [at : Steps, of : Causes \cup Cards \cup Deliveries \cup {None}, n : Nat]
  BY <1>1, <1>2 DEF TypeOK
<1> QED BY <1>2, <1>3, <1>4, <1>5, <1>6, CardStep

\* Recover and Deny: a receipt settles the card as applied; without one it may be denied.
LEMMA RefuseStep ==
  ASSUME RoutinesAssumption, IInv, NEW q \in Cards, Recover(q) \/ Deny(q)
  PROVE  IInv' /\ Settled(disk, disk')
<1>1. TypeOK /\ CardsAgree
        /\ card \in [Cards -> [state : {"none", "open", "allow", "deny"}, act : Acts, rev : Nat]]
  BY DEF IInv, TypeOK
<1>2. CASE Recover(q)
  <2>1. /\ Ready /\ card[q].state = "open" /\ q \in mem.receipts
        /\ call' = [at |-> "settle", of |-> q, n |-> 0]
        /\ UNCHANGED <<mem, disk, hook, hookdisk, card, turn, bot, server, clock, ledger, limits>>
    BY <1>2 DEF Recover, Goto, files
  <2>2. call' \in [at : Steps, of : Causes \cup Cards \cup Deliveries \cup {None}, n : Nat]
    BY <2>1 DEF Steps
  <2>3. StartIsFresh' /\ CallsAgree' /\ CardsAgree' /\ server = "up"
    BY <1>1, <2>1 DEF StartIsFresh, CallsAgree, CardsAgree, Ready
  <2> QED BY <1>1, <2>1, <2>2, <2>3, CardStep
<1>3. CASE Deny(q)
  <2>1. /\ Ready /\ card[q].state = "open" /\ q \notin mem.receipts
        /\ card' = [card EXCEPT ![q].state = "deny", ![q].rev = 0]
        /\ UNCHANGED <<mem, disk, hook, hookdisk, turn, bot, call, server, clock, ledger, limits>>
    BY <1>3 DEF Deny, Settles, files
  <2>2. StartIsFresh' /\ CallsAgree' /\ server = "up"
    BY <2>1, IdleStep
  <2>3. /\ card' \in [Cards -> [state : {"none", "open", "allow", "deny"}, act : Acts, rev : Nat]]
        /\ card'[q].state = "deny" /\ \A p \in Cards : p # q => card'[p] = card[p]
    BY <1>1, <2>1
  <2>4. CardsAgree'
    <3>1. ledger.applied[q] = 0 /\ q \notin mem.receipts
      BY <1>1, <2>1 DEF CardsAgree
    <3>2. card'[q].state = "deny" /\ \A p \in Cards : p # q => card'[p] = card[p]
      BY <2>3
    <3>3. mem' = mem /\ disk' = disk /\ ledger' = ledger
      BY <2>1
    <3> QED BY <1>1, <3>1, <3>2, <3>3 DEF CardsAgree
  <2>5. call' \in [at : Steps, of : Causes \cup Cards \cup Deliveries \cup {None}, n : Nat]
    BY <1>1, <2>1 DEF TypeOK
  <2> QED BY <2>1, <2>2, <2>3, <2>4, <2>5, CardStep
<1> QED BY <1>2, <1>3

\* resolve, allowed: the mutation and its receipt are one write.
LEMMA AllowStep ==
  ASSUME RoutinesAssumption, IInv, NEW q \in Cards, Allow(q)
  PROVE  IInv' /\ Settled(disk, disk')
<1> DEFINE act == card[q].act
           n == Applied(mem, act, <<"ask", q>>)
           m == Receipted(n, q)
<1>1. TypeOK /\ FilesAgree /\ Occurrences /\ CardsAgree /\ Occurs(mem) /\ mem \in Book
        /\ act \in Acts
  BY DEF IInv, Occurrences, TypeOK
<1>2. /\ Ready /\ card[q].state = "open" /\ q \notin mem.receipts
      /\ Saved(m) /\ Stamping(act) /\ Goto("settle", q, 0)
      /\ ledger' = [ledger EXCEPT !.applied[q] = @ + 1]
      /\ UNCHANGED <<hook, hookdisk, card, turn, bot, server, clock>>
  BY DEF Allow
<1>3. mem.run[<<"ask", q>>] = "none" /\ ledger.applied[q] = 0
  BY <1>1, <1>2 DEF CardsAgree
<1>4. /\ Grows(mem, n) /\ n.receipts = mem.receipts
      /\ \A p \in Cards : p # q /\ mem.run[<<"ask", p>>] = "none" => n.run[<<"ask", p>>] = "none"
      /\ act = "run_now" => n.run[<<"ask", q>>] = "queued"
  BY <1>1, <1>3, AppliedGrows
<1> HIDE DEF n
<1>5. m \in Book /\ m.run = n.run /\ m.next = n.next /\ m.order = n.order
        /\ m.receipts = mem.receipts \cup {q}
  <2>1. n \in Book /\ mem.receipts \cup {q} \in SUBSET Cards
    BY <1>1, <1>4 DEF Grows, Book
  <2> QED BY <2>1, <1>4 DEF Book, Receipted
<1> HIDE DEF m
<1>6. Grows(mem, m)
  BY <1>4, <1>5 DEF Grows, Occurs
<1>7. mem' = m /\ disk' = m /\ server' = "up" /\ clock' = clock
  BY <1>2 DEF Saved, Ready
<1>8. Written
  BY <1>6, <1>7 DEF Written
<1>9. limits' \in [fault : 0..MaxFaults, fail : 0..MaxFails, rev : Nat]
        /\ limits'.fail = limits.fail
  BY <1>1, <1>2, StampCounts DEF Stamping, TypeOK
<1>10. /\ ledger' \in [began : [Causes -> Nat], applied : [Cards -> Nat]]
       /\ ledger'.began = ledger.began
       /\ \A p \in Cards : ledger'.applied[p] = IF p = q THEN 1 ELSE ledger.applied[p]
  <2>1. ledger \in [began : [Causes -> Nat], applied : [Cards -> Nat]]
    BY <1>1 DEF TypeOK
  <2>2. ledger'.applied = [ledger.applied EXCEPT ![q] = ledger.applied[q] + 1]
          /\ ledger'.began = ledger.began
          /\ ledger' = [began |-> ledger'.began, applied |-> ledger'.applied]
    BY <2>1, <1>2
  <2>3. ledger.applied \in [Cards -> Nat] /\ ledger'.applied = [ledger.applied EXCEPT ![q] = 1]
    BY <2>1, <2>2, <1>3
  <2>4. [ledger.applied EXCEPT ![q] = 1] \in [Cards -> Nat]
    BY <2>3
  <2> QED BY <2>1, <2>2, <2>3, <2>4
<1>11. TypeOK'
  <2>1. call' \in [at : Steps, of : Causes \cup Cards \cup Deliveries \cup {None}, n : Nat]
    BY <1>2 DEF Goto, Steps
  <2>2. UNCHANGED <<hook, hookdisk, card, turn, bot, server, clock>> /\ mem' \in Book /\ disk' \in Book
    BY <1>2, <1>5, <1>7
  <2> QED BY <1>1, <1>9, <1>10, <2>1, <2>2 DEF TypeOK
<1>12. StartIsFresh' /\ CallsAgree'
  BY <1>2, <1>5, <1>7 DEF Goto, StartIsFresh, CallsAgree
<1>13. CardsAgree'
  <2> SUFFICES ASSUME NEW p \in Cards
      PROVE  /\ card[p].state = "none" => p \notin m.receipts /\ ledger'.applied[p] = 0
             /\ card[p].state = "open" => ledger'.applied[p] = IF p \in m.receipts THEN 1 ELSE 0
             /\ card[p].state = "deny" => p \notin m.receipts /\ ledger'.applied[p] = 0
             /\ card[p].state = "allow" => ledger'.applied[p] = 1
             /\ card[p].state = "open" /\ p \notin m.receipts => m.run[<<"ask", p>>] = "none"
             /\ card[p].state = "allow" \/ (card[p].state = "open" /\ p \in m.receipts) =>
                  (card[p].act = "run_now" => m.run[<<"ask", p>>] # "none")
    BY <1>2, <1>7 DEF CardsAgree
  <2>1. CASE p = q
    BY <2>1, <1>2, <1>4, <1>5, <1>10
  <2>2. CASE p # q
    <3>1. p \in m.receipts <=> p \in mem.receipts
      BY <2>2, <1>5
    <3>2. <<"ask", p>> \in Causes
      BY DEF Causes
    <3>3. disk.run[<<"ask", p>>] # "none" => m.run[<<"ask", p>>] # "none"
      BY <1>1, <1>6, <3>2 DEF FilesAgree, Grows, Follows, Taken
    <3>4. mem.run[<<"ask", p>>] = "none" => m.run[<<"ask", p>>] = "none"
      BY <2>2, <1>4, <1>5
    <3> QED BY <1>1, <1>10, <2>2, <3>1, <3>3, <3>4 DEF CardsAgree
  <2> QED BY <2>1, <2>2
<1> QED BY <1>2, <1>7, <1>8, <1>9, <1>10, <1>11, <1>12, <1>13, InvStep

\* settleApplied, the transcript: the card is settled while its receipt still stands.
LEMMA SettleStep ==
  ASSUME RoutinesAssumption, IInv, Settle
  PROVE  IInv' /\ Settled(disk, disk')
<1>1. TypeOK /\ FilesAgree /\ CardsAgree /\ CallsAgree
        /\ card \in [Cards -> [state : {"none", "open", "allow", "deny"}, act : Acts, rev : Nat]]
  BY DEF IInv, TypeOK
<1>2. /\ call.at = "settle" /\ UNCHANGED <<mem, disk, hook, hookdisk, turn, bot, server, clock, ledger>>
      /\ \/ Settles(call.of, "allow") /\ Goto("forget", call.of, 0) /\ UNCHANGED limits
         \/ CanFail /\ Fails /\ call' = Idle /\ UNCHANGED card
  BY DEF Settle, files
<1>3. call.of \in Cards /\ card[call.of].state = "open" /\ call.of \in mem.receipts /\ server = "up"
  BY <1>1, <1>2, CallIsUp DEF CallsAgree, Idle
<1>4. call' \in [at : Steps, of : Causes \cup Cards \cup Deliveries \cup {None}, n : Nat]
        /\ StartIsFresh'
  BY <1>2, <1>3 DEF Goto, Idle, Steps, StartIsFresh
<1>5. CASE CanFail /\ Fails /\ call' = Idle /\ UNCHANGED card
  <2>1. CallsAgree' /\ CardsAgree'
    BY <1>1, <1>2, <1>5 DEF CallsAgree, CardsAgree, Idle
  <2> QED BY <1>1, <1>2, <1>3, <1>4, <1>5, <2>1, CardStep
<1>6. CASE Settles(call.of, "allow") /\ Goto("forget", call.of, 0) /\ UNCHANGED limits
  <2> DEFINE q == call.of
  <2>1. card' = [card EXCEPT ![q].state = "allow", ![q].rev = 0] /\ q \in Cards
    BY <1>3, <1>6 DEF Settles
  <2>2. /\ card' \in [Cards -> [state : {"none", "open", "allow", "deny"}, act : Acts, rev : Nat]]
        /\ card'[q].state = "allow" /\ card'[q].act = card[q].act
        /\ \A p \in Cards : p # q => card'[p] = card[p]
    BY <1>1, <2>1
  <2>3. CallsAgree'
    BY <1>3, <1>6, <2>2 DEF CallsAgree, Goto
  <2>4. CardsAgree'
    <3>1. mem' = mem /\ disk' = disk /\ ledger' = ledger
      BY <1>2
    <3>2. ledger.applied[q] = 1 /\ (card[q].act = "run_now" => disk.run[<<"ask", q>>] # "none")
      BY <1>1, <1>3 DEF CardsAgree
    <3>3. q \in Cards
      BY <1>3
    <3> HIDE DEF q
    <3> QED BY <1>1, <2>2, <3>1, <3>2, <3>3 DEF CardsAgree
  <2> QED BY <1>2, <1>3, <1>4, <1>6, <2>2, <2>3, <2>4, CardStep
<1> QED BY <1>2, <1>5, <1>6

\* The receipt goes when its card is settled: Forget and AnswerAgain.
LEMMA ForgetStep ==
  ASSUME RoutinesAssumption, IInv, Forget \/ \E q \in Cards : AnswerAgain(q)
  PROVE  IInv' /\ Settled(disk, disk')
<1>1. TypeOK /\ FilesAgree /\ CardsAgree /\ CallsAgree /\ mem \in Book
        /\ card \in [Cards -> [state : {"none", "open", "allow", "deny"}, act : Acts, rev : Nat]]
  BY DEF IInv, TypeOK
<1>2. ASSUME NEW q \in Cards, card[q].state \in {"allow", "deny"},
             Saved([mem EXCEPT !.receipts = @ \ {q}]), card' = card, ledger' = ledger
      PROVE  CardsAgree'
  <2> DEFINE m == [mem EXCEPT !.receipts = @ \ {q}]
  <2>1. m.run = mem.run /\ m.receipts = mem.receipts \ {q}
    BY <1>1 DEF Book
  <2>2. mem' = m /\ disk' = m
    BY <1>2 DEF Saved
  <2> HIDE DEF m
  <2>3. \A p \in Cards : disk.run[<<"ask", p>>] # "none" => m.run[<<"ask", p>>] # "none"
    BY <1>1, <2>1 DEF FilesAgree, Causes
  <2> QED BY <1>1, <1>2, <2>1, <2>2, <2>3 DEF CardsAgree
<1>3. CASE Forget
  <2>1. /\ call.at = "forget" /\ call' = Idle
        /\ UNCHANGED <<hook, hookdisk, card, turn, bot, server, clock, ledger>>
        /\ \/ Saved([mem EXCEPT !.receipts = @ \ {call.of}]) /\ UNCHANGED limits
           \/ CanFail /\ Fails /\ UNCHANGED <<mem, disk>>
    BY <1>3 DEF Forget
  <2>2. call.of \in Cards /\ card[call.of].state = "allow" /\ server = "up"
    BY <1>1, <2>1, CallIsUp DEF CallsAgree, Idle
  <2>3. call' \in [at : Steps, of : Causes \cup Cards \cup Deliveries \cup {None}, n : Nat]
          /\ StartIsFresh' /\ CallsAgree'
    BY <2>1 DEF Idle, Steps, StartIsFresh, CallsAgree
  <2>4. CardsAgree'
    <3>1. CASE UNCHANGED <<mem, disk>>
      BY <1>1, <2>1, <3>1 DEF CardsAgree
    <3>2. CASE Saved([mem EXCEPT !.receipts = @ \ {call.of}])
      BY <1>2, <2>1, <2>2, <3>2
    <3> QED BY <2>1, <3>1, <3>2
  <2> QED BY <1>1, <2>1, <2>2, <2>3, <2>4, CardStep
<1>4. ASSUME NEW q \in Cards, AnswerAgain(q)
      PROVE  IInv' /\ Settled(disk, disk')
  <2>1. /\ Ready /\ card[q].state \in {"allow", "deny"} /\ Saved([mem EXCEPT !.receipts = @ \ {q}])
        /\ UNCHANGED <<hook, hookdisk, card, turn, bot, call, server, clock, ledger, limits>>
    BY <1>4 DEF AnswerAgain
  <2>2. StartIsFresh' /\ CallsAgree' /\ server = "up"
    <3>1. call' = Idle /\ server = "up"
      BY <2>1 DEF Ready
    <3> QED BY <3>1 DEF Idle, StartIsFresh, CallsAgree
  <2>3. CardsAgree'
    BY <1>2, <2>1
  <2>4. call' \in [at : Steps, of : Causes \cup Cards \cup Deliveries \cup {None}, n : Nat]
    BY <1>1, <2>1 DEF TypeOK
  <2> QED BY <1>1, <2>1, <2>2, <2>3, <2>4, CardStep
<1> QED BY <1>3, <1>4
-----------------------------------------------------------------------------
(* Webhooks.                                                                *)

\* receive: the intent is written; no delivery is committed.
LEMMA ReceiveStep ==
  ASSUME RoutinesAssumption, IInv, NEW d \in Deliveries, Receive(d)
  PROVE  IInv' /\ Settled(disk, disk')
<1>1. TypeOK /\ hook \in Hooks /\ hookdisk \in Hooks /\ bot \in {"here", "gone"}
  BY DEF IInv, TypeOK
<1>2. /\ Ready /\ call' = [at |-> "enqueue", of |-> d, n |-> 0]
      /\ UNCHANGED <<mem, disk, card, turn, bot, server, clock, ledger, limits>>
      /\ \/ hook' = [hook EXCEPT !.got[d] = "pending"] /\ hookdisk' = hook'
         \/ UNCHANGED <<hook, hookdisk>>
  BY DEF Receive, Goto
<1>3. /\ hook' \in Hooks /\ hookdisk' \in Hooks
      /\ \A e \in Deliveries : hook'.got[e] = "done" \/ hookdisk'.got[e] = "done"
                                 => hook.got[e] = "done" \/ hookdisk.got[e] = "done"
  BY <1>1, <1>2 DEF Hooks
<1>4. call' \in [at : Steps, of : Causes \cup Cards \cup Deliveries \cup {None}, n : Nat]
        /\ StartIsFresh' /\ CallsAgree' /\ server = "up"
  BY <1>2 DEF Ready, Steps, StartIsFresh, CallsAgree
<1> QED BY <1>1, <1>2, <1>3, <1>4, ApartStep

\* enqueueWebhook: the run of the delivery goes where there was none.
LEMMA EnqueueStep ==
  ASSUME RoutinesAssumption, IInv, Enqueue
  PROVE  IInv' /\ Settled(disk, disk')
<1> DEFINE c == <<"hook", call.of>>
           m == Pushed(mem, c, "queued")
<1>1. TypeOK /\ FilesAgree /\ Occurrences /\ CardsAgree /\ CallsAgree /\ Occurs(mem) /\ mem \in Book
        /\ hook \in Hooks /\ hookdisk \in Hooks /\ bot \in {"here", "gone"}
  BY DEF IInv, Occurrences, TypeOK
<1>2. call.at = "enqueue" /\ UNCHANGED <<hook, hookdisk, card, turn, bot, server, clock, ledger>>
  BY DEF Enqueue
<1>3. call.of \in Deliveries /\ server = "up" /\ c \in Causes /\ c[1] # "due"
  BY <1>1, <1>2, CallIsUp DEF CallsAgree, Idle, Causes
<1>4. CASE mem.run[c] # "none" /\ Goto("finish", call.of, 0) /\ UNCHANGED <<mem, disk, limits>>
  <2>1. call' \in [at : Steps, of : Causes \cup Cards \cup Deliveries \cup {None}, n : Nat]
          /\ StartIsFresh' /\ CallsAgree'
    BY <1>3, <1>4 DEF Goto, Steps, StartIsFresh, CallsAgree
  <2> QED BY <1>1, <1>2, <1>3, <1>4, <2>1, ApartStep
<1>5. ASSUME mem.run[c] = "none",
             \/ Saved(m) /\ Goto("finish", call.of, 0) /\ UNCHANGED limits
             \/ Unsaved(m) /\ Fails /\ call' = Idle
      PROVE  IInv' /\ Settled(disk, disk')
  <2>1. Grows(mem, m)
    BY <1>1, <1>3, <1>5, PushedGrows
  <2>2. "queued" \in Status
    BY DEF Status
  <2>3. m \in Book /\ m.receipts = mem.receipts /\ m.run = [mem.run EXCEPT ![c] = "queued"]
    BY <1>1, <1>3, <2>2, PushedFields
  <2>4. \A q \in Cards : <<"ask", q>> # c /\ <<"ask", q>> \in Causes
    BY DEF Causes
  <2>5. \/ Saved(m) /\ Goto("finish", call.of, 0) /\ UNCHANGED limits
        \/ Unsaved(m) /\ Fails /\ call' = Idle
    BY <1>5
  <2> HIDE DEF m
  <2>6. mem.run \in [Causes -> Status]
    BY <1>1 DEF Book
  <2>7. mem' = m /\ disk' \in {disk, m}
    BY <2>5 DEF Saved, Unsaved
  <2>8. Written
    BY <1>1, <1>2, <1>3, <2>1, <2>3, <2>7, WrittenBook
  <2>9. limits' \in [fault : 0..MaxFaults, fail : 0..MaxFails, rev : Nat]
          /\ (limits'.fail = 0 => limits.fail = 0 /\ mem' = disk')
    BY <1>1, <2>5, FailCounts DEF Saved, Unsaved, TypeOK
  <2>10. m.run[c] = "queued" /\ \A q \in Cards : m.run[<<"ask", q>>] = mem.run[<<"ask", q>>]
    <3> HIDE DEF c
    <3> QED BY <1>3, <2>3, <2>4, <2>6
  <2>11. call' \in [at : Steps, of : Causes \cup Cards \cup Deliveries \cup {None}, n : Nat]
    BY <1>3, <2>5 DEF Goto, Idle, Steps
  <2>12. TypeOK'
    BY <1>1, <1>2, <2>3, <2>7, <2>9, <2>11 DEF TypeOK
  <2>13. StartIsFresh' /\ CallsAgree'
    <3>1. CASE call' = Idle
      BY <3>1 DEF Idle, StartIsFresh, CallsAgree
    <3>2. CASE call' = [at |-> "finish", of |-> call.of, n |-> 0]
      BY <3>2, <1>3, <2>7, <2>10 DEF StartIsFresh, CallsAgree
    <3> QED BY <3>1, <3>2, <2>5 DEF Goto
  <2>14. CardsAgree'
    BY <1>1, <1>2, <2>3, <2>7, <2>8, <2>10, CardsStep
  <2> QED BY <1>2, <2>8, <2>9, <2>12, <2>13, <2>14, InvStep
<1> QED BY <1>4, <1>5 DEF Enqueue, Known

\* finalizeReceipt: what it commits has its run, in the file if no write failed.
LEMMA FinishStep ==
  ASSUME RoutinesAssumption, IInv, Finish
  PROVE  IInv' /\ Settled(disk, disk')
<1>1. TypeOK /\ FilesAgree /\ Occurrences /\ BegunIsTaken /\ CardsAgree /\ CallsAgree /\ ReceiptsHold
        /\ hook \in Hooks /\ hookdisk \in Hooks /\ Occurs(mem) /\ mem \in Book
  BY DEF IInv, TypeOK, Occurrences
<1>2. /\ call.at = "finish" /\ call' = Idle
      /\ UNCHANGED <<mem, disk, card, turn, bot, server, clock, ledger>>
      /\ hook' = [hook EXCEPT !.got[call.of] = "done"]
      /\ \/ hookdisk' = hook' /\ UNCHANGED limits
         \/ CanFail /\ Fails /\ hookdisk' \in {hookdisk, hook'}
  BY DEF Finish
<1>3. call.of \in Deliveries /\ server = "up" /\ mem.run[<<"hook", call.of>>] # "none"
  BY <1>1, <1>2, CallIsUp DEF CallsAgree, Idle
<1>4. /\ hook' \in Hooks /\ hookdisk' \in Hooks
      /\ hook'.got = [hook.got EXCEPT ![call.of] = "done"]
      /\ \A d \in Deliveries : hook'.got[d] = IF d = call.of THEN "done" ELSE hook.got[d]
  BY <1>1, <1>2, <1>3 DEF Hooks
<1>5. limits' \in [fault : 0..MaxFaults, fail : 0..MaxFails, rev : Nat]
        /\ (limits'.fail = 0 => limits.fail = 0 /\ hookdisk' = hook')
  BY <1>1, <1>2, FailCounts DEF TypeOK
<1>6. call' \in [at : Steps, of : Causes \cup Cards \cup Deliveries \cup {None}, n : Nat]
        /\ StartIsFresh' /\ CallsAgree'
  BY <1>2 DEF Idle, Steps, StartIsFresh, CallsAgree
<1>7. TypeOK'
  BY <1>1, <1>2, <1>4, <1>5, <1>6 DEF TypeOK
<1>8. CardsAgree' /\ BegunIsTaken'
  BY <1>1, <1>2 DEF CardsAgree, BegunIsTaken
<1>9. FilesAgree' /\ Occurrences' /\ Settled(disk, disk')
  BY <1>1, <1>2, <1>3, WrittenSame, FilesStep
<1>10. ReceiptsHold'
  <2> SUFFICES ASSUME limits'.fail = 0
               PROVE  /\ mem.run = disk.run
                      /\ \A d \in Deliveries : hook'.got[d] = "done" => disk.run[<<"hook", d>>] # "none"
    BY <1>2, <1>5 DEF ReceiptsHold
  <2>1. /\ mem.run = disk.run
        /\ \A d \in Deliveries : hook.got[d] = "done" => disk.run[<<"hook", d>>] # "none"
    BY <1>1, <1>5 DEF ReceiptsHold
  <2>2. disk.run[<<"hook", call.of>>] # "none"
    BY <1>3, <2>1
  <2> QED BY <1>4, <2>1, <2>2
<1> QED BY <1>6, <1>7, <1>8, <1>9, <1>10 DEF IInv

\* update and remove of the webhook: what waits is cancelled; no delivery is committed.
LEMMA SetHookStep ==
  ASSUME RoutinesAssumption, IInv, NEW state \in {"on", "off", "gone"}, SetHook(state)
  PROVE  IInv' /\ Settled(disk, disk')
<1> DEFINE m == IF state = "on" THEN mem
                ELSE Marked(mem, {c \in Causes : ~OfCadence(c) /\ mem.run[c] = "queued"}, "cancelled")
<1>1. TypeOK /\ mem \in Book /\ hook \in Hooks /\ hookdisk \in Hooks
  BY DEF IInv, TypeOK
<1>2. /\ Ready /\ UNCHANGED <<card, turn, bot, server, clock, ledger>>
      /\ hook' = [hook EXCEPT !.state = state,
                              !.got = IF state = "gone" THEN [d \in Deliveries |-> "none"] ELSE @]
      /\ \/ m = mem /\ Unwritten /\ WritesHooks /\ UNCHANGED call
         \/ m # mem /\ Saved(m) /\ Goto("hooks", None, 0) /\ UNCHANGED <<hookdisk, limits>>
         \/ m # mem /\ Unsaved(m) /\ Fails /\ UNCHANGED <<hookdisk, call>>
  BY DEF SetHook
<1>3. /\ m \in Book /\ m.order = mem.order /\ m.receipts = mem.receipts /\ m.next = mem.next
      /\ \A c \in Causes : m.run[c] \in {mem.run[c], IF mem.run[c] = "queued" THEN "cancelled" ELSE mem.run[c]}
  <2>1. CASE state = "on"
    BY <2>1, <1>1 DEF Book
  <2>2. CASE state # "on"
    <3>1. m = Marked(mem, {c \in Causes : ~OfCadence(c) /\ mem.run[c] = "queued"}, "cancelled")
      BY <2>2
    <3>2. m \in Book /\ m.order = mem.order /\ m.receipts = mem.receipts /\ m.next = mem.next
      BY <2>2, <1>1 DEF Book, Marked, Status
    <3> QED BY <2>2, <3>2, <1>1 DEF Book, Marked
  <2> QED BY <2>1, <2>2
<1> HIDE DEF m
<1>4. Moves(mem, m)
  BY <1>3 DEF Moves, Follows, Taken
<1>5. mem' = m /\ disk' \in {disk, m}
  BY <1>2 DEF Saved, Unsaved, Unwritten
<1>6. limits' \in [fault : 0..MaxFaults, fail : 0..MaxFails, rev : Nat]
        /\ (limits'.fail = 0 => limits.fail = 0 /\ (mem' = disk' \/ (mem' = mem /\ disk' = disk)))
  BY <1>1, <1>2, FailCounts DEF Saved, Unsaved, Unwritten, WritesHooks, TypeOK
<1>7. hook' \in Hooks /\ \A d \in Deliveries : hook'.got[d] = "done" => hook.got[d] = "done"
  BY <1>1, <1>2 DEF Hooks
<1>10. hookdisk' \in {hookdisk, hook'}
  BY <1>2 DEF WritesHooks
<1>8. call' \in [at : Steps, of : Causes \cup Cards \cup Deliveries \cup {None}, n : Nat]
        /\ StartIsFresh' /\ CallsAgree' /\ server = "up"
  BY <1>2 DEF Ready, Idle, Goto, Steps, StartIsFresh, CallsAgree
<1>9. TypeOK'
  BY <1>1, <1>2, <1>3, <1>5, <1>6, <1>7, <1>8, <1>10 DEF TypeOK
<1> QED BY <1>2, <1>4, <1>5, <1>6, <1>7, <1>8, <1>9, <1>10, MovesStep

\* The webhooks' file follows memory.
LEMMA SaveHookStep ==
  ASSUME RoutinesAssumption, IInv, SaveHook
  PROVE  IInv' /\ Settled(disk, disk')
<1>1. TypeOK /\ FilesAgree /\ hook \in Hooks /\ hookdisk \in Hooks /\ bot \in {"here", "gone"}
  BY DEF IInv, TypeOK
<1>2. /\ call.at = "hooks" /\ call' = Idle
      /\ (hookdisk' = hook /\ UNCHANGED limits) \/ (CanFail /\ Fails /\ UNCHANGED hookdisk)
      /\ UNCHANGED <<mem, disk, hook, card, turn, bot, server, clock, ledger>>
  BY DEF SaveHook, WritesHooks
<1>3. server = "up"
  BY <1>1, <1>2, CallIsUp DEF Idle
<1>4. call' \in [at : Steps, of : Causes \cup Cards \cup Deliveries \cup {None}, n : Nat]
        /\ StartIsFresh' /\ CallsAgree'
  BY <1>2 DEF Idle, Steps, StartIsFresh, CallsAgree
<1> QED BY <1>1, <1>2, <1>3, <1>4, ApartStep
-----------------------------------------------------------------------------
(* Time, crashes and restarts.                                              *)

\* Time passes: what was over stays over.
LEMMA ClockStep ==
  ASSUME RoutinesAssumption, IInv, Clock
  PROVE  IInv' /\ Settled(disk, disk')
<1>1. TypeOK /\ FilesAgree /\ Occurrences /\ BegunIsTaken /\ StartIsFresh /\ CardsAgree
        /\ CallsAgree /\ ReceiptsHold
  BY DEF IInv
<1>2. /\ clock < MaxDue /\ clock' = clock + 1
      /\ UNCHANGED <<mem, disk, hook, hookdisk, card, turn, bot, call, server, ledger, limits>>
  BY DEF Clock, files
<1>3. clock \in 0..MaxDue /\ clock' \in 0..MaxDue
  <2>1. MaxDue \in Nat /\ clock \in 0..MaxDue
    BY <1>1 DEF TypeOK, RoutinesAssumption
  <2> QED BY <1>2, <2>1
<1>4. TypeOK'
  BY <1>1, <1>2, <1>3 DEF TypeOK
<1>5. Occurrences'
  BY <1>1, <1>2, <1>3 DEF Occurrences, Occurs
<1>6. FilesAgree' /\ BegunIsTaken' /\ StartIsFresh' /\ CardsAgree' /\ CallsAgree' /\ ReceiptsHold'
  BY <1>1, <1>2 DEF FilesAgree, BegunIsTaken, StartIsFresh, CardsAgree, CallsAgree, ReceiptsHold, Idle
<1> QED BY <1>2, <1>4, <1>5, <1>6 DEF IInv, Settled

\* A crash loses what memory was ahead by, and the handler under way.
LEMMA CrashStep ==
  ASSUME RoutinesAssumption, IInv, Crash
  PROVE  IInv' /\ Settled(disk, disk')
<1>1. TypeOK /\ FilesAgree /\ Occurrences /\ BegunIsTaken /\ CardsAgree /\ ReceiptsHold
  BY DEF IInv
<1>2. /\ mem' = disk /\ hook' = hookdisk /\ turn' = NoTurn /\ call' = Idle /\ server' = "down"
      /\ UNCHANGED <<disk, hookdisk, card, bot, clock, ledger>>
  BY DEF Crash
<1>3. limits'.fail = limits.fail
        /\ limits' \in [fault : 0..MaxFaults, fail : 0..MaxFails, rev : Nat]
  BY <1>1, FaultCounts DEF Crash
<1>4. TypeOK'
  <2>1. call' \in [at : Steps, of : Causes \cup Cards \cup Deliveries \cup {None}, n : Nat]
    BY <1>2 DEF Idle, Steps
  <2>2. turn' \in TurnBook
    BY <1>2, NoTurnType
  <2> QED BY <1>1, <1>2, <1>3, <2>1, <2>2 DEF TypeOK
<1>5. FilesAgree' /\ Occurrences' /\ BegunIsTaken'
  BY <1>1, <1>2 DEF FilesAgree, Occurrences, Occurs, BegunIsTaken, Idle
<1>6. StartIsFresh' /\ CallsAgree'
  BY <1>2 DEF StartIsFresh, CallsAgree, Idle
<1>7. CardsAgree'
  <2>1. \A q \in Cards : <<"ask", q>> \in Causes
    BY DEF Causes
  <2> QED BY <1>1, <1>2, <2>1 DEF CardsAgree, FilesAgree
<1>8. ReceiptsHold'
  BY <1>1, <1>2, <1>3 DEF ReceiptsHold
<1> QED BY <1>2, <1>4, <1>5, <1>6, <1>7, <1>8 DEF IInv, Settled

\* The boot ends the runs the file calls running and drops the receipts of settled cards.
LEMMA StartStep ==
  ASSUME RoutinesAssumption, IInv, Start
  PROVE  IInv' /\ Settled(disk, disk')
<1> DEFINE ended == Marked(disk, {c \in Causes : Lapsed(c)}, "ended")
           m == [ended EXCEPT !.receipts = {q \in @ : card[q].state = "open"}]
<1>1. TypeOK /\ FilesAgree /\ Occurrences /\ BegunIsTaken /\ CardsAgree /\ ReceiptsHold
        /\ disk \in Book /\ Occurs(disk)
  BY DEF IInv, TypeOK, Occurrences
<1>2. /\ server = "down" /\ UNCHANGED <<hook, hookdisk, card, turn, bot, call, clock, ledger>>
      /\ \/ Saved(m) /\ server' = "up" /\ UNCHANGED limits
         \/ /\ m # disk /\ CanFail /\ Fails /\ UNCHANGED server
            /\ disk' \in {disk, ended} /\ mem' = disk'
  BY DEF Start
<1>3. mem = disk /\ call = Idle
  BY <1>1, <1>2 DEF FilesAgree
<1>4. /\ ended \in Book /\ ended.order = disk.order /\ ended.receipts = disk.receipts /\ ended.next = disk.next
      /\ \A c \in Causes : ended.run[c] = IF disk.run[c] = "running" THEN "ended" ELSE disk.run[c]
  <2>1. ended \in Book /\ ended.order = disk.order /\ ended.receipts = disk.receipts /\ ended.next = disk.next
    BY <1>1 DEF Book, Marked, Status
  <2> QED BY <2>1, <1>1 DEF Book, Marked, Lapsed
<1>5. Moves(disk, ended) /\ Moves(disk, disk)
  BY <1>1, <1>4, Stays DEF Moves, Follows
<1> HIDE DEF ended
<1>6. /\ m \in Book /\ m.run = ended.run /\ m.order = ended.order /\ m.next = ended.next
      /\ m.receipts = {q \in disk.receipts : card[q].state = "open"}
  BY <1>4 DEF Book
<1> HIDE DEF m
<1>7. Grows(disk, ended) /\ Grows(disk, disk) /\ Grows(disk, m)
  <2>1. Grows(disk, ended) /\ Grows(disk, disk)
    BY <1>1, <1>5, MovesGrows
  <2> QED BY <2>1, <1>6 DEF Grows, Occurs
<1>8. PICK n : /\ mem' = n /\ disk' = n /\ Grows(mem, n)
               /\ n.receipts \in {disk.receipts, {q \in disk.receipts : card[q].state = "open"}}
               /\ \A c \in Causes : mem.run[c] = "none" => n.run[c] = "none"
  BY <1>2, <1>3, <1>4, <1>5, <1>6, <1>7 DEF Saved, Moves
<1>9. server' \in {"up", "down"} /\ call' = Idle
  BY <1>2, <1>3
<1>10. Written
  BY <1>2, <1>8, <1>9 DEF Written
<1>11. limits' \in [fault : 0..MaxFaults, fail : 0..MaxFails, rev : Nat]
        /\ (limits'.fail = 0 => limits.fail = 0)
  BY <1>1, <1>2, FailCounts DEF TypeOK
<1>12. TypeOK'
  BY <1>1, <1>2, <1>8, <1>9, <1>11 DEF TypeOK, Grows
<1>13. StartIsFresh' /\ CallsAgree'
  BY <1>9 DEF Idle, StartIsFresh, CallsAgree
<1>14. CardsAgree'
  <2>1. \A q \in Cards : <<"ask", q>> \in Causes
    BY DEF Causes
  <2>2. \A q \in Cards : /\ q \in n.receipts => q \in mem.receipts
                         /\ card[q].state = "open" => (q \in n.receipts <=> q \in mem.receipts)
    BY <1>3, <1>8
  <2>3. \A q \in Cards : /\ disk.run[<<"ask", q>>] # "none" => n.run[<<"ask", q>>] # "none"
                         /\ mem.run[<<"ask", q>>] = "none" => n.run[<<"ask", q>>] = "none"
    BY <1>3, <1>8, <2>1 DEF Grows, Follows, Taken
  <2>4. \A q \in Cards :
          /\ card[q].state = "none" => q \notin n.receipts /\ ledger.applied[q] = 0
          /\ card[q].state = "open" => ledger.applied[q] = IF q \in n.receipts THEN 1 ELSE 0
          /\ card[q].state = "deny" => q \notin n.receipts /\ ledger.applied[q] = 0
          /\ card[q].state = "allow" => ledger.applied[q] = 1
          /\ card[q].state = "open" /\ q \notin n.receipts => n.run[<<"ask", q>>] = "none"
          /\ card[q].state = "allow" \/ (card[q].state = "open" /\ q \in n.receipts) =>
               (card[q].act = "run_now" => n.run[<<"ask", q>>] # "none")
    BY <1>1, <2>2, <2>3 DEF CardsAgree
  <2> QED BY <1>2, <1>8, <2>4 DEF CardsAgree
<1> QED BY <1>2, <1>8, <1>10, <1>11, <1>12, <1>13, <1>14, InvStep
-----------------------------------------------------------------------------
(* The theorems.                                                            *)

\* Every step keeps the invariant and what the file has settled.
LEMMA NextInv ==
  ASSUME RoutinesAssumption, IInv, [Next]_vars
  PROVE  IInv' /\ Settled(disk, disk')
<1>1. CASE UNCHANGED vars
  <2>1. UNCHANGED <<mem, disk, hook, hookdisk, card, turn, bot, call, server, clock, ledger, limits>>
    BY <1>1 DEF vars
  <2>2. TypeOK' /\ FilesAgree'
    BY <2>1 DEF IInv, TypeOK, FilesAgree, Idle
  <2>3. Occurrences' /\ BegunIsTaken' /\ StartIsFresh'
    BY <2>1 DEF IInv, Occurrences, Occurs, BegunIsTaken, StartIsFresh
  <2>4. CardsAgree' /\ CallsAgree' /\ ReceiptsHold'
    BY <2>1 DEF IInv, CardsAgree, CallsAgree, ReceiptsHold
  <2> QED BY <2>1, <2>2, <2>3, <2>4 DEF IInv, Settled
<1>2. CASE Handler
  BY <1>2, BeginStep, VisitStep, SettleStep, ForgetStep, EnqueueStep, FinishStep, SaveHookStep,
     DropHookStep DEF Handler
<1>3. CASE Tick
  BY <1>3, TickDueStep, TickQueueStep DEF Tick
<1>4. CASE \/ Setup \/ ReloadProviders
           \/ \E c \in Causes : TurnEnds(c) \/ Stall(c) \/ Release(c) \/ Dies(c)
  BY <1>4, TurnStep DEF Setup
<1>5. CASE \E act \in Acts, q \in Cards : Calendar(act, q)
  BY <1>5, CalendarStep
<1>6. CASE \E c \in Causes : Cancel(c)
  BY <1>6, CancelStep
<1>7. CASE DropCadence
  BY <1>7, DropCadenceStep
<1>8. CASE \E q \in Cards, act \in CardActs : Propose(q, act)
  BY <1>8, ProposeStep
<1>9. CASE \E q \in Cards : Recover(q) \/ Deny(q) \/ Allow(q) \/ AnswerAgain(q)
  BY <1>9, RefuseStep, AllowStep, ForgetStep
<1>10. CASE \E d \in Deliveries : Receive(d)
  BY <1>10, ReceiveStep
<1>11. CASE \E state \in {"on", "off", "gone"} : SetHook(state)
  BY <1>11, SetHookStep
<1>12. CASE Clock \/ Crash \/ Start
  BY <1>12, ClockStep, CrashStep, StartStep
<1> QED BY <1>1, <1>2, <1>3, <1>4, <1>5, <1>6, <1>7, <1>8, <1>9, <1>10, <1>11, <1>12 DEF Next

\* The invariant: files that agree, occurrences that are passed, receipts of cards that
\* stand exactly as long as they are needed.
THEOREM BooksAgree == Spec => []IInv
<1>1. Init => IInv
  BY RoutinesAssumption, InitInv
<1>2. IInv /\ [Next]_vars => IInv'
  BY RoutinesAssumption, NextInv
<1> QED BY <1>1, <1>2, PTL DEF Spec

\* The scheduler's, the webhooks' and the cards' state keeps its shape.
THEOREM TypeCorrect == Spec => []TypeOK
<1>1. IInv => TypeOK
  BY DEF IInv
<1> QED BY <1>1, BooksAgree, PTL

\* No occurrence, request, card or delivery is given to the operator twice.
THEOREM OnlyOnce == Spec => []RunsOnce
<1>1. IInv => RunsOnce
  BY DEF IInv, BegunIsTaken, RunsOnce
<1> QED BY <1>1, BooksAgree, PTL

\* A card tells the truth about what was done.
THEOREM CardsTellTheTruth == Spec => []CardsAreHonest
<1>1. IInv => CardsAreHonest
  BY DEF IInv, CardsAgree, FilesAgree, CardsAreHonest
<1> QED BY <1>1, BooksAgree, PTL

\* What was answered, to a card or a delivery, has its run in the file.
THEOREM AnswersAreKept == Spec => []AnswersHold
<1>1. IInv => AnswersHold
  BY DEF IInv, CardsAgree, ReceiptsHold, AnswersHold, AcceptedIsKept
<1> QED BY <1>1, BooksAgree, PTL

\* A receipt of a run never changes its mind, across failed writes and restarts.
THEOREM SettledStays == Spec => ReceiptsAreFinal
<1>1. IInv /\ [Next]_vars =>
        [\A c \in Causes : disk.run[c] \in {"ended", "cancelled", "missed"}
                             => disk'.run[c] = disk.run[c]]_vars
  BY RoutinesAssumption, NextInv DEF Settled, Final
<1> QED BY <1>1, BooksAgree, PTL DEF Spec, ReceiptsAreFinal
-----------------------------------------------------------------------------
(* Running runs and their turns.                                            *)

\* What runs has its turn, or is about to get it, or is known to have lost it.
HasTurn(c) ==
  turn.at[c] \in {"setup", "run", "stopping"} \/ (call.at = "start" /\ call.of = c) \/ c \in turn.orphans

TurnsAgree == server = "up" => \A c \in Causes : mem.run[c] = "running" => HasTurn(c)

\* Only a pass of the scheduler makes a run running.
NoneStarts(m, n) == \A c \in Causes : n.run[c] = "running" => m.run[c] = "running"

LEMMA PushedStarts ==
  ASSUME NEW m \in Book, NEW c \in Causes, NEW status \in Status, status # "running"
  PROVE  NoneStarts(m, Pushed(m, c, status))
<1>1. Pushed(m, c, status).run = [m.run EXCEPT ![c] = status] /\ m.run \in [Causes -> Status]
  BY PushedFields DEF Book
<1> QED BY <1>1 DEF NoneStarts

LEMMA MarkedStarts ==
  ASSUME NEW m \in Book, NEW which, NEW status, status # "running"
  PROVE  NoneStarts(m, Marked(m, which, status))
<1>1. Marked(m, which, status).run = [c \in Causes |-> IF c \in which THEN status ELSE m.run[c]]
  BY DEF Marked, Book
<1> QED BY <1>1 DEF NoneStarts

LEMMA EndedStarts ==
  ASSUME TypeOK, NEW c \in Causes
  PROVE  NoneStarts(mem, Ended(c)) /\ Ended(c).run[c] # "running"
<1>1. mem \in Book /\ mem.run \in [Causes -> Status]
  BY DEF TypeOK, Book
<1>2. Ended(c).run = [mem.run EXCEPT ![c] = IF @ = "running" THEN "ended" ELSE @]
  BY <1>1 DEF Book, Ended
<1> QED BY <1>1, <1>2 DEF NoneStarts

LEMMA AppliedStarts ==
  ASSUME RoutinesAssumption, TypeOK, NEW act \in Acts, NEW c \in Causes
  PROVE  NoneStarts(mem, Applied(mem, act, c))
<1>1. /\ mem \in Book /\ mem.run \in [Causes -> Status] /\ limits.rev + 1 \in Nat
      /\ clock + 1 \in 0..(MaxDue + 1) /\ 0 \in 0..(MaxDue + 1)
  BY Ranges
<1>2. CASE act = "run_now"
  <2>1. Applied(mem, act, c) = Pushed(mem, c, "queued") /\ "queued" \in Status
    BY <1>2 DEF Applied, Status
  <2> QED BY <1>1, <2>1, PushedStarts
<1>3. CASE act = "pause"
  <2> DEFINE off == Stamped([mem EXCEPT !.state = "off", !.next = 0])
  <2>1. off \in Book /\ off.run = mem.run
    BY <1>1 DEF Book, Stamped
  <2>2. Applied(mem, act, c) = Dropped(off)
    BY <1>3 DEF Applied
  <2> HIDE DEF off
  <2> QED BY <2>1, <2>2, MarkedStarts DEF Dropped, NoneStarts
<1>4. CASE act = "resume"
  <2>1. Applied(mem, act, c) = Stamped([mem EXCEPT !.state = "on", !.next = clock + 1])
    BY <1>4 DEF Applied
  <2> QED BY <2>1, <1>1 DEF Book, Stamped, NoneStarts
<1>5. CASE act = "delete"
  <2> DEFINE gone == [mem EXCEPT !.state = "gone", !.next = 0]
  <2>1. gone \in Book /\ gone.run = mem.run
    BY <1>1 DEF Book
  <2>2. Applied(mem, act, c) = Dropped(gone)
    BY <1>5 DEF Applied
  <2> HIDE DEF gone
  <2> QED BY <2>1, <2>2, MarkedStarts DEF Dropped, NoneStarts
<1> QED BY <1>2, <1>3, <1>4, <1>5 DEF Acts

\* A step that starts no run and leaves every turn where it is.
LEMMA Undisturbed ==
  ASSUME TurnsAgree, UNCHANGED <<turn, server>>,
         UNCHANGED call \/ (call.at # "start" /\ call'.at # "start"),
         UNCHANGED mem \/ NoneStarts(mem, mem')
  PROVE  TurnsAgree'
<1>1. \A c \in Causes : mem'.run[c] = "running" => mem.run[c] = "running"
  BY DEF NoneStarts
<1>2. call.at = "start" => call'.at = "start" /\ call'.of = call.of
  OBVIOUS
<1> QED BY <1>1, <1>2 DEF TurnsAgree, HasTurn

\* The pass of the scheduler: a run is taken before its turn is there.
LEMMA VisitTurns ==
  ASSUME RoutinesAssumption, IInv, TurnsAgree, Visit
  PROVE  TurnsAgree'
<1>1. TypeOK /\ mem \in Book /\ mem.run \in [Causes -> Status] /\ mem.order \in Seq(Causes)
        /\ turn \in TurnBook
  BY DEF IInv, TypeOK, Book
<1>2. call.at = "pass" /\ UNCHANGED server /\ call.n \in Nat /\ call.n <= Len(mem.order)
  BY <1>1 DEF Visit, TypeOK, IInv, StartIsFresh
<1>3. CASE call' = Idle /\ UNCHANGED <<mem, disk, limits, turn>>
  BY <1>2, <1>3, Undisturbed DEF Idle
<1>4. ASSUME NEW i \in 1..call.n,
             LET c == mem.order[i]
                 m == [mem EXCEPT !.run[c] = IF Missing THEN "ended" ELSE "running"] IN
             \/ /\ Saved(m) /\ UNCHANGED <<limits, turn>>
                /\ IF Missing THEN Goto("pass", None, i - 1) ELSE Goto("start", c, i - 1)
             \/ Unsaved(m) /\ Fails /\ Orphaned(c) /\ call' = Idle
      PROVE  TurnsAgree'
  <2>1. PICK c \in Causes : c = mem.order[i]
    BY <1>1, <1>2, <1>4
  <2>2. PICK status : status = IF Missing THEN "ended" ELSE "running"
    OBVIOUS
  <2>3. /\ mem' = [mem EXCEPT !.run[c] = status]
        /\ \/ UNCHANGED turn /\ Missing /\ Goto("pass", None, i - 1)
           \/ UNCHANGED turn /\ ~Missing /\ Goto("start", c, i - 1)
           \/ Orphaned(c) /\ call' = Idle
    BY <1>4, <2>1, <2>2 DEF Saved, Unsaved
  <2>4. mem'.run = [mem.run EXCEPT ![c] = status]
    BY <1>1, <2>3 DEF Book
  <2>5. \A d \in Causes : d # c => mem'.run[d] = mem.run[d]
    BY <1>1, <2>4
  <2>6. CASE Orphaned(c) /\ call' = Idle
    <3>1. turn'.at = turn.at /\ turn'.orphans = turn.orphans \cup {c}
      BY <1>1, <2>6, OrphanedType
    <3> QED BY <1>2, <2>5, <3>1 DEF TurnsAgree, HasTurn
  <2>7. CASE UNCHANGED turn /\ Missing /\ Goto("pass", None, i - 1)
    <3>1. NoneStarts(mem, mem') /\ call'.at = "pass"
      BY <1>1, <2>2, <2>4, <2>7 DEF NoneStarts, Goto
    <3> QED BY <1>2, <2>7, <3>1, Undisturbed
  <2>8. CASE UNCHANGED turn /\ ~Missing /\ Goto("start", c, i - 1)
    <3>1. call'.at = "start" /\ call'.of = c
      BY <2>8 DEF Goto
    <3> QED BY <1>2, <2>5, <2>8, <3>1 DEF TurnsAgree, HasTurn
  <2> QED BY <2>3, <2>6, <2>7, <2>8
<1> QED BY <1>3, <1>4 DEF Visit

\* startTurn, which starts the turn or ends the run.
LEMMA BeginTurns ==
  ASSUME RoutinesAssumption, IInv, TurnsAgree, Begin
  PROVE  TurnsAgree'
<1>1. TypeOK /\ mem \in Book /\ mem.run \in [Causes -> Status] /\ turn \in TurnBook
  BY DEF IInv, TypeOK, Book
<1>2. call.at = "start" /\ UNCHANGED server /\ call.of \in Causes
  BY DEF Begin, IInv, StartIsFresh
<1>3. CASE /\ turn' = [turn EXCEPT !.of = call.of, !.at[call.of] = "setup"] /\ UNCHANGED mem
  <2>1. turn'.at = [turn.at EXCEPT ![call.of] = "setup"] /\ turn'.orphans = turn.orphans
    BY <1>1, <1>3 DEF TurnBook
  <2>2. turn'.at[call.of] = "setup" /\ \A d \in Causes : d # call.of => turn'.at[d] = turn.at[d]
    BY <1>1, <1>2, <2>1 DEF TurnBook
  <2> QED BY <1>2, <1>3, <2>1, <2>2 DEF TurnsAgree, HasTurn
<1>4. CASE mem' = Ended(call.of) /\ UNCHANGED turn
  <2>1. NoneStarts(mem, mem') /\ mem'.run[call.of] # "running"
    BY <1>1, <1>2, <1>4, EndedStarts
  <2> QED BY <1>2, <1>4, <2>1 DEF TurnsAgree, HasTurn, NoneStarts
<1> QED BY <1>3, <1>4 DEF Begin, Saved, Unsaved

\* A turn that moves on, and one that is over: the run it was of is ended, or lost.
LEMMA EndTurns ==
  ASSUME RoutinesAssumption, IInv, TurnsAgree,
         \/ ReloadProviders
         \/ \E c \in Causes : \/ SetupEnds(c) \/ SetupFails(c) \/ TurnEnds(c) \/ Stall(c)
                             \/ Release(c) \/ Dies(c)
  PROVE  TurnsAgree'
<1>1. TypeOK /\ mem \in Book /\ mem.run \in [Causes -> Status] /\ turn \in TurnBook
        /\ turn.at \in [Causes -> Stages]
  BY DEF IInv, TypeOK, Book, TurnBook
<1>2. call.at = "idle" /\ call' = call /\ UNCHANGED server
  <2>1. Ready /\ call' = call /\ UNCHANGED server
    BY DEF SetupEnds, SetupFails, TurnEnds, Stall, Release, Dies, ReloadProviders
  <2> QED BY <2>1 DEF Ready, Idle
<1>3. CASE ReloadProviders
  <2>1. UNCHANGED mem
    BY <1>3 DEF ReloadProviders, files
  <2>2. /\ \A c \in Causes : Active(c) /\ turn.at[c] # "none"
                              => turn'.at[c] = turn.at[c] \/ c \in turn'.orphans
        /\ turn.orphans \subseteq turn'.orphans
    BY <1>1, <1>3, ReloadTypes
  <2> QED BY <1>2, <2>1, <2>2 DEF TurnsAgree, HasTurn, Active
<1>4. ASSUME NEW c \in Causes, SetupEnds(c) \/ Stall(c) \/ Release(c) \/ Dies(c)
      PROVE  TurnsAgree'
  <2>1. UNCHANGED mem
    BY <1>4 DEF SetupEnds, Stall, Release, Dies, files
  <2>2. \/ turn'.at = turn.at /\ turn'.orphans = turn.orphans
        \/ /\ \E stage \in {"run", "stopping"} : turn'.at = [turn.at EXCEPT ![c] = stage]
           /\ turn'.orphans = turn.orphans
        \/ /\ turn'.at = [turn.at EXCEPT ![c] = "none"]
           /\ turn'.orphans = turn.orphans \cup {d \in {c} : Active(d)}
    BY <1>1, <1>4, TurnTypes
  <2>3. ASSUME NEW d \in Causes, server = "up", mem.run[d] = "running" PROVE HasTurn(d)'
    <3>1. turn.at[d] \in {"setup", "run", "stopping"} \/ d \in turn.orphans
      BY <1>2, <2>3 DEF TurnsAgree, HasTurn
    <3>2. CASE d # c
      BY <1>1, <2>2, <3>1, <3>2 DEF HasTurn
    <3>3. CASE d = c
      BY <1>1, <2>2, <2>3, <3>1, <3>3 DEF HasTurn, Active
    <3> QED BY <3>2, <3>3
  <2> QED BY <1>2, <2>1, <2>3 DEF TurnsAgree
<1>5. ASSUME NEW c \in Causes, SetupFails(c) \/ TurnEnds(c)
      PROVE  TurnsAgree'
  <2>1. /\ mem' = Ended(c)
        /\ turn'.at = [turn.at EXCEPT ![c] = "none"] /\ turn'.orphans = turn.orphans
    <3>1. /\ EndSaved(c) \/ EndUnsaved(c)
          /\ OverAndIdle(c) \/ turn' = [turn EXCEPT !.at[c] = "none"]
      BY <1>5 DEF SetupFails, TurnEnds
    <3>2. mem' = Ended(c)
      BY <3>1 DEF EndSaved, EndUnsaved, Saved, Unsaved, Unwritten
    <3> QED BY <1>1, <3>1, <3>2, TurnTypes
  <2>2. NoneStarts(mem, mem') /\ mem'.run[c] # "running"
    BY <1>1, <2>1, EndedStarts
  <2>3. \A d \in Causes : d # c => turn'.at[d] = turn.at[d]
    BY <1>1, <2>1
  <2> QED BY <1>2, <2>1, <2>2, <2>3 DEF TurnsAgree, HasTurn, NoneStarts
<1> QED BY <1>3, <1>4, <1>5

\* What people and cards ask for.
LEMMA AskTurns ==
  ASSUME RoutinesAssumption, IInv, TurnsAgree,
         \/ \E act \in Acts, q \in Cards : Calendar(act, q)
         \/ \E c \in Causes : Cancel(c)
         \/ DropCadence
         \/ \E q \in Cards, act \in CardActs : Propose(q, act)
         \/ \E q \in Cards : Recover(q) \/ Deny(q) \/ Allow(q) \/ AnswerAgain(q)
  PROVE  TurnsAgree'
<1>1. TypeOK /\ mem \in Book /\ mem.run \in [Causes -> Status]
  BY DEF IInv, TypeOK, Book
<1>2. call.at = "idle" /\ UNCHANGED <<turn, server>>
  <2>1. Ready /\ UNCHANGED <<turn, server>>
    BY DEF Calendar, Cancel, DropCadence, Propose, Recover, Deny, Allow, AnswerAgain
  <2> QED BY <2>1 DEF Ready, Idle
<1>3. \A q \in Cards : <<"ask", q>> \in Causes
  BY DEF Causes
<1>4. \A q \in Cards : card[q].act \in Acts
  BY <1>1 DEF TypeOK
<1>5. ASSUME NEW act \in Acts, NEW q \in Cards, Calendar(act, q) PROVE TurnsAgree'
  <2>1. mem' = Applied(mem, act, <<"ask", q>>) /\ UNCHANGED call
    BY <1>5 DEF Calendar, Saved, Stamping
  <2> QED BY <1>1, <1>2, <1>3, <2>1, AppliedStarts, Undisturbed
<1>6. ASSUME NEW c \in Causes, Cancel(c) PROVE TurnsAgree'
  <2>1. mem' = [mem EXCEPT !.run[c] = "cancelled"] /\ UNCHANGED call
    BY <1>6 DEF Cancel, Saved, Unsaved
  <2>2. NoneStarts(mem, mem')
    BY <1>1, <2>1 DEF Book, NoneStarts
  <2> QED BY <1>1, <1>2, <2>1, <2>2, Undisturbed
<1>7. CASE DropCadence
  <2> DEFINE off == IF mem.state = "on" THEN Stamped([mem EXCEPT !.state = "off", !.next = 0]) ELSE mem
             which == {c \in Causes : mem.run[c] \in {"queued", "running"}}
  <2>1. /\ mem' = mem \/ mem' = Marked(off, which, "cancelled")
        /\ UNCHANGED call \/ call'.at = "drop"
    BY <1>7 DEF DropCadence, Saved, Unsaved, Unwritten, Goto
  <2>2. off \in Book /\ off.run = mem.run
    BY <1>1, Ranges DEF Book, Stamped
  <2> HIDE DEF off, which
  <2>3. NoneStarts(mem, Marked(off, which, "cancelled"))
    BY <2>2, MarkedStarts DEF NoneStarts
  <2>4. call'.at = "drop" => call.at # "start" /\ call'.at # "start"
    BY <1>2
  <2> QED BY <1>1, <1>2, <2>1, <2>3, <2>4, Undisturbed
<1>8. ASSUME NEW q \in Cards, Recover(q) \/ Deny(q) \/ (\E act \in CardActs : Propose(q, act))
      PROVE  TurnsAgree'
  <2>1. UNCHANGED mem /\ (UNCHANGED call \/ call'.at = "settle")
    BY <1>8 DEF Recover, Deny, Propose, Goto, files
  <2> QED BY <1>1, <1>2, <2>1, Undisturbed
<1>9. ASSUME NEW q \in Cards, Allow(q) PROVE TurnsAgree'
  <2> DEFINE m == Applied(mem, card[q].act, <<"ask", q>>)
  <2>1. mem' = Receipted(m, q) /\ call'.at = "settle"
    BY <1>9 DEF Allow, Saved, Stamping, Goto
  <2>2. NoneStarts(mem, m)
    BY <1>1, <1>3, <1>4, AppliedStarts
  <2>3. m \in Book
    <3>1. card[q].act = "run_now" => mem.run[<<"ask", q>>] = "none"
      BY <1>9 DEF Allow, IInv, CardsAgree
    <3>2. Occurs(mem)
      BY DEF IInv, Occurrences
    <3> QED BY <1>1, <1>4, <3>1, <3>2, AppliedGrows DEF Grows
  <2> HIDE DEF m
  <2>4. mem'.run = m.run
    BY <2>1, <2>3 DEF Receipted, Book
  <2>5. NoneStarts(mem, mem')
    BY <2>2, <2>4 DEF NoneStarts
  <2> QED BY <1>1, <1>2, <2>1, <2>5, Undisturbed
<1>10. ASSUME NEW q \in Cards, AnswerAgain(q) PROVE TurnsAgree'
  <2>1. mem' = [mem EXCEPT !.receipts = @ \ {q}] /\ UNCHANGED call
    BY <1>10 DEF AnswerAgain, Saved
  <2>2. NoneStarts(mem, mem')
    BY <1>1, <2>1 DEF Book, NoneStarts
  <2> QED BY <1>1, <1>2, <2>1, <2>2, Undisturbed
<1> QED BY <1>5, <1>6, <1>7, <1>8, <1>9, <1>10

\* The other handlers, and what begins them.
LEMMA HandlerTurns ==
  ASSUME RoutinesAssumption, IInv, TurnsAgree,
         \/ TickDue \/ TickQueue \/ Settle \/ Forget \/ Enqueue \/ Finish \/ SaveHook \/ DropHook
         \/ \E d \in Deliveries : Receive(d)
         \/ \E state \in {"on", "off", "gone"} : SetHook(state)
  PROVE  TurnsAgree'
<1>1. TypeOK /\ mem \in Book /\ mem.run \in [Causes -> Status]
  BY DEF IInv, TypeOK, Book
<1>2. CASE TickDue
  <2>1. mem.next \in 1..clock /\ call = Idle /\ UNCHANGED <<turn, server>>
    BY <1>2 DEF TickDue, Ready, Due
  <2>2. PICK status \in {"queued", "missed"} :
          LET m == Advanced(Pushed(mem, <<"due", mem.next>>, status)) IN
          \/ Saved(m) /\ Goto("pass", None, Len(m.order)) /\ Stamps
          \/ Unsaved(m) /\ UNCHANGED call /\ FailsStamped
    BY <1>2 DEF TickDue
  <2> DEFINE p == Pushed(mem, <<"due", mem.next>>, status)
  <2>3. <<"due", mem.next>> \in Causes /\ status \in Status /\ status # "running"
    <3>1. clock \in 0..MaxDue /\ MaxDue \in Nat
      BY <1>1 DEF TypeOK, RoutinesAssumption
    <3>2. mem.next \in 1..MaxDue
      BY <2>1, <3>1
    <3> QED BY <3>2 DEF Causes, Status
  <2>4. p \in Book /\ NoneStarts(mem, p)
    BY <1>1, <2>3, PushedFields, PushedStarts
  <2>5. mem' = Advanced(p) /\ (UNCHANGED call \/ call'.at = "pass")
    BY <2>2 DEF Saved, Unsaved, Goto
  <2> HIDE DEF p
  <2>6. mem'.run = p.run
    BY <2>4, <2>5 DEF Advanced, Stamped, Book
  <2>7. NoneStarts(mem, mem') /\ call.at # "start"
    BY <2>1, <2>4, <2>6 DEF NoneStarts, Idle
  <2>8. call'.at = "pass" => call'.at # "start"
    OBVIOUS
  <2> QED BY <1>1, <2>1, <2>5, <2>7, <2>8, Undisturbed
<1>3. CASE TickQueue \/ Settle \/ Finish \/ SaveHook \/ DropHook \/ \E d \in Deliveries : Receive(d)
  <2>1. \A at, of, n : Goto(at, of, n) => call'.at = at
    BY DEF Goto
  <2>2. Idle.at = "idle"
    BY DEF Idle
  <2>3. CASE TickQueue
    BY <1>1, <2>1, <2>2, <2>3, Undisturbed DEF TickQueue, Ready, files
  <2>4. CASE Settle
    BY <1>1, <2>1, <2>2, <2>4, Undisturbed DEF Settle, files
  <2>5. CASE Finish \/ SaveHook \/ DropHook
    BY <1>1, <2>2, <2>5, Undisturbed DEF Finish, SaveHook, DropHook
  <2>6. ASSUME NEW d \in Deliveries, Receive(d) PROVE TurnsAgree'
    BY <1>1, <2>1, <2>2, <2>6, Undisturbed DEF Receive, Ready
  <2> QED BY <1>3, <2>3, <2>4, <2>5, <2>6
<1>4. CASE Forget
  <2>1. /\ mem' = mem \/ mem' = [mem EXCEPT !.receipts = @ \ {call.of}]
        /\ UNCHANGED <<turn, server>>
        /\ call.at # "start" /\ call'.at # "start"
    BY <1>4 DEF Forget, Saved, Idle
  <2>2. NoneStarts(mem, [mem EXCEPT !.receipts = @ \ {call.of}])
    BY <1>1 DEF Book, NoneStarts
  <2> QED BY <1>1, <2>1, <2>2, Undisturbed
<1>5. CASE Enqueue
  <2>1. call.of \in Deliveries
    BY <1>5 DEF IInv, CallsAgree, Enqueue
  <2>2. <<"hook", call.of>> \in Causes /\ "queued" \in Status
    BY <2>1 DEF Causes, Status
  <2>3. NoneStarts(mem, Pushed(mem, <<"hook", call.of>>, "queued"))
    BY <1>1, <2>2, PushedStarts
  <2>4. /\ mem' = mem \/ mem' = Pushed(mem, <<"hook", call.of>>, "queued")
        /\ UNCHANGED <<turn, server>>
        /\ call.at # "start" /\ call'.at # "start"
    BY <1>5 DEF Enqueue, Saved, Unsaved, Goto, Idle
  <2> QED BY <1>1, <2>3, <2>4, Undisturbed
<1>6. ASSUME NEW state \in {"on", "off", "gone"}, SetHook(state) PROVE TurnsAgree'
  <2> DEFINE which == {c \in Causes : ~OfCadence(c) /\ mem.run[c] = "queued"}
  <2>1. NoneStarts(mem, Marked(mem, which, "cancelled"))
    BY <1>1, MarkedStarts
  <2>2. /\ mem' = mem \/ mem' = Marked(mem, which, "cancelled")
        /\ UNCHANGED <<turn, server>>
        /\ call.at # "start" /\ call'.at # "start"
    BY <1>6 DEF SetHook, Saved, Unsaved, Unwritten, Ready, Goto, Idle
  <2> QED BY <1>1, <2>1, <2>2, Undisturbed
<1> QED BY <1>2, <1>3, <1>4, <1>5, <1>6

\* Time, crashes and restarts: a boot ends what the file says is running.
LEMMA LifeTurns ==
  ASSUME RoutinesAssumption, IInv, TurnsAgree, Clock \/ Crash \/ Start \/ UNCHANGED vars
  PROVE  TurnsAgree'
<1>1. TypeOK /\ disk \in Book
  BY DEF IInv, TypeOK
<1>2. CASE Clock \/ UNCHANGED vars
  BY <1>1, <1>2, Undisturbed DEF Clock, files, vars
<1>3. CASE Crash
  <2>1. server' # "up" /\ call'.at # "start"
    BY <1>3 DEF Crash, Idle
  <2> QED BY <2>1 DEF TurnsAgree
<1>4. CASE Start
  <2> DEFINE ended == Marked(disk, {c \in Causes : Lapsed(c)}, "ended")
             m == [ended EXCEPT !.receipts = {q \in @ : card[q].state = "open"}]
  <2>1. /\ server = "down" /\ UNCHANGED <<turn, call>>
        /\ \/ mem' = m
           \/ server' = server
    BY <1>4 DEF Start, Saved
  <2>2. \A c \in Causes : m.run[c] # "running"
    <3>1. ended.run = [c \in Causes |-> IF Lapsed(c) THEN "ended" ELSE disk.run[c]]
      BY <1>1 DEF Marked, Book
    <3>2. ended \in Book
      BY <1>1 DEF Marked, Book, Status
    <3> HIDE DEF ended
    <3>3. m.run = ended.run
      BY <3>2 DEF Book
    <3> HIDE DEF m
    <3> QED BY <3>1, <3>3 DEF Lapsed
  <2> HIDE DEF m
  <2> QED BY <2>1, <2>2 DEF TurnsAgree
<1> QED BY <1>2, <1>3, <1>4

LEMMA NextTurns ==
  ASSUME RoutinesAssumption, IInv, TurnsAgree, [Next]_vars
  PROVE  TurnsAgree'
BY VisitTurns, BeginTurns, EndTurns, AskTurns, HandlerTurns, LifeTurns DEF Next, Handler, Tick, Setup

\* A run that counts as running has its turn at work (routines.ts: "running" is written
\* before the turn is started, and whatever ends the turn ends the run), whoever the operator
\* is busy with; but for one whose turn was killed by a reload, or went silently after a
\* stall or a reload, or whose "running" was never saved.
THEOREM RunsHaveTurns == Spec => []RunningHasTurn
<1>1. Init => TurnsAgree
  BY DEF Init, TurnsAgree, Idle
<1>2. IInv /\ TurnsAgree /\ [Next]_vars => TurnsAgree'
  BY RoutinesAssumption, NextTurns
<1>3. TurnsAgree => RunningHasTurn
  BY DEF TurnsAgree, HasTurn, RunningHasTurn, Active
<1> QED BY <1>1, <1>2, <1>3, BooksAgree, PTL DEF Spec
=============================================================================

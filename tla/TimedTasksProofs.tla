-------------------------- MODULE TimedTasksProofs --------------------------
(***************************************************************************)
(* Proofs about timed tasks and the table of their handles, for any number *)
(* of memory cells, slots, threads and tasks.                              *)
(*                                                                         *)
(* A worker that cancels a task may meet the dispatcher between taking the *)
(* task's event and entering its wrapper, and an assertion fails.  The     *)
(* program is aborted then: what is said about events below is said while  *)
(* it is not, and that it never is needs every cancellation to come from   *)
(* the main thread.                                                        *)
(***************************************************************************)
EXTENDS TimedTasks, FiniteSetTheorems, WellFoundedInduction, TLAPS

Live(c)  == task[c].state # "FREE"
Armed(c) == \E t \in Threads : arming[t] = c
Taken(c) == dispatcher = [at |-> "wrapper", cell |-> c]

(* Every live task has an id of its own, given to it and to no other.  The   *)
(* handle of a task that is being armed is not known to the application yet. *)
IdsInv ==
  /\ \A c \in Cells : Live(c) <=> task[c].id # 0
  /\ \A c \in Cells : task[c].id <= last /\ task[c].id \notin failed
  /\ \A c, d \in Cells : task[c].id = task[d].id /\ Live(c) => c = d
  /\ \A id \in failed \cup cancelled : id <= last
  /\ \A h \in held : h.id <= last
  /\ \A t \in Threads, h \in held : arming[t] # NoCell => task[arming[t]].id # h.id

(* A live task is in the table, and the application's handle is the first   *)
(* of its slots: the memory of a task that could not be armed may be in the *)
(* table more than once.                                                    *)
SlotsInv ==
  /\ \A c \in Cells : Live(c) => Slots(c) # {}
  /\ \A c \in Cells, h \in held : task[c].id = h.id => h.handle = Handle(c)

(* A scheduled task has its event in exactly one place, any other has none. *)
EventPlaced(c) ==
  \/ /\ task[c].state = "SCHEDULED"
     /\ \/ events[c] = 1 /\ ~Armed(c) /\ ~Taken(c)
        \/ events[c] = 0 /\ Armed(c) /\ ~Taken(c)
        \/ events[c] = 0 /\ ~Armed(c) /\ Taken(c)
  \/ task[c].state # "SCHEDULED" /\ events[c] = 0 /\ ~Armed(c) /\ ~Taken(c)

(* Two threads do not arm the same task, and the task that runs is the one   *)
(* the dispatcher calls.                                                     *)
EventsInv ==
  /\ \A t, u \in Threads : arming[t] = arming[u] /\ arming[t] # NoCell => t = u
  /\ \A c \in Cells : EventPlaced(c)
  /\ dispatcher.at = "idle" <=> dispatcher.cell = NoCell
  /\ \A c \in Cells : task[c].state \in {"RUNNING", "DELETABLE"}
                        <=> dispatcher = [at |-> "callback", cell |-> c]

(* A task whose cancellation has returned is gone or will not run again.    *)
CancelInv ==
  \A c \in Cells : task[c].state \in {"SCHEDULED", "RUNNING"} => task[c].id \notin cancelled

Inv == /\ TypeOK /\ IdsInv /\ SlotsInv /\ OnlyFailuresCostSlots
       /\ ~abort => EventsInv
       /\ CancelInv

-----------------------------------------------------------------------------
(* xi_find_handle_for_object returns the first slot with the object.        *)
LEMMA HandleFacts ==
  ASSUME TypeOK, NEW c, Slots(c) # {}
  PROVE  /\ Handle(c) \in Handles /\ table[Handle(c)] = c
         /\ \A g \in Slots(c) : Handle(c) <= g
<1>1. Slots(c) \subseteq Nat
  BY TaskAssumption DEF Slots, Handles
<1> DEFINE R == OpToRel(<, Nat)
<1>2. IsWellFoundedOn(R, Nat) /\ \A x, y \in Nat : x < y => <<x, y>> \in R
  <2>1. IsWellFoundedOn(R, Nat) BY NatLessThanWellFounded
  <2>2. \A x, y \in Nat : x < y => <<x, y>> \in R BY DEF OpToRel
  <2> QED BY <2>1, <2>2
<1> HIDE DEF R
<1>3. PICK h \in Slots(c) : \A g \in Slots(c) : ~(<<g, h>> \in R)
  BY <1>1, <1>2, WFMin
<1>4. \A g \in Slots(c) : h <= g
  <2> SUFFICES ASSUME NEW g \in Slots(c), ~(h <= g) PROVE FALSE OBVIOUS
  <2>1. g \in Nat /\ h \in Nat BY <1>1
  <2>2. g < h BY <2>1
  <2> QED BY <2>1, <2>2, <1>2, <1>3
<1>5. Handle(c) \in Slots(c) /\ \A g \in Slots(c) : Handle(c) <= g
  BY <1>4 DEF Handle
<1> QED BY <1>5 DEF Slots

(* A slot that changes concerns the object that was there and the one that  *)
(* is put there, and no other.                                              *)
LEMMA OtherSlots ==
  ASSUME TypeOK, NEW i \in Handles, NEW x, table' = [table EXCEPT ![i] = x],
         NEW c, c # x, c # table[i]
  PROVE  Slots(c)' = Slots(c) /\ Handle(c)' = Handle(c)
<1>1. Slots(c)' = Slots(c)
  BY DEF Slots, TypeOK
<1> QED BY <1>1 DEF Handle

LEMMA SameSlots ==
  ASSUME UNCHANGED table, NEW c
  PROVE  Slots(c)' = Slots(c) /\ Handle(c)' = Handle(c)
BY DEF Slots, Handle

(* The sets that OnlyFailuresCostSlots counts are finite.                    *)
UsedSlots == {h \in Handles : table[h] # NoCell}
LiveCells == {c \in Cells : task[c].state # "FREE"}

LEMMA FiniteCounts ==
  ASSUME TypeOK
  PROVE  IsFiniteSet(UsedSlots) /\ IsFiniteSet(LiveCells) /\ IsFiniteSet(failed)
<1>1. IsFiniteSet(Handles) /\ IsFiniteSet(Ids)
  BY FS_Interval, TaskAssumption DEF Handles, Ids
<1> QED BY <1>1, FS_Subset, TaskAssumption DEF UsedSlots, LiveCells, TypeOK

LEMMA CountForm ==
  /\ OnlyFailuresCostSlots
       <=> Cardinality(UsedSlots) = Cardinality(LiveCells) + Cardinality(failed)
  /\ OnlyFailuresCostSlots'
       <=> Cardinality(UsedSlots') = Cardinality(LiveCells') + Cardinality(failed')
BY DEF OnlyFailuresCostSlots, UsedSlots, LiveCells

LEMMA HandlesFind ==
  ASSUME Inv
  PROVE  HandlesFindTasks
<1> SUFFICES ASSUME NEW c \in Cells, NEW h \in held, task[c].id = h.id
             PROVE  table[h.handle] = c
  BY DEF HandlesFindTasks
<1>1. h.id # 0
  BY DEF Inv, TypeOK, Ids
<1>2. Slots(c) # {} /\ h.handle = Handle(c)
  BY <1>1 DEF Inv, IdsInv, SlotsInv
<1> QED BY <1>2, HandleFacts DEF Inv

-----------------------------------------------------------------------------
LEMMA InitInv == Init => Inv
<1> SUFFICES ASSUME Init PROVE Inv OBVIOUS
<1> USE TaskAssumption DEF Init, FreeTask, NoEvent
<1>1. TypeOK
  <2>1. task \in [Cells -> [state: {"FREE", "SCHEDULED", "RUNNING", "DELETABLE"},
                            repeats: BOOLEAN, id: Ids \cup {0}]]
    OBVIOUS
  <2>2. lock \in BOOLEAN /\ abort \in BOOLEAN /\ table \in [Handles -> Cells \cup {NoCell}]
    OBVIOUS
  <2>3. /\ events \in [Cells -> 0 .. 1] /\ arming \in [Threads -> Cells \cup {NoCell}]
        /\ dispatcher \in [at: {"idle", "wrapper", "callback"}, cell: Cells \cup {NoCell}]
    OBVIOUS
  <2> QED BY <2>1, <2>2, <2>3 DEF TypeOK
<1>2. IdsInv BY DEF IdsInv, Live
<1>3. SlotsInv BY DEF SlotsInv, Live
<1>4. OnlyFailuresCostSlots
  <2>1. UsedSlots = {} /\ LiveCells = {} /\ failed = {}
    BY DEF UsedSlots, LiveCells
  <2>2. Cardinality(UsedSlots) = 0 /\ Cardinality(LiveCells) = 0 /\ Cardinality(failed) = 0
    BY <2>1, FS_EmptySet
  <2> HIDE DEF Init
  <2> QED BY <2>2, CountForm
<1>5. EventsInv
  <2>1. \A c \in Cells : ~Armed(c) /\ ~Taken(c) BY DEF Armed, Taken
  <2> QED BY <2>1 DEF EventsInv, EventPlaced
<1>6. CancelInv BY DEF CancelInv
<1> QED BY <1>1, <1>2, <1>3, <1>4, <1>5, <1>6 DEF Inv

(* A task is registered in a slot that was empty, with an id never used.    *)
LEMMA RegisterStep ==
  ASSUME Inv, NEW t \in Threads, NEW repeats \in BOOLEAN, Register(t, repeats)
  PROVE  Inv'
<1> USE TaskAssumption DEF Inv
<1>1. PICK c \in Cells :
        /\ task[c].state = "FREE"
        /\ table' = [table EXCEPT ![FreeSlot] = c]
        /\ task' = [task EXCEPT ![c] = [state |-> "SCHEDULED", repeats |-> repeats, id |-> last + 1]]
        /\ arming' = [arming EXCEPT ![t] = c]
  BY DEF Register
<1>2. /\ last' = last + 1 /\ last < MaxTasks /\ ~abort /\ arming[t] = NoCell
      /\ UNCHANGED <<events, lock, dispatcher, held, cancelled, failed, abort>>
  BY DEF Register, Schedules, AppRuns
<1>3. FreeSlot \in Handles /\ table[FreeSlot] = NoCell
  BY HandleFacts DEF Register, FreeSlot
<1>4. last + 1 \in Ids /\ last \in Nat /\ last' \in Nat
  BY <1>2 DEF TypeOK, Ids
<1>5. TypeOK'
  BY <1>1, <1>2, <1>3, <1>4 DEF TypeOK
<1>6. /\ task'[c] = [state |-> "SCHEDULED", repeats |-> repeats, id |-> last + 1]
      /\ \A d \in Cells : d # c => task'[d] = task[d]
      /\ arming'[t] = c /\ \A u \in Threads : u # t => arming'[u] = arming[u]
  BY <1>1 DEF TypeOK
<1>7. \A d \in Cells : d # c => Slots(d)' = Slots(d) /\ Handle(d)' = Handle(d)
  BY <1>1, <1>3, OtherSlots
<1>8. IdsInv'
  <2>1. \A d \in Cells : task[d].id \in Nat /\ task[d].id < last + 1
    BY <1>4 DEF IdsInv, TypeOK, Ids
  <2>2. \A u \in Threads : arming[u] # NoCell => arming[u] \in Cells /\ arming[u] # c
    BY <1>1, <1>2 DEF EventsInv, EventPlaced, Armed, TypeOK
  <2>3. \A h \in held : h.id < last + 1 /\ h.id \in Nat
    BY <1>4 DEF IdsInv, TypeOK, Ids
  <2>4. \A id \in failed \cup cancelled : id \in Nat /\ id < last + 1
    BY <1>4 DEF IdsInv, TypeOK, Ids
  <2>5. \A d \in Cells : Live(d)' <=> task'[d].id # 0
    BY <1>4, <1>6 DEF IdsInv, Live
  <2>6. \A d \in Cells : task'[d].id <= last' /\ task'[d].id \notin failed'
    BY <1>2, <1>4, <1>6, <2>1, <2>4 DEF IdsInv
  <2>7. \A d, e \in Cells : task'[d].id = task'[e].id /\ Live(d)' => d = e
    BY <1>4, <1>6, <2>1 DEF IdsInv, Live
  <2>8. \A u \in Threads, h \in held' : arming'[u] # NoCell => task'[arming'[u]].id # h.id
    BY <1>2, <1>4, <1>6, <2>2, <2>3 DEF IdsInv
  <2> QED BY <1>2, <1>4, <2>3, <2>4, <2>5, <2>6, <2>7, <2>8 DEF IdsInv
<1>9. SlotsInv'
  <2>1. FreeSlot \in Slots(c)'
    BY <1>1, <1>3 DEF Slots, TypeOK
  <2>2. \A h \in held : task'[c].id # h.id
    BY <1>4, <1>6 DEF IdsInv, TypeOK, Ids
  <2> QED BY <1>2, <1>6, <1>7, <2>1, <2>2 DEF SlotsInv, Live
<1>10. OnlyFailuresCostSlots'
  <2>1. UsedSlots' = UsedSlots \cup {FreeSlot} /\ FreeSlot \notin UsedSlots
    BY <1>1, <1>3 DEF UsedSlots, TypeOK
  <2>2. LiveCells' = LiveCells \cup {c} /\ c \notin LiveCells
    BY <1>1, <1>6 DEF LiveCells
  <2>3. Cardinality(UsedSlots') = Cardinality(UsedSlots) + 1
    BY <2>1, FiniteCounts, FS_AddElement
  <2>4. Cardinality(LiveCells') = Cardinality(LiveCells) + 1
    BY <2>2, FiniteCounts, FS_AddElement
  <2>5. Cardinality(UsedSlots) \in Nat /\ Cardinality(LiveCells) \in Nat /\ Cardinality(failed) \in Nat
    BY FiniteCounts, FS_CardinalityType
  <2> QED BY <1>2, <2>3, <2>4, <2>5, CountForm
<1>11. EventsInv'
  <2>1. EventsInv BY <1>2
  <2>2. task[c].state = "FREE" /\ events[c] = 0 /\ ~Armed(c) /\ ~Taken(c)
    BY <1>1, <2>1 DEF EventsInv, EventPlaced
  <2>3. Armed(c)' BY <1>6 DEF Armed
  <2>4. \A d \in Cells : d # c => (Armed(d)' <=> Armed(d))
    BY <1>2, <1>6 DEF Armed
  <2>5. \A d \in Cells : Taken(d)' <=> Taken(d) BY <1>2 DEF Taken
  <2>6. \A u, v \in Threads : arming'[u] = arming'[v] /\ arming'[u] # NoCell => u = v
    BY <1>6, <2>1, <2>2 DEF EventsInv, EventPlaced, Armed
  <2>7. ASSUME NEW d \in Cells PROVE EventPlaced(d)'
    BY <1>2, <1>6, <2>1, <2>2, <2>3, <2>4, <2>5 DEF EventsInv, EventPlaced
  <2>8. \A d \in Cells : task'[d].state \in {"RUNNING", "DELETABLE"}
                        <=> dispatcher' = [at |-> "callback", cell |-> d]
    BY <1>2, <1>6, <2>1, <2>2 DEF EventsInv, EventPlaced
  <2>9. dispatcher'.at = "idle" <=> dispatcher'.cell = NoCell
    BY <1>2, <2>1 DEF EventsInv, EventPlaced
  <2> QED BY <2>6, <2>7, <2>8, <2>9 DEF EventsInv, EventPlaced
<1>12. CancelInv'
  BY <1>2, <1>4, <1>6 DEF CancelInv, IdsInv
<1> QED BY <1>5, <1>8, <1>9, <1>10, <1>11, <1>12

(* The table is full: nothing but the lock changes.                         *)
LEMMA TableFullStep ==
  ASSUME Inv, NEW t \in Threads, TableFull(t)
  PROVE  Inv'
<1> SUFFICES ASSUME lock' = TRUE,
                    UNCHANGED <<table, task, events, dispatcher, arming, held, cancelled,
                                last, failed, abort>>
             PROVE  Inv'
  BY DEF TableFull
<1>1. lock' \in BOOLEAN OBVIOUS
<1>2. TypeOK' BY <1>1 DEF Inv, TypeOK
<1>3. IdsInv' BY DEF Inv, IdsInv, Live
<1>4. SlotsInv' BY SameSlots DEF Inv, SlotsInv, Live
<1>5. OnlyFailuresCostSlots' BY DEF Inv, OnlyFailuresCostSlots
<1>6. ~abort' => EventsInv' BY DEF Inv, EventsInv, EventPlaced, Armed, Taken
<1>7. CancelInv' BY DEF Inv, CancelInv
<1> QED BY <1>2, <1>3, <1>4, <1>5, <1>6, <1>7 DEF Inv

(* The event of a registered task is added: it had none.  Its handle becomes *)
(* known.                                                                    *)
LEMMA ArmStep ==
  ASSUME Inv, NEW t \in Threads, Arm(t)
  PROVE  Inv'
<1> USE TaskAssumption DEF Inv
<1>0. PICK c \in Cells : arming[t] = c
  BY DEF Arm, TypeOK
<1> DEFINE new == [handle |-> Handle(c), id |-> task[c].id]
<1>1. c # NoCell /\ ~abort
  BY <1>0 DEF Arm
<1>2. /\ events' = [events EXCEPT ![c] = @ + 1]
      /\ held' = held \cup {new}
      /\ arming' = [arming EXCEPT ![t] = NoCell]
      /\ UNCHANGED <<table, task, lock, dispatcher, cancelled, last, failed, abort>>
  BY <1>0 DEF Arm, Returned
<1>3. EventsInv BY <1>1
<1>4. task[c].state = "SCHEDULED" /\ events[c] = 0 /\ Armed(c) /\ ~Taken(c)
  BY <1>0, <1>1, <1>3 DEF EventsInv, EventPlaced, Armed
<1>5. arming'[t] = NoCell /\ \A u \in Threads : u # t => arming'[u] = arming[u] /\ arming[u] # c
  BY <1>0, <1>1, <1>2, <1>3 DEF EventsInv, EventPlaced, TypeOK
<1>6. events'[c] = 1 /\ \A d \in Cells : d # c => events'[d] = events[d]
  BY <1>1, <1>2, <1>4 DEF TypeOK
<1>7. Live(c) /\ Slots(c) # {} /\ task[c].id \in Ids
  BY <1>1, <1>4 DEF Live, SlotsInv, IdsInv, TypeOK
<1>8. new \in [handle: Handles, id: Ids] /\ new.handle = Handle(c) /\ new.id = task[c].id
  BY <1>7, HandleFacts
<1> HIDE DEF new
<1>9. TypeOK'
  <2>1. events' \in [Cells -> 0 .. 1]
    BY <1>1, <1>2, <1>6 DEF TypeOK
  <2>2. arming' \in [Threads -> Cells \cup {NoCell}]
    BY <1>2 DEF TypeOK
  <2>3. held' \subseteq [handle: Handles, id: Ids]
    BY <1>2, <1>8 DEF TypeOK
  <2> QED BY <1>2, <2>1, <2>2, <2>3 DEF TypeOK
<1>10. IdsInv'
  <2>1. \A h \in held' : h.id <= last
    BY <1>1, <1>2, <1>8 DEF IdsInv
  <2>2. \A u \in Threads, h \in held' : arming'[u] # NoCell => task'[arming'[u]].id # h.id
    <3> SUFFICES ASSUME NEW u \in Threads, NEW h \in held', arming'[u] # NoCell
                 PROVE  task[arming[u]].id # h.id /\ arming'[u] = arming[u]
      BY <1>2
    <3>1. u # t /\ arming'[u] = arming[u] /\ arming[u] # c BY <1>5
    <3>2. arming[u] \in Cells BY <3>1 DEF TypeOK
    <3>3. CASE h \in held BY <3>1, <3>3 DEF IdsInv
    <3>4. CASE h = new
      BY <3>1, <3>2, <3>4, <1>1, <1>7, <1>8 DEF IdsInv
    <3> QED BY <3>1, <3>3, <3>4, <1>2
  <2> QED BY <1>2, <2>1, <2>2 DEF IdsInv, Live
<1>11. SlotsInv'
  <2>1. \A d \in Cells : Slots(d)' = Slots(d) /\ Handle(d)' = Handle(d)
    BY <1>2, SameSlots
  <2>2. \A d \in Cells : task[d].id = new.id => d = c
    BY <1>1, <1>7, <1>8 DEF IdsInv
  <2>3. ASSUME NEW d \in Cells, NEW h \in held', task'[d].id = h.id
        PROVE  h.handle = Handle(d)'
    <3>1. CASE h \in held BY <3>1, <2>1, <2>3, <1>2 DEF SlotsInv
    <3>2. CASE h = new BY <3>2, <2>1, <2>2, <2>3, <1>2, <1>8
    <3> QED BY <3>1, <3>2, <1>2
  <2> QED BY <1>2, <2>1, <2>3 DEF SlotsInv, Live
<1>12. OnlyFailuresCostSlots' BY <1>2 DEF OnlyFailuresCostSlots
<1>13. EventsInv'
  <2>1. ~Armed(c)' BY <1>1, <1>5 DEF Armed
  <2>2. \A d \in Cells : d # c => (Armed(d)' <=> Armed(d))
    <3> SUFFICES ASSUME NEW d \in Cells, d # c PROVE Armed(d)' <=> Armed(d) OBVIOUS
    <3>1. arming[t] # d /\ arming'[t] # d BY <1>0, <1>1, <1>5
    <3> QED BY <3>1, <1>5 DEF Armed
  <2>3. \A d \in Cells : Taken(d)' <=> Taken(d) BY <1>2 DEF Taken
  <2>4. \A u, v \in Threads : arming'[u] = arming'[v] /\ arming'[u] # NoCell => u = v
    BY <1>3, <1>5 DEF EventsInv, EventPlaced
  <2>5. ASSUME NEW d \in Cells PROVE EventPlaced(d)'
    <3>1. CASE d = c BY <3>1, <1>2, <1>4, <1>6, <2>1, <2>3 DEF EventPlaced
    <3>2. CASE d # c BY <3>2, <1>2, <1>3, <1>6, <2>2, <2>3 DEF EventsInv, EventPlaced
    <3> QED BY <3>1, <3>2
  <2> QED BY <1>2, <1>3, <2>4, <2>5 DEF EventsInv, EventPlaced
<1>14. CancelInv' BY <1>2 DEF CancelInv
<1> QED BY <1>9, <1>10, <1>11, <1>12, <1>13, <1>14

(* A task that cannot be armed is freed; its slot is charged to the failure. *)
LEMMA ArmFailsStep ==
  ASSUME Inv, NEW t \in Threads, ArmFails(t)
  PROVE  Inv'
<1> USE TaskAssumption DEF Inv
<1>0. PICK c \in Cells : arming[t] = c
  BY DEF ArmFails, TypeOK
<1>1. c # NoCell /\ ~abort
  BY <1>0 DEF ArmFails
<1>2. /\ failed' = failed \cup {task[c].id}
      /\ task' = [task EXCEPT ![c] = FreeTask]
      /\ arming' = [arming EXCEPT ![t] = NoCell]
      /\ UNCHANGED <<table, events, lock, dispatcher, held, cancelled, last, abort>>
  BY <1>0 DEF ArmFails
<1>3. EventsInv BY <1>1
<1>4. task[c].state = "SCHEDULED" /\ events[c] = 0 /\ Armed(c) /\ ~Taken(c)
  BY <1>0, <1>1, <1>3 DEF EventsInv, EventPlaced, Armed
<1>5. arming'[t] = NoCell /\ \A u \in Threads : u # t => arming'[u] = arming[u] /\ arming[u] # c
  BY <1>0, <1>1, <1>2, <1>3 DEF EventsInv, EventPlaced, TypeOK
<1>6. task'[c] = FreeTask /\ \A d \in Cells : d # c => task'[d] = task[d]
  BY <1>2 DEF TypeOK
<1>7. Live(c) /\ task[c].id \in Ids
  BY <1>4 DEF Live, IdsInv, TypeOK
<1>8. TypeOK'
  <2>1. task' \in [Cells -> [state: {"FREE", "SCHEDULED", "RUNNING", "DELETABLE"},
                             repeats: BOOLEAN, id: Ids \cup {0}]]
    BY <1>2 DEF FreeTask, TypeOK
  <2>2. arming' \in [Threads -> Cells \cup {NoCell}]
    BY <1>2 DEF TypeOK
  <2> QED BY <1>2, <1>7, <2>1, <2>2 DEF TypeOK
<1>9. IdsInv'
  <2>1. 0 \notin failed' /\ task[c].id # 0
    BY <1>2, <1>7 DEF TypeOK, Ids
  <2>2. \A d \in Cells : d # c => task[d].id # task[c].id
    BY <1>7 DEF IdsInv
  <2>3. \A d \in Cells : task'[d].id <= last /\ task'[d].id \notin failed'
    BY <1>2, <1>6, <2>1, <2>2 DEF IdsInv, FreeTask, TypeOK, Ids
  <2>4. \A d \in Cells : Live(d)' <=> task'[d].id # 0
    BY <1>6 DEF IdsInv, Live, FreeTask
  <2>5. \A d, e \in Cells : task'[d].id = task'[e].id /\ Live(d)' => d = e
    BY <1>6, <2>4 DEF IdsInv, Live, FreeTask
  <2>6. \A u \in Threads, h \in held' : arming'[u] # NoCell => task'[arming'[u]].id # h.id
    BY <1>2, <1>5, <1>6 DEF IdsInv, TypeOK
  <2>7. \A id \in failed' \cup cancelled' : id <= last'
    BY <1>2 DEF IdsInv
  <2> QED BY <1>2, <2>3, <2>4, <2>5, <2>6, <2>7 DEF IdsInv
<1>10. SlotsInv'
  <2>1. \A d \in Cells : Slots(d)' = Slots(d) /\ Handle(d)' = Handle(d)
    BY <1>2, SameSlots
  <2>2. \A h \in held : h.id # 0
    BY DEF TypeOK, Ids
  <2> QED BY <1>2, <1>6, <2>1, <2>2 DEF SlotsInv, Live, FreeTask
<1>11. OnlyFailuresCostSlots'
  <2>1. LiveCells' = LiveCells \ {c} /\ c \in LiveCells
    BY <1>4, <1>6 DEF LiveCells, FreeTask
  <2>2. task[c].id \notin failed
    BY DEF IdsInv
  <2>3. Cardinality(LiveCells') = Cardinality(LiveCells) - 1
    BY <2>1, FiniteCounts, FS_RemoveElement
  <2>4. Cardinality(failed') = Cardinality(failed) + 1
    BY <1>2, <2>2, FiniteCounts, FS_AddElement
  <2>5. Cardinality(UsedSlots) \in Nat /\ Cardinality(LiveCells) \in Nat /\ Cardinality(failed) \in Nat
    BY FiniteCounts, FS_CardinalityType
  <2>6. UsedSlots' = UsedSlots BY <1>2 DEF UsedSlots
  <2> QED BY <2>3, <2>4, <2>5, <2>6, CountForm
<1>12. EventsInv'
  <2>1. ~Armed(c)' BY <1>1, <1>5 DEF Armed
  <2>2. \A d \in Cells : d # c => (Armed(d)' <=> Armed(d))
    <3> SUFFICES ASSUME NEW d \in Cells, d # c PROVE Armed(d)' <=> Armed(d) OBVIOUS
    <3>1. arming[t] # d /\ arming'[t] # d BY <1>0, <1>1, <1>5
    <3> QED BY <3>1, <1>5 DEF Armed
  <2>3. \A d \in Cells : Taken(d)' <=> Taken(d) BY <1>2 DEF Taken
  <2>4. \A u, v \in Threads : arming'[u] = arming'[v] /\ arming'[u] # NoCell => u = v
    BY <1>3, <1>5 DEF EventsInv, EventPlaced
  <2>5. ASSUME NEW d \in Cells PROVE EventPlaced(d)'
    <3>1. CASE d = c BY <3>1, <1>2, <1>4, <1>6, <2>1, <2>3 DEF FreeTask, EventPlaced
    <3>2. CASE d # c BY <3>2, <1>2, <1>3, <1>6, <2>2, <2>3 DEF EventsInv, EventPlaced
    <3> QED BY <3>1, <3>2
  <2>6. \A d \in Cells : task'[d].state \in {"RUNNING", "DELETABLE"}
                        <=> dispatcher' = [at |-> "callback", cell |-> d]
    BY <1>2, <1>3, <1>4, <1>6 DEF EventsInv, EventPlaced, FreeTask
  <2> QED BY <1>2, <1>3, <2>4, <2>5, <2>6 DEF EventsInv, EventPlaced
<1>13. CancelInv' BY <1>2, <1>6 DEF CancelInv, FreeTask
<1> QED BY <1>8, <1>9, <1>10, <1>11, <1>12, <1>13

(* What freeing a task's memory and clearing its slot preserves.            *)
LEMMA DeleteFacts ==
  ASSUME Inv, NEW c \in Cells, Live(c), Delete(c), UNCHANGED <<failed, last>>,
         held' \subseteq held
  PROVE  /\ table' \in [Handles -> Cells \cup {NoCell}]
         /\ task' \in [Cells -> [state: {"FREE", "SCHEDULED", "RUNNING", "DELETABLE"},
                                 repeats: BOOLEAN, id: Ids \cup {0}]]
         /\ task'[c] = FreeTask /\ \A d \in Cells : d # c => task'[d] = task[d]
         /\ SlotsInv' /\ OnlyFailuresCostSlots'
         /\ \A d \in Cells : Live(d)' <=> task'[d].id # 0
         /\ \A d \in Cells : task'[d].id <= last' /\ task'[d].id \notin failed'
         /\ \A d, e \in Cells : task'[d].id = task'[e].id /\ Live(d)' => d = e
<1> USE TaskAssumption DEF Inv
<1>1. Handle(c) \in Handles /\ table[Handle(c)] = c /\ c # NoCell
  BY HandleFacts DEF SlotsInv
<1>2. PICK i \in Handles : i = Handle(c) BY <1>1
<1>3. table[i] = c /\ table' = [table EXCEPT ![i] = NoCell] /\ task' = [task EXCEPT ![c] = FreeTask]
  BY <1>1, <1>2 DEF Delete
<1>4. /\ table' \in [Handles -> Cells \cup {NoCell}]
      /\ task' \in [Cells -> [state: {"FREE", "SCHEDULED", "RUNNING", "DELETABLE"},
                              repeats: BOOLEAN, id: Ids \cup {0}]]
  BY <1>3 DEF TypeOK, FreeTask
<1>5. task'[c] = FreeTask /\ \A d \in Cells : d # c => task'[d] = task[d]
  BY <1>3 DEF TypeOK
<1>6. \A d \in Cells : d # c => Slots(d)' = Slots(d) /\ Handle(d)' = Handle(d)
  BY <1>1, <1>3, OtherSlots
<1>7. SlotsInv'
  <2>1. \A h \in held : h.id # 0
    BY DEF TypeOK, Ids
  <2> QED BY <1>5, <1>6, <2>1 DEF SlotsInv, Live, FreeTask
<1>8. OnlyFailuresCostSlots'
  <2>1. LiveCells' = LiveCells \ {c} /\ c \in LiveCells
    BY <1>5 DEF Live, LiveCells, FreeTask
  <2>2. UsedSlots' = UsedSlots \ {i} /\ i \in UsedSlots
    BY <1>1, <1>3 DEF UsedSlots, TypeOK
  <2>3. Cardinality(LiveCells') = Cardinality(LiveCells) - 1
    BY <2>1, FiniteCounts, FS_RemoveElement
  <2>4. Cardinality(UsedSlots') = Cardinality(UsedSlots) - 1
    BY <2>2, FiniteCounts, FS_RemoveElement
  <2>5. Cardinality(UsedSlots) \in Nat /\ Cardinality(LiveCells) \in Nat /\ Cardinality(failed) \in Nat
    BY FiniteCounts, FS_CardinalityType
  <2> QED BY <2>3, <2>4, <2>5, CountForm
<1>9. \A d \in Cells : Live(d)' <=> task'[d].id # 0
  BY <1>5 DEF IdsInv, Live, FreeTask
<1>10. 0 \notin failed /\ last \in Nat
  BY DEF TypeOK, Ids
<1>11. \A d \in Cells : task'[d].id <= last' /\ task'[d].id \notin failed'
  BY <1>5, <1>10 DEF IdsInv, FreeTask
<1>12. \A d, e \in Cells : task'[d].id = task'[e].id /\ Live(d)' => d = e
  BY <1>5, <1>9 DEF IdsInv, Live, FreeTask
<1> QED BY <1>4, <1>5, <1>7, <1>8, <1>9, <1>11, <1>12

(* A cancellation finds the task it names; a task waiting for its event is   *)
(* freed with it, the running one is marked.                                 *)
LEMMA CancelStep ==
  ASSUME Inv, NEW t \in Threads, NEW h \in held, Cancel(t, h)
  PROVE  Inv'
<1> USE TaskAssumption DEF Inv
<1>1. PICK c \in Cells : task[c].id = h.id
  BY DEF Cancel
<1>2. h.id \in Ids /\ h.id # 0 /\ Live(c) /\ c # NoCell /\ h.id <= last
  BY <1>1 DEF TypeOK, Ids, IdsInv
<1>3. table[h.handle] = c
  BY <1>1, HandlesFind DEF HandlesFindTasks
<1>4. /\ ~abort /\ held' = held \ {h} /\ cancelled' = cancelled \cup {h.id}
      /\ UNCHANGED <<lock, dispatcher, arming, last, failed>>
  BY DEF Cancel, AppRuns
<1>5. EventsInv BY <1>4
<1>6. \A u \in Threads : arming[u] # c
  BY <1>1, <1>2 DEF IdsInv
<1>7. ~Armed(c) BY <1>6 DEF Armed
<1>8. \A d \in Cells : (Armed(d)' <=> Armed(d)) /\ (Taken(d)' <=> Taken(d))
  BY <1>4 DEF Armed, Taken
<1>9. CASE task[c].state = "DELETABLE" /\ UNCHANGED <<table, task, events, abort>>
  <2>1. TypeOK' BY <1>2, <1>4, <1>9 DEF TypeOK
  <2>2. IdsInv' BY <1>2, <1>4, <1>9 DEF IdsInv, Live
  <2>3. SlotsInv' BY <1>4, <1>9, SameSlots DEF SlotsInv, Live
  <2>4. OnlyFailuresCostSlots' BY <1>4, <1>9 DEF OnlyFailuresCostSlots
  <2>5. EventsInv' BY <1>4, <1>5, <1>8, <1>9 DEF EventsInv, EventPlaced
  <2>6. \A d \in Cells : d # c => task[d].id # h.id
    BY <1>1, <1>2 DEF IdsInv
  <2>7. CancelInv' BY <1>4, <1>9, <2>6 DEF CancelInv
  <2> QED BY <2>1, <2>2, <2>3, <2>4, <2>5, <2>7
<1>10. CASE /\ task[c].state = "SCHEDULED"
            /\ abort' = (events[c] = 0)
            /\ events' = [events EXCEPT ![c] = IF @ = 0 THEN 0 ELSE @ - 1]
            /\ Delete(c)
  <2>0. held' \subseteq held /\ UNCHANGED <<failed, last>> BY <1>4
  <2>1. /\ table' \in [Handles -> Cells \cup {NoCell}]
        /\ task' \in [Cells -> [state: {"FREE", "SCHEDULED", "RUNNING", "DELETABLE"},
                                repeats: BOOLEAN, id: Ids \cup {0}]]
        /\ task'[c] = FreeTask /\ \A d \in Cells : d # c => task'[d] = task[d]
        /\ SlotsInv' /\ OnlyFailuresCostSlots'
        /\ \A d \in Cells : Live(d)' <=> task'[d].id # 0
        /\ \A d \in Cells : task'[d].id <= last' /\ task'[d].id \notin failed'
        /\ \A d, e \in Cells : task'[d].id = task'[e].id /\ Live(d)' => d = e
    BY <1>2, <1>10, <2>0, DeleteFacts
  <2>2. events'[c] = 0 /\ events[c] \in 0 .. 1 /\ \A d \in Cells : d # c => events'[d] = events[d]
    BY <1>10 DEF TypeOK
  <2>3. events' \in [Cells -> 0 .. 1] BY <1>10 DEF TypeOK
  <2>4. abort' \in BOOLEAN BY <1>10
  <2>5. TypeOK' BY <1>2, <1>4, <2>1, <2>3, <2>4 DEF TypeOK
  <2>6. IdsInv'
    <3>1. \A u \in Threads, g \in held' : arming'[u] # NoCell => task'[arming'[u]].id # g.id
      BY <1>4, <1>6, <2>1 DEF IdsInv, TypeOK
    <3> QED BY <1>2, <1>4, <2>1, <3>1 DEF IdsInv
  <2>7. ~abort' => EventsInv'
    <3> SUFFICES ASSUME ~abort' PROVE EventsInv' OBVIOUS
    <3>1. events[c] = 1 /\ ~Taken(c) BY <1>10, <2>2, <1>5 DEF EventsInv, EventPlaced
    <3>2. ASSUME NEW d \in Cells PROVE EventPlaced(d)'
      <4>1. CASE d = c BY <4>1, <3>1, <1>7, <1>8, <2>1, <2>2 DEF FreeTask, EventPlaced
      <4>2. CASE d # c BY <4>2, <1>5, <1>8, <2>1, <2>2 DEF EventsInv, EventPlaced
      <4> QED BY <4>1, <4>2
    <3>3. \A d \in Cells : task'[d].state \in {"RUNNING", "DELETABLE"}
                          <=> dispatcher' = [at |-> "callback", cell |-> d]
      BY <1>4, <1>5, <1>10, <2>1 DEF EventsInv, EventPlaced, FreeTask
    <3> QED BY <1>4, <1>5, <3>2, <3>3 DEF EventsInv, EventPlaced
  <2>8. CancelInv'
    <3>1. \A d \in Cells : d # c => task[d].id # h.id
      BY <1>1, <1>2 DEF IdsInv
    <3> QED BY <1>4, <2>1, <3>1 DEF CancelInv, FreeTask
  <2> QED BY <2>1, <2>5, <2>6, <2>7, <2>8
<1>11. CASE /\ task[c].state = "RUNNING"
            /\ task' = [task EXCEPT ![c].state = "DELETABLE"]
            /\ UNCHANGED <<table, events, abort>>
  <2>1. /\ task'[c].state = "DELETABLE" /\ task'[c].id = task[c].id
        /\ \A d \in Cells : d # c => task'[d] = task[d]
    BY <1>11 DEF TypeOK
  <2>2. task' \in [Cells -> [state: {"FREE", "SCHEDULED", "RUNNING", "DELETABLE"},
                             repeats: BOOLEAN, id: Ids \cup {0}]]
    BY <1>11 DEF TypeOK
  <2>3. TypeOK' BY <1>2, <1>4, <1>11, <2>2 DEF TypeOK
  <2>4. \A d \in Cells : (Live(d)' <=> Live(d)) /\ task'[d].id = task[d].id
    BY <1>2, <2>1 DEF Live
  <2>5. IdsInv'
    <3>1. \A u \in Threads, g \in held' : arming'[u] # NoCell => task'[arming'[u]].id # g.id
      BY <1>4, <2>4 DEF IdsInv, TypeOK
    <3> QED BY <1>2, <1>4, <2>4, <3>1 DEF IdsInv
  <2>6. SlotsInv' BY <1>4, <1>11, <2>4, SameSlots DEF SlotsInv
  <2>7. OnlyFailuresCostSlots'
    <3>1. LiveCells' = LiveCells /\ UsedSlots' = UsedSlots
      BY <1>11, <2>1 DEF LiveCells, UsedSlots
    <3> QED BY <1>4, <3>1, CountForm
  <2>8. EventsInv'
    <3>1. ASSUME NEW d \in Cells PROVE EventPlaced(d)'
      BY <1>5, <1>8, <1>11, <2>1 DEF EventsInv, EventPlaced
    <3>2. \A d \in Cells : task'[d].state \in {"RUNNING", "DELETABLE"}
                          <=> dispatcher' = [at |-> "callback", cell |-> d]
      BY <1>4, <1>5, <1>11, <2>1 DEF EventsInv, EventPlaced
    <3> QED BY <1>4, <1>5, <3>1, <3>2 DEF EventsInv, EventPlaced
  <2>9. CancelInv'
    <3>1. \A d \in Cells : d # c => task[d].id # h.id
      BY <1>1, <1>2 DEF IdsInv
    <3> QED BY <1>4, <2>1, <3>1 DEF CancelInv
  <2> QED BY <2>3, <2>5, <2>6, <2>7, <2>8, <2>9
<1> QED BY <1>2, <1>3, <1>9, <1>10, <1>11 DEF Cancel

(* The event of a task is taken out of the container.                       *)
LEMMA TakeStep ==
  ASSUME Inv, NEW c \in Cells, Take(c)
  PROVE  Inv'
<1> USE TaskAssumption DEF Inv
<1>1. /\ ~abort /\ dispatcher.at = "idle" /\ events[c] > 0
      /\ events' = [events EXCEPT ![c] = @ - 1]
      /\ dispatcher' = [at |-> "wrapper", cell |-> c]
      /\ UNCHANGED <<table, task, lock, arming, held, cancelled, last, failed, abort>>
  BY DEF Take, MainRuns
<1>2. EventsInv BY <1>1
<1>3. events[c] = 1 /\ events'[c] = 0 /\ \A d \in Cells : d # c => events'[d] = events[d]
  BY <1>1 DEF TypeOK
<1>4. task[c].state = "SCHEDULED" /\ ~Armed(c)
  BY <1>2, <1>3 DEF EventsInv, EventPlaced
<1>5. c # NoCell OBVIOUS
<1>6. TypeOK' BY <1>1, <1>3 DEF TypeOK
<1>7. IdsInv' BY <1>1 DEF IdsInv, Live
<1>8. SlotsInv' BY <1>1, SameSlots DEF SlotsInv, Live
<1>9. OnlyFailuresCostSlots' BY <1>1 DEF OnlyFailuresCostSlots
<1>10. EventsInv'
  <2>1. \A d \in Cells : Armed(d)' <=> Armed(d) BY <1>1 DEF Armed
  <2>2. Taken(c)' /\ \A d \in Cells : d # c => ~Taken(d)' BY <1>1 DEF Taken
  <2>3. \A d \in Cells : ~Taken(d) BY <1>1 DEF Taken
  <2>4. ASSUME NEW d \in Cells PROVE EventPlaced(d)'
    <3>1. CASE d = c BY <3>1, <1>1, <1>3, <1>4, <2>1, <2>2 DEF EventPlaced
    <3>2. CASE d # c BY <3>2, <1>1, <1>2, <1>3, <2>1, <2>2, <2>3 DEF EventsInv, EventPlaced
    <3> QED BY <3>1, <3>2
  <2>5. \A d \in Cells : task'[d].state \in {"RUNNING", "DELETABLE"}
                           <=> dispatcher' = [at |-> "callback", cell |-> d]
    BY <1>1, <1>2 DEF EventsInv
  <2> QED BY <1>1, <1>2, <1>5, <2>4, <2>5 DEF EventsInv
<1>11. CancelInv' BY <1>1 DEF CancelInv
<1> QED BY <1>6, <1>7, <1>8, <1>9, <1>10, <1>11

(* The task whose event was taken is scheduled, and runs now.                *)
LEMMA EnterFacts ==
  ASSUME Inv, Enter
  PROVE  \E c \in Cells :
           /\ dispatcher = [at |-> "wrapper", cell |-> c]
           /\ task[c].state = "SCHEDULED" /\ ~Armed(c) /\ events[c] = 0 /\ ~abort
           /\ task' = [task EXCEPT ![c].state = "RUNNING"]
           /\ dispatcher' = [at |-> "callback", cell |-> c]
           /\ UNCHANGED <<table, events, lock, arming, held, cancelled, last, failed, abort>>
<1> USE TaskAssumption DEF Inv
<1>1. /\ ~abort /\ dispatcher.at = "wrapper" /\ EventsInv
      /\ UNCHANGED <<table, events, lock, arming, held, cancelled, last, failed, abort>>
  BY DEF Enter, MainRuns
<1>2. PICK c \in Cells : dispatcher = [at |-> "wrapper", cell |-> c]
  BY <1>1 DEF EventsInv, TypeOK
<1>3. task[c].state = "SCHEDULED" /\ ~Armed(c) /\ events[c] = 0
  BY <1>1, <1>2 DEF EventsInv, EventPlaced, Taken
<1>4. Slots(c) # {} BY <1>3 DEF SlotsInv, Live
<1>5. /\ task' = [task EXCEPT ![c].state = "RUNNING"]
      /\ dispatcher' = [at |-> "callback", cell |-> c]
  BY <1>2, <1>4 DEF Enter
<1> QED BY <1>1, <1>2, <1>3, <1>5

LEMMA EnterStep ==
  ASSUME Inv, Enter
  PROVE  Inv'
<1> USE TaskAssumption DEF Inv
<1>1. PICK c \in Cells :
        /\ dispatcher = [at |-> "wrapper", cell |-> c]
        /\ task[c].state = "SCHEDULED" /\ ~Armed(c) /\ events[c] = 0 /\ ~abort
        /\ task' = [task EXCEPT ![c].state = "RUNNING"]
        /\ dispatcher' = [at |-> "callback", cell |-> c]
        /\ UNCHANGED <<table, events, lock, arming, held, cancelled, last, failed, abort>>
  BY EnterFacts
<1>2. EventsInv BY <1>1
<1>3. /\ task'[c].state = "RUNNING" /\ task'[c].id = task[c].id
      /\ \A d \in Cells : d # c => task'[d] = task[d]
  BY <1>1 DEF TypeOK
<1>4. \A d \in Cells : (Live(d)' <=> Live(d)) /\ task'[d].id = task[d].id
  BY <1>1, <1>3 DEF Live
<1>5. TypeOK'
  <2>1. task' \in [Cells -> [state: {"FREE", "SCHEDULED", "RUNNING", "DELETABLE"},
                             repeats: BOOLEAN, id: Ids \cup {0}]]
    BY <1>1 DEF TypeOK
  <2> QED BY <1>1, <2>1 DEF TypeOK
<1>6. IdsInv'
  <2>1. \A u \in Threads, g \in held' : arming'[u] # NoCell => task'[arming'[u]].id # g.id
    BY <1>1, <1>4 DEF IdsInv, TypeOK
  <2> QED BY <1>1, <1>4, <2>1 DEF IdsInv
<1>7. SlotsInv' BY <1>1, <1>4, SameSlots DEF SlotsInv
<1>8. OnlyFailuresCostSlots'
  <2>1. LiveCells' = LiveCells /\ UsedSlots' = UsedSlots
    BY <1>1, <1>3 DEF LiveCells, UsedSlots
  <2> QED BY <1>1, <2>1, CountForm
<1>9. EventsInv'
  <2>1. \A d \in Cells : (Armed(d)' <=> Armed(d)) /\ ~Taken(d)' /\ (Taken(d) <=> d = c)
    BY <1>1 DEF Armed, Taken
  <2>2. ASSUME NEW d \in Cells PROVE EventPlaced(d)'
    <3>1. CASE d = c BY <3>1, <1>1, <1>3, <2>1 DEF EventPlaced
    <3>2. CASE d # c BY <3>2, <1>1, <1>2, <1>3, <2>1 DEF EventsInv, EventPlaced
    <3> QED BY <3>1, <3>2
  <2>3. \A d \in Cells : task'[d].state \in {"RUNNING", "DELETABLE"}
                           <=> dispatcher' = [at |-> "callback", cell |-> d]
    BY <1>1, <1>2, <1>3 DEF EventsInv
  <2> QED BY <1>1, <1>2, <2>2, <2>3 DEF EventsInv
<1>10. CancelInv' BY <1>1, <1>3 DEF CancelInv
<1> QED BY <1>5, <1>6, <1>7, <1>8, <1>9, <1>10

(* The callback has returned: its task ends, or waits for its next event.    *)
LEMMA LeaveStep ==
  ASSUME Inv, Leave
  PROVE  Inv'
<1> USE TaskAssumption DEF Inv
<1>1. /\ ~abort /\ dispatcher.at = "callback" /\ dispatcher' = NoEvent
      /\ UNCHANGED <<lock, arming, held, cancelled, last, failed, abort>>
  BY DEF Leave, MainRuns
<1>2. EventsInv BY <1>1
<1>3. PICK c \in Cells : dispatcher = [at |-> "callback", cell |-> c]
  BY <1>1, <1>2 DEF EventsInv, TypeOK
<1>4. task[c].state \in {"RUNNING", "DELETABLE"} /\ events[c] = 0 /\ ~Armed(c) /\ Live(c)
  BY <1>2, <1>3 DEF EventsInv, EventPlaced, Live
<1>5. \A d \in Cells : d # c => task[d].state \in {"FREE", "SCHEDULED"}
  BY <1>2, <1>3 DEF EventsInv, TypeOK
<1>6. \A d \in Cells : (Armed(d)' <=> Armed(d)) /\ ~Taken(d)' /\ ~Taken(d)
  BY <1>1, <1>3 DEF Armed, Taken, NoEvent
<1>7. \A u \in Threads : arming[u] # c
  BY <1>4 DEF Armed
<1>8. CASE Delete(c) /\ UNCHANGED events
  <2>0. held' \subseteq held /\ UNCHANGED <<failed, last>> BY <1>1
  <2>1. /\ table' \in [Handles -> Cells \cup {NoCell}]
        /\ task' \in [Cells -> [state: {"FREE", "SCHEDULED", "RUNNING", "DELETABLE"},
                                repeats: BOOLEAN, id: Ids \cup {0}]]
        /\ task'[c] = FreeTask /\ \A d \in Cells : d # c => task'[d] = task[d]
        /\ SlotsInv' /\ OnlyFailuresCostSlots'
        /\ \A d \in Cells : Live(d)' <=> task'[d].id # 0
        /\ \A d \in Cells : task'[d].id <= last' /\ task'[d].id \notin failed'
        /\ \A d, e \in Cells : task'[d].id = task'[e].id /\ Live(d)' => d = e
    BY <1>4, <1>8, <2>0, DeleteFacts
  <2>2. dispatcher' \in [at: {"idle", "wrapper", "callback"}, cell: Cells \cup {NoCell}]
    BY <1>1 DEF NoEvent
  <2>3. TypeOK' BY <1>1, <1>8, <2>1, <2>2 DEF TypeOK
  <2>4. IdsInv'
    <3>1. \A u \in Threads, g \in held' : arming'[u] # NoCell => task'[arming'[u]].id # g.id
      BY <1>1, <1>7, <2>1 DEF IdsInv, TypeOK
    <3> QED BY <1>1, <2>1, <3>1 DEF IdsInv
  <2>5. EventsInv'
    <3>1. ASSUME NEW d \in Cells PROVE EventPlaced(d)'
      <4>1. CASE d = c BY <4>1, <1>4, <1>6, <1>8, <2>1 DEF FreeTask, EventPlaced
      <4>2. CASE d # c BY <4>2, <1>2, <1>6, <1>8, <2>1 DEF EventsInv, EventPlaced
      <4> QED BY <4>1, <4>2
    <3>2. \A d \in Cells : task'[d].state \notin {"RUNNING", "DELETABLE"}
      BY <1>5, <2>1 DEF FreeTask
    <3> QED BY <1>1, <1>2, <3>1, <3>2 DEF EventsInv, NoEvent
  <2>6. CancelInv' BY <1>1, <2>1 DEF CancelInv, FreeTask
  <2> QED BY <2>1, <2>3, <2>4, <2>5, <2>6
<1>9. CASE /\ ~Ends(c) /\ Rearm(c) /\ UNCHANGED table
           /\ task' = [task EXCEPT ![c].state = "SCHEDULED"]
  <2>1. /\ task'[c].state = "SCHEDULED" /\ task'[c].id = task[c].id
        /\ \A d \in Cells : d # c => task'[d] = task[d]
    BY <1>9 DEF TypeOK
  <2>2. events'[c] = 1 /\ \A d \in Cells : d # c => events'[d] = events[d]
    BY <1>4, <1>9 DEF Rearm, TypeOK
  <2>3. TypeOK'
    <3>1. task' \in [Cells -> [state: {"FREE", "SCHEDULED", "RUNNING", "DELETABLE"},
                               repeats: BOOLEAN, id: Ids \cup {0}]]
      BY <1>9 DEF TypeOK
    <3>2. events' \in [Cells -> 0 .. 1] BY <1>4, <1>9 DEF Rearm, TypeOK
    <3>3. dispatcher' \in [at: {"idle", "wrapper", "callback"}, cell: Cells \cup {NoCell}]
      BY <1>1 DEF NoEvent
    <3> QED BY <1>1, <1>9, <3>1, <3>2, <3>3 DEF TypeOK
  <2>4. \A d \in Cells : (Live(d)' <=> Live(d)) /\ task'[d].id = task[d].id
    BY <1>4, <2>1 DEF Live
  <2>5. IdsInv'
    <3>1. \A u \in Threads, g \in held' : arming'[u] # NoCell => task'[arming'[u]].id # g.id
      BY <1>1, <2>4 DEF IdsInv, TypeOK
    <3> QED BY <1>1, <2>4, <3>1 DEF IdsInv
  <2>6. SlotsInv' BY <1>1, <1>9, <2>4, SameSlots DEF SlotsInv
  <2>7. OnlyFailuresCostSlots'
    <3>1. LiveCells' = LiveCells /\ UsedSlots' = UsedSlots
      BY <1>4, <1>9, <2>1 DEF Live, LiveCells, UsedSlots
    <3> QED BY <1>1, <3>1, CountForm
  <2>8. EventsInv'
    <3>1. ASSUME NEW d \in Cells PROVE EventPlaced(d)'
      <4>1. CASE d = c BY <4>1, <1>4, <1>6, <2>1, <2>2 DEF EventPlaced
      <4>2. CASE d # c BY <4>2, <1>2, <1>6, <2>1, <2>2 DEF EventsInv, EventPlaced
      <4> QED BY <4>1, <4>2
    <3>2. \A d \in Cells : task'[d].state \notin {"RUNNING", "DELETABLE"}
      BY <1>5, <2>1
    <3> QED BY <1>1, <1>2, <3>1, <3>2 DEF EventsInv, NoEvent
  <2>9. task[c].state = "RUNNING" BY <1>4, <1>9 DEF Ends
  <2>10. CancelInv' BY <1>1, <2>1, <2>9 DEF CancelInv
  <2> QED BY <2>3, <2>5, <2>6, <2>7, <2>8, <2>10
<1> QED BY <1>3, <1>8, <1>9 DEF Leave

-----------------------------------------------------------------------------
LEMMA InvStep == Inv /\ [Next]_vars => Inv'
<1> SUFFICES ASSUME Inv, [Next]_vars PROVE Inv' OBVIOUS
<1>1. CASE UNCHANGED vars
  <2> USE <1>1 DEF vars
  <2>1. TypeOK' /\ IdsInv' BY DEF Inv, TypeOK, IdsInv, Live
  <2>2. SlotsInv' BY SameSlots DEF Inv, SlotsInv, Live
  <2>3. OnlyFailuresCostSlots' BY DEF Inv, OnlyFailuresCostSlots
  <2>4. ~abort' => EventsInv' BY DEF Inv, EventsInv, EventPlaced, Armed, Taken
  <2>5. CancelInv' BY DEF Inv, CancelInv
  <2> QED BY <2>1, <2>2, <2>3, <2>4, <2>5 DEF Inv
<1>2. ASSUME NEW c \in Cells, Take(c) PROVE Inv' BY <1>2, TakeStep
<1>3. CASE Enter BY <1>3, EnterStep
<1>4. CASE Leave BY <1>4, LeaveStep
<1>5. ASSUME NEW t \in Threads, NEW repeats \in BOOLEAN, Register(t, repeats) PROVE Inv'
  BY <1>5, RegisterStep
<1>6. ASSUME NEW t \in Threads, TableFull(t) PROVE Inv' BY <1>6, TableFullStep
<1>7. ASSUME NEW t \in Threads, Arm(t) PROVE Inv' BY <1>7, ArmStep
<1>8. ASSUME NEW t \in Threads, ArmFails(t) PROVE Inv' BY <1>8, ArmFailsStep
<1>9. ASSUME NEW t \in Threads, NEW h \in held, Cancel(t, h) PROVE Inv' BY <1>9, CancelStep
<1> QED BY <1>1, <1>2, <1>3, <1>4, <1>5, <1>6, <1>7, <1>8, <1>9 DEF Next, Dispatch

LEMMA InvAlways == Spec => []Inv
<1>1. Init => Inv BY InitInv
<1>2. Inv /\ [Next]_vars => Inv' BY InvStep
<1> QED BY <1>1, <1>2, PTL DEF Spec

(* Whoever schedules and cancels tasks, from whichever thread: the handle an *)
(* application holds for a task leads to that task as long as it exists, and *)
(* the slots of the table (xi_handle.c) are given back but for those of      *)
(* tasks that could not be armed.                                            *)
THEOREM TableAlwaysRight == Spec => []TableInv
<1>1. Inv => TableInv BY HandlesFind DEF Inv, TableInv
<1> QED BY <1>1, InvAlways, PTL

(* The id of a task does not change before the task is freed.               *)
LEMMA IdsStay ==
  ASSUME Inv, [Next]_vars, NEW c \in Cells, Live(c)
  PROVE  task'[c].id \in {0, task[c].id}
<1> USE DEF Inv, TypeOK
<1>1. CASE UNCHANGED task BY <1>1
<1>2. ASSUME NEW d \in Cells, task' = [task EXCEPT ![d] = FreeTask]
      PROVE  task'[c].id \in {0, task[c].id}
  BY <1>2 DEF FreeTask
<1>3. ASSUME NEW d \in Cells, NEW s, task' = [task EXCEPT ![d].state = s]
      PROVE  task'[c].id \in {0, task[c].id}
  BY <1>3
<1>4. ASSUME NEW t \in Threads, NEW repeats \in BOOLEAN, Register(t, repeats)
      PROVE  task'[c].id \in {0, task[c].id}
  BY <1>4 DEF Register, Live
<1>5. ASSUME NEW t \in Threads, ArmFails(t)
      PROVE  task'[c].id \in {0, task[c].id}
  BY <1>2, <1>5 DEF ArmFails
<1>6. ASSUME NEW t \in Threads, NEW h \in held, Cancel(t, h)
      PROVE  task'[c].id \in {0, task[c].id}
  <2>1. table[h.handle] \in Cells \cup {NoCell} OBVIOUS
  <2> QED BY <1>1, <1>2, <1>3, <1>6, <2>1 DEF Cancel, Delete
<1>7. CASE Enter
  <2>1. PICK d \in Cells : task' = [task EXCEPT ![d].state = "RUNNING"]
    BY <1>7, EnterFacts
  <2> QED BY <1>3, <2>1
<1>8. CASE Leave
  <2>1. dispatcher.cell \in Cells
    BY <1>8 DEF Leave, MainRuns, EventsInv
  <2> QED BY <1>2, <1>3, <1>8, <2>1 DEF Leave, Delete
<1> QED BY <1>1, <1>4, <1>5, <1>6, <1>7, <1>8
        DEF Next, Dispatch, Take, TableFull, Arm, vars

(* xi_timed_task_callback_wrapper never enters the callback of a task whose  *)
(* cancellation has returned.                                                *)
THEOREM NeverCalledAfterCancel == Spec => NoCallAfterCancel
<1> DEFINE Quiet == \A id \in Ids : Calling(id)' /\ ~Calling(id) => id \notin cancelled
<1>1. ASSUME Inv, [Next]_vars PROVE [Quiet]_vars
  <2> SUFFICES ASSUME NEW id \in Ids, Calling(id)', ~Calling(id), ~UNCHANGED vars
               PROVE  id \notin cancelled
    BY <1>1
  <2> USE <1>1
  <2>1. CASE Enter
    <3>1. PICK c \in Cells :
            /\ task[c].state = "SCHEDULED" /\ task' = [task EXCEPT ![c].state = "RUNNING"]
            /\ dispatcher' = [at |-> "callback", cell |-> c]
      BY <2>1, EnterFacts
    <3>2. task[c].id = id BY <3>1 DEF Calling, Inv, TypeOK
    <3> QED BY <3>1, <3>2 DEF Inv, CancelInv
  <2>2. CASE dispatcher' = dispatcher /\ ~Enter
    <3>1. dispatcher.at = "callback" /\ ~abort
      BY <2>2 DEF Calling, Next, Dispatch, Take, Enter, Leave, MainRuns, Register, TableFull,
             Schedules, AppRuns, Arm, ArmFails, Cancel
    <3>2. PICK c \in Cells : dispatcher = [at |-> "callback", cell |-> c]
      BY <3>1 DEF Inv, EventsInv, TypeOK
    <3>3. task[c].state \in {"RUNNING", "DELETABLE"} /\ task'[c].id = id /\ task[c].id # id
      BY <2>2, <3>1, <3>2 DEF Inv, EventsInv, Calling
    <3>4. id # 0 BY DEF Ids
    <3>5. task'[c].id \in {0, task[c].id} BY <3>3, IdsStay DEF Live
    <3> QED BY <3>3, <3>4, <3>5
  <2>3. CASE dispatcher' # dispatcher /\ ~Enter
    <3>1. Leave \/ \E c \in Cells : Take(c)
      BY <2>3 DEF Next, Dispatch, Register, TableFull, Arm, ArmFails, Cancel, vars
    <3>2. dispatcher'.at # "callback" BY <3>1 DEF Leave, Take, NoEvent
    <3> QED BY <3>2 DEF Calling
  <2> QED BY <2>1, <2>2, <2>3
<1> QED BY <1>1, InvAlways, PTL DEF Spec, NoCallAfterCancel

(* The cancellation of a task that waits finds the task's event, when only   *)
(* the main thread cancels: the dispatcher cannot hold the event then.       *)
LEMMA NeverAborts ==
  ASSUME Cancellers \subseteq {Main}, Inv, ~abort, [Next]_vars
  PROVE  ~abort'
<1>1. ASSUME NEW t \in Threads, NEW h \in held, Cancel(t, h) PROVE ~abort'
  <2>1. PICK c \in Cells : task[c].id = h.id BY <1>1 DEF Cancel
  <2>2. Live(c) /\ c # NoCell /\ table[h.handle] = c
    BY <2>1, HandlesFind, TaskAssumption DEF HandlesFindTasks, Inv, TypeOK, Ids, IdsInv
  <2>3. ~Armed(c)
    BY <2>1, TaskAssumption DEF Armed, Inv, IdsInv
  <2>4. ~Taken(c)
    BY <1>1 DEF Cancel, AppRuns, Taken
  <2>5. CASE task[c].state = "SCHEDULED" /\ abort' = (events[c] = 0)
    <3>1. EventPlaced(c) BY DEF Inv, EventsInv
    <3>2. events[c] # 0 BY <2>3, <2>4, <2>5, <3>1 DEF EventPlaced
    <3> QED BY <2>5, <3>2
  <2>6. CASE UNCHANGED abort BY <2>6
  <2> QED BY <1>1, <2>2, <2>5, <2>6 DEF Cancel
<1>2. CASE UNCHANGED vars BY <1>2 DEF vars
<1>3. CASE Dispatch BY <1>3 DEF Dispatch, Take, Enter, Leave
<1>4. ASSUME NEW t \in Threads,
             \/ \E repeats \in BOOLEAN : Register(t, repeats)
             \/ TableFull(t) \/ Arm(t) \/ ArmFails(t)
      PROVE  ~abort'
  BY <1>4 DEF Register, TableFull, Arm, ArmFails
<1> QED BY <1>1, <1>2, <1>3, <1>4 DEF Next

(* At most one thread arms a task.                                          *)
LEMMA ArmingCount ==
  ASSUME Inv, EventsInv, NEW c \in Cells
  PROVE  Cardinality({t \in Threads : arming[t] = c}) = IF Armed(c) THEN 1 ELSE 0
<1> DEFINE S == {t \in Threads : arming[t] = c}
<1>1. CASE Armed(c)
  <2>1. PICK t \in Threads : arming[t] = c BY <1>1 DEF Armed
  <2>2. c # NoCell BY TaskAssumption
  <2>3. \A u \in Threads : arming[u] = c => u = t BY <2>1, <2>2 DEF EventsInv
  <2>4. S = {t} BY <2>1, <2>3
  <2>5. Cardinality({t}) = 1 BY FS_Singleton
  <2>6. Cardinality(S) = 1 BY <2>4, <2>5
  <2> QED BY <1>1, <2>6
<1>2. CASE ~Armed(c)
  <2>1. S = {} BY <1>2 DEF Armed
  <2>2. Cardinality({}) = 0 BY FS_EmptySet
  <2>3. Cardinality(S) = 0 BY <2>1, <2>2
  <2> QED BY <1>2, <2>3
<1> QED BY <1>1, <1>2

(* When tasks are cancelled on the main thread, as in every build without a  *)
(* thread pool, each scheduled task has exactly one event, no other task has *)
(* one, and the assertions of xi_remove_timed_task hold.                     *)
THEOREM OneEventAlways ==
  ASSUME Cancellers \subseteq {Main}
  PROVE  Spec => []OneEventPerTask
<1>1. Init => Inv /\ ~abort BY InitInv DEF Init
<1>2. Inv /\ ~abort /\ [Next]_vars => Inv' /\ ~abort'
  BY InvStep, NeverAborts
<1>3. ASSUME Inv, ~abort PROVE OneEventPerTask
  <2> SUFFICES ASSUME NEW c \in Cells
               PROVE  events[c] + Cardinality({t \in Threads : arming[t] = c})
                                + (IF dispatcher = [at |-> "wrapper", cell |-> c] THEN 1 ELSE 0)
                      = IF task[c].state = "SCHEDULED" THEN 1 ELSE 0
    BY <1>3 DEF OneEventPerTask
  <2>1. EventPlaced(c) /\ EventsInv BY <1>3 DEF Inv, EventsInv
  <2>2. Cardinality({t \in Threads : arming[t] = c}) = IF Armed(c) THEN 1 ELSE 0
    BY <1>3, <2>1, ArmingCount
  <2> DEFINE n == Cardinality({t \in Threads : arming[t] = c})
  <2> HIDE DEF n
  <2>3. n = IF Armed(c) THEN 1 ELSE 0 BY <2>2 DEF n
  <2>4. events[c] + n + (IF Taken(c) THEN 1 ELSE 0)
        = IF task[c].state = "SCHEDULED" THEN 1 ELSE 0
    BY <2>1, <2>3 DEF EventPlaced
  <2> QED BY <2>4 DEF n, Taken
<1> QED BY <1>1, <1>2, <1>3, PTL DEF Spec

=============================================================================

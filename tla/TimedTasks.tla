----------------------------- MODULE TimedTasks -----------------------------
(***************************************************************************)
(* Timed tasks of the application (xi_timed_task.c) and the table of their *)
(* handles (xi_handle.c).  The main thread runs the event dispatcher, whose *)
(* step takes a due event out of its container, releases the dispatcher's  *)
(* lock and calls the wrapper; with a thread pool the callbacks of         *)
(* connect, publish and subscribe run on a worker, which may schedule and  *)
(* cancel tasks too.  What is done under the container's lock is one step. *)
(***************************************************************************)
EXTENDS Integers, FiniteSets

CONSTANTS
  Cells,        \* memory cells of xi_timed_task_data_t
  NoCell,       \* NULL
  TableSize,    \* XI_MAX_TIMED_EVENT
  Main,         \* the thread of the event dispatcher
  Schedulers,   \* threads that call xi_schedule_timed_task
  Cancellers,   \* threads that call xi_cancel_timed_task
  MaxTasks      \* bound on the tasks that are scheduled

Threads == {Main} \cup Schedulers \cup Cancellers
Ids     == 1 .. MaxTasks
Handles == 0 .. (TableSize - 1)

ASSUME TaskAssumption ==
  NoCell \notin Cells /\ IsFiniteSet(Cells) /\ TableSize \in Nat /\ MaxTasks \in Nat

VARIABLES
  table,      \* timed_tasks_vector: the task of a handle
  task,       \* the memory of the tasks
  events,     \* number of time events of a task in the dispatcher
  lock,       \* the container's critical section was left locked
  dispatcher, \* what the main thread does with an event it has taken
  arming,     \* the task a thread has registered and not yet armed
  held,       \* handles the application got, with the task they were for
  cancelled,  \* tasks whose cancellation has returned
  last,       \* the last id given to a task
  failed,     \* tasks that were registered and could not be armed
  abort       \* an assertion failed

vars == <<table, task, events, lock, dispatcher, arming, held, cancelled, last, failed, abort>>

FreeTask == [state |-> "FREE", repeats |-> FALSE, id |-> 0]
NoEvent  == [at |-> "idle", cell |-> NoCell]

Init ==
  /\ table = [h \in Handles |-> NoCell]
  /\ task = [c \in Cells |-> FreeTask]
  /\ events = [c \in Cells |-> 0]
  /\ lock = FALSE
  /\ dispatcher = NoEvent
  /\ arming = [t \in Threads |-> NoCell]
  /\ held = {} /\ cancelled = {} /\ last = 0 /\ failed = {} /\ abort = FALSE

\* xi_find_handle_for_object finds the first slot with the object.
Slots(c)  == {h \in Handles : table[h] = c}
Handle(c) == CHOOSE h \in Slots(c) : \A g \in Slots(c) : h <= g

\* The application's code runs on the main thread between two events and in
\* the callback of a task, and on a worker at any time.
AppRuns(t) ==
  ~abort /\ arming[t] = NoCell /\ (t = Main => dispatcher.at \in {"idle", "callback"})

-----------------------------------------------------------------------------
(***************************************************************************)
(* xi_add_timed_task: the task is registered under the lock and armed      *)
(* after it.                                                               *)
(***************************************************************************)
\* xi_register_handle_for_object: the first empty slot
FreeSlot == Handle(NoCell)

Schedules(t) == t \in Schedulers /\ AppRuns(t) /\ ~lock /\ last < MaxTasks

\* `repeats' is seconds_repeat # 0.
Register(t, repeats) ==
  /\ Schedules(t) /\ Slots(NoCell) # {}
  /\ last' = last + 1
  /\ \E c \in Cells :
       /\ task[c].state = "FREE"
       /\ table' = [table EXCEPT ![FreeSlot] = c]
       /\ task' = [task EXCEPT ![c] = [state |-> "SCHEDULED", repeats |-> repeats, id |-> last + 1]]
       /\ arming' = [arming EXCEPT ![t] = c]
  /\ UNCHANGED <<events, lock, dispatcher, held, cancelled, failed, abort>>

\* The table is full: the error path frees the task and leaves without
\* unlocking the critical section.
TableFull(t) ==
  /\ Schedules(t) /\ Slots(NoCell) = {}
  /\ lock' = TRUE
  /\ UNCHANGED <<table, task, events, dispatcher, arming, held, cancelled, last, failed, abort>>

\* xi_find_handle_for_object after the registration
Returned(c) == Handle(c)

\* xi_evtd_execute_in; the handle goes to the application.
Arm(t) ==
  /\ arming[t] # NoCell /\ ~abort
  /\ events' = [events EXCEPT ![arming[t]] = @ + 1]
  /\ held' = held \cup {[handle |-> Returned(arming[t]), id |-> task[arming[t]].id]}
  /\ arming' = [arming EXCEPT ![t] = NoCell]
  /\ UNCHANGED <<table, task, lock, dispatcher, cancelled, last, failed, abort>>

\* There is no memory for the event: the task is freed and its address stays in
\* the table.
ArmFails(t) ==
  /\ arming[t] # NoCell /\ ~abort
  /\ failed' = failed \cup {task[arming[t]].id}
  /\ task' = [task EXCEPT ![arming[t]] = FreeTask]
  /\ arming' = [arming EXCEPT ![t] = NoCell]
  /\ UNCHANGED <<table, events, lock, dispatcher, held, cancelled, last, abort>>

-----------------------------------------------------------------------------
\* Mutant: the slot of a task that is freed is not cleared.
MutDelete(c) == task' = [task EXCEPT ![c] = FreeTask] /\ UNCHANGED table

\* xi_delete_handle_for_object, and the task's memory is freed
Delete(c) ==
  /\ table' = [table EXCEPT ![Handle(c)] = NoCell]
  /\ task' = [task EXCEPT ![c] = FreeTask]

\* xi_remove_timed_task, called for a task that has not ended
Cancel(t, h) ==
  /\ t \in Cancellers /\ AppRuns(t) /\ ~lock
  /\ \E c \in Cells : task[c].id = h.id
  /\ held' = held \ {h}
  /\ cancelled' = cancelled \cup {h.id}
  /\ LET c == table[h.handle] IN
     \/ /\ c = NoCell \/ task[c].state = "DELETABLE"
        /\ UNCHANGED <<table, task, events, abort>>
     \/ /\ c # NoCell /\ task[c].state = "SCHEDULED"
        /\ abort' = (events[c] = 0)            \* xi_evtd_cancel must succeed
        /\ events' = [events EXCEPT ![c] = IF @ = 0 THEN 0 ELSE @ - 1]
        /\ Delete(c)
     \/ /\ c # NoCell /\ task[c].state = "RUNNING"
        /\ task' = [task EXCEPT ![c].state = "DELETABLE"]
        /\ UNCHANGED <<table, events, abort>>
  /\ UNCHANGED <<lock, dispatcher, arming, last, failed>>

-----------------------------------------------------------------------------
(***************************************************************************)
(* The dispatcher and xi_timed_task_callback_wrapper.                      *)
(***************************************************************************)
MainRuns(at) == ~abort /\ dispatcher.at = at /\ arming[Main] = NoCell

\* An event is due: xi_evtd_step takes it out of the container.
Take(c) ==
  /\ MainRuns("idle") /\ events[c] > 0
  /\ events' = [events EXCEPT ![c] = @ - 1]
  /\ dispatcher' = [at |-> "wrapper", cell |-> c]
  /\ UNCHANGED <<table, task, lock, arming, held, cancelled, last, failed, abort>>

\* The task is looked up by its address; it runs if it is there.
Enter ==
  /\ MainRuns("wrapper") /\ ~lock
  /\ LET c == dispatcher.cell IN
     \/ /\ Slots(c) # {}
        /\ task' = [task EXCEPT ![c].state = "RUNNING"]
        /\ dispatcher' = [dispatcher EXCEPT !.at = "callback"]
     \/ /\ Slots(c) = {}
        /\ dispatcher' = NoEvent /\ UNCHANGED task
  /\ UNCHANGED <<table, events, lock, arming, held, cancelled, last, failed, abort>>

\* Mutant: a repeating task is armed again although it was cancelled.
MutEnds(c) == ~task[c].repeats

\* Mutant: only a cancelled task ends.
MutAgain(c) == task[c].state = "DELETABLE"

Ends(c) == ~task[c].repeats \/ task[c].state = "DELETABLE"

\* Mutant: a repeating task is scheduled without an event.
MutRearm(c) == UNCHANGED events

Rearm(c) == events' = [events EXCEPT ![c] = @ + 1]

\* The callback has returned.
Leave ==
  /\ MainRuns("callback") /\ ~lock
  /\ LET c == dispatcher.cell IN
     \/ /\ Ends(c)
        /\ Delete(c) /\ UNCHANGED events
     \/ /\ ~Ends(c)
        /\ Rearm(c)
        /\ task' = [task EXCEPT ![c].state = "SCHEDULED"]
        /\ UNCHANGED table
  /\ dispatcher' = NoEvent
  /\ UNCHANGED <<lock, arming, held, cancelled, last, failed, abort>>

-----------------------------------------------------------------------------
Dispatch == \/ \E c \in Cells : Take(c)
            \/ Enter \/ Leave

Next ==
  \/ Dispatch
  \/ \E t \in Threads : \/ \E repeats \in BOOLEAN : Register(t, repeats)
                        \/ TableFull(t)
                        \/ Arm(t) \/ ArmFails(t)
                        \/ \E h \in held : Cancel(t, h)

\* The event loop turns and calls return; due events are taken in the order
\* of their times, so that none is passed over for ever.
Spec ==
  /\ Init /\ [][Next]_vars
  /\ WF_vars(Enter) /\ WF_vars(Leave)
  /\ \A c \in Cells : SF_vars(Take(c))
  /\ \A t \in Threads : WF_vars(Arm(t) \/ ArmFails(t))

-----------------------------------------------------------------------------
Calling(id) == dispatcher.at = "callback" /\ task[dispatcher.cell].id = id

\* Every variable has its type; in particular no slot outside the table is used.
TypeOK ==
  /\ table \in [Handles -> Cells \cup {NoCell}]
  /\ task \in [Cells -> [state: {"FREE", "SCHEDULED", "RUNNING", "DELETABLE"},
                         repeats: BOOLEAN, id: Ids \cup {0}]]
  /\ events \in [Cells -> 0 .. 1]
  /\ lock \in BOOLEAN /\ abort \in BOOLEAN
  /\ dispatcher \in [at: {"idle", "wrapper", "callback"}, cell: Cells \cup {NoCell}]
  /\ arming \in [Threads -> Cells \cup {NoCell}]
  /\ held \subseteq [handle: Handles, id: Ids]
  /\ cancelled \subseteq Ids /\ failed \subseteq Ids /\ last \in Ids \cup {0}

\* The handle the application holds for a task leads to that task as long as it
\* exists, also when its memory cell is already in the table because an earlier
\* task there could not be armed.
HandlesFindTasks ==
  \A c \in Cells, h \in held : task[c].id = h.id => table[h.handle] = c

\* Slots are given back: only the tasks that could not be armed cost one for good.
OnlyFailuresCostSlots ==
  Cardinality({h \in Handles : table[h] # NoCell})
    = Cardinality({c \in Cells : task[c].state # "FREE"}) + Cardinality(failed)

\* The table of handles is right: handles lead to their tasks, slots are kept
\* exactly as long as they are needed.
TableInv == TypeOK /\ HandlesFindTasks /\ OnlyFailuresCostSlots

\* A scheduled task has one event: in the dispatcher, about to be put there, or
\* already taken out of it.  Any other task has none, so that no event is left
\* behind for a task that will be allocated at the same place, and the
\* assertions of xi_remove_timed_task hold: a cancelled task's event is found.
OneEventPerTask ==
  ~abort /\ \A c \in Cells :
    events[c] + Cardinality({t \in Threads : arming[t] = c})
              + (IF dispatcher = [at |-> "wrapper", cell |-> c] THEN 1 ELSE 0)
    = IF task[c].state = "SCHEDULED" THEN 1 ELSE 0

\* The callback of a task is not called again once its cancellation returned
\* (it may still be running then, when the callback itself cancelled it).
NoCallAfterCancel ==
  [][\A id \in Ids : Calling(id)' /\ ~Calling(id) => id \notin cancelled]_vars

\* A repeating task is called again and again until it is cancelled, unless it
\* could not be armed or the table overflowed and kept the lock.
RepeatsUntilCancelled ==
  \A id \in Ids :
    (\E c \in Cells : task[c].id = id /\ task[c].repeats)
      ~> ([]<>Calling(id) \/ id \in cancelled \cup failed \/ lock)

\* A task that is not repeated, or is cancelled, is freed in the end.
EndedIsFreed ==
  \A id \in Ids :
    (\E c \in Cells : task[c].id = id /\ (~task[c].repeats \/ id \in cancelled))
      ~> (lock \/ \A c \in Cells : task[c].id # id)

\* Every task does what it was scheduled for: it repeats, or it ends.
TasksRunTheirCourse == RepeatsUntilCancelled /\ EndedIsFreed

=============================================================================

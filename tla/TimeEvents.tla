----------------------------- MODULE TimeEvents -----------------------------
(***************************************************************************)
(* The time event container of the event dispatcher (xi_time_event.c): a    *)
(* vector of events kept sorted by time of execution.  Every event stores   *)
(* its own index, and a caller's handle points at that stored index, so that *)
(* cancelling and restarting find the event without a search.               *)
(*                                                                         *)
(* Operations run under the dispatcher's critical section, one at a time.   *)
(* Their loops are modelled iteration by iteration: pc is the loop being    *)
(* executed, cur the index of the element it moves, and op the operation.   *)
(***************************************************************************)
EXTENDS Integers

CONSTANTS
  Events,          \* memory cells of xi_time_event_t
  Handles,         \* xi_time_event_handle_t variables of the callers
  NoHandle,        \* NULL passed as handle
  NoEvent,         \* an unset handle, an unused slot of the vector
  Capacity,        \* elements the vector has memory for
  MaxTime          \* bound on times of execution

ASSUME NullAssumption == NoHandle \notin Handles /\ NoEvent \notin Events
ASSUME BoundAssumption == Capacity \in Nat /\ MaxTime \in Nat

VARIABLES
  array,             \* xi_vector_t: array[0 .. elem_no - 1]
  elem_no,
  position,          \* xi_time_event_t.position
  time_of_execution, \* xi_time_event_t.time_of_execution
  time_event_handle, \* xi_time_event_t.time_event_handle
  ptr_to_position,   \* handle -> the event whose position it points at
  pc, cur, op

events == <<position, time_of_execution, time_event_handle>>
vars   == <<array, elem_no, events, ptr_to_position, pc, cur, op>>

Times    == 0 .. MaxTime
Index    == 0 .. (Capacity - 1)
NoPos    == -1                     \* XI_TIME_EVENT_POSITION_INVALID
InUse    == 0 .. (elem_no - 1)
Time(i)  == time_of_execution[array[i]]
NoOp     == [kind |-> "none", event |-> NoEvent, handle |-> NoHandle]
Member(e) == \E i \in InUse : array[i] = e

\* Every variable has its type: the loops leave neither cursor nor stored
\* position outside the vector.
TypeOK ==
  /\ array \in [Index -> Events \cup {NoEvent}]
  /\ elem_no \in 0 .. Capacity
  /\ position \in [Events -> Index \cup {NoPos}]
  /\ time_of_execution \in [Events -> Times]
  /\ time_event_handle \in [Events -> Handles \cup {NoHandle}]
  /\ ptr_to_position \in [Handles -> Events \cup {NoEvent}]
  /\ pc \in {"idle", "down", "up", "del"}
  /\ cur \in Index \cup {0}
  /\ op \in [kind: {"none", "add", "restart", "get_top", "cancel"},
             event: Events \cup {NoEvent}, handle: Handles \cup {NoHandle}]

-----------------------------------------------------------------------------
Init ==
  /\ array = [i \in Index |-> NoEvent]
  /\ elem_no = 0
  /\ position = [e \in Events |-> NoPos]
  /\ time_of_execution = [e \in Events |-> 0]
  /\ time_event_handle = [e \in Events |-> NoHandle]
  /\ ptr_to_position = [h \in Handles |-> NoEvent]
  /\ pc = "idle" /\ cur = 0 /\ op = NoOp

\* Mutant: only one of the two stored positions is updated.
MutSwap(i, j) ==
  /\ array' = [array EXCEPT ![i] = array[j], ![j] = array[i]]
  /\ position' = [position EXCEPT ![array[i]] = j]

\* xi_swap_time_events
Swap(i, j) ==
  /\ array' = [array EXCEPT ![i] = array[j], ![j] = array[i]]
  /\ position' = [position EXCEPT ![array[i]] = j, ![array[j]] = i]

\* The operation is over.
Return == pc' = "idle" /\ cur' = 0 /\ op' = NoOp

(* xi_evtd_execute_in allocates a zeroed event, xi_time_event_add pushes it  *)
(* at the end of the vector (which may be unable to grow) and bubbles it down. *)
Add(e, h, t) ==
  /\ pc = "idle"
  /\ ~Member(e) /\ elem_no < Capacity
  /\ h \in Handles => ptr_to_position[h] = NoEvent
  /\ array' = [array EXCEPT ![elem_no] = e]
  /\ elem_no' = elem_no + 1
  /\ position' = [position EXCEPT ![e] = elem_no]
  /\ time_of_execution' = [time_of_execution EXCEPT ![e] = t]
  /\ time_event_handle' = [time_event_handle EXCEPT ![e] = NoHandle]
  /\ pc' = "down" /\ cur' = elem_no
  /\ op' = [kind |-> "add", event |-> e, handle |-> h]
  /\ UNCHANGED ptr_to_position

(* xi_time_event_restart: the callers pass a handle that is set.  An index   *)
(* outside the vector is answered with XI_ELEMENT_NOT_FOUND, a no-op.        *)
Restart(h, t) ==
  /\ pc = "idle"
  /\ ptr_to_position[h] # NoEvent
  /\ LET index == position[ptr_to_position[h]]
     IN /\ index \in InUse
        /\ time_of_execution' = [time_of_execution EXCEPT ![array[index]] = t]
        /\ pc' = IF t < Time(index) THEN "down" ELSE "up"
        /\ cur' = index
        /\ op' = [kind |-> "restart", event |-> array[index], handle |-> h]
  /\ UNCHANGED <<array, elem_no, position, time_event_handle, ptr_to_position>>

\* One iteration of the loop of xi_time_event_bubble_core in direction dir.
BubbleStep(dir) ==
  LET cmp == array[cur + dir] IN
  /\ Swap(position[cmp], position[array[cur]])
  /\ cur' = cur + dir
  /\ UNCHANGED <<elem_no, time_of_execution, time_event_handle, ptr_to_position, pc, op>>

(* The bubbling is over: xi_time_event_add fills in the caller's handle,     *)
(* xi_time_event_restart just returns.                                       *)
BubbleEnd ==
  /\ IF op.kind = "add" /\ op.handle # NoHandle
       THEN /\ ptr_to_position' = [ptr_to_position EXCEPT ![op.handle] = op.event]
            /\ time_event_handle' = [time_event_handle EXCEPT ![op.event] = op.handle]
       ELSE UNCHANGED <<ptr_to_position, time_event_handle>>
  /\ Return
  /\ UNCHANGED <<array, elem_no, position, time_of_execution>>

MustSink == cur # 0 /\ Time(cur) < Time(cur - 1)
MustRise == cur # elem_no - 1 /\ Time(cur) > Time(cur + 1)

BubbleDown == pc = "down" /\ IF MustSink THEN BubbleStep(-1) ELSE BubbleEnd
BubbleUp   == pc = "up"   /\ IF MustRise THEN BubbleStep(1)  ELSE BubbleEnd

\* xi_time_event_get_top, for a vector that is not empty.
GetTop ==
  /\ pc = "idle" /\ elem_no > 0
  /\ pc' = "del" /\ cur' = 0
  /\ op' = [kind |-> "get_top", event |-> array[0], handle |-> NoHandle]
  /\ UNCHANGED <<array, elem_no, events, ptr_to_position>>

\* Mutant: the event below the one the handle names is removed.
MutCancel(h) ==
  /\ pc = "idle"
  /\ ptr_to_position[h] # NoEvent
  /\ LET index == position[ptr_to_position[h]] - 1
     IN /\ index \in InUse
        /\ pc' = "del" /\ cur' = index
        /\ op' = [kind |-> "cancel", event |-> array[index], handle |-> h]
  /\ UNCHANGED <<array, elem_no, events, ptr_to_position>>

\* xi_time_event_cancel, for a handle that is set (the code asserts it).
Cancel(h) ==
  /\ pc = "idle"
  /\ ptr_to_position[h] # NoEvent
  /\ LET index == position[ptr_to_position[h]]
     IN /\ index \in InUse
        /\ pc' = "del" /\ cur' = index
        /\ op' = [kind |-> "cancel", event |-> array[index], handle |-> h]
  /\ UNCHANGED <<array, elem_no, events, ptr_to_position>>

\* Mutant: the index is not advanced after the swap.
MutMoveToTheEnd ==
  /\ pc = "del" /\ cur < elem_no - 1
  /\ Swap(cur, cur + 1)
  /\ UNCHANGED <<elem_no, time_of_execution, time_event_handle, ptr_to_position, pc, cur, op>>

\* One iteration of xi_time_event_move_to_the_end.
MoveToTheEnd ==
  /\ pc = "del" /\ cur < elem_no - 1
  /\ Swap(cur, cur + 1)
  /\ cur' = cur + 1
  /\ UNCHANGED <<elem_no, time_of_execution, time_event_handle, ptr_to_position, pc, op>>

\* xi_vector_del of the last element; the caller then frees the event, so its
\* fields (and the slot past the end) keep no value that may be read again.
DeleteLast ==
  /\ elem_no' = elem_no - 1
  /\ array' = [array EXCEPT ![elem_no - 1] = NoEvent]
  /\ position' = [position EXCEPT ![array[cur]] = NoPos]
  /\ time_of_execution' = [time_of_execution EXCEPT ![array[cur]] = 0]
  /\ time_event_handle' = [time_event_handle EXCEPT ![array[cur]] = NoHandle]

(* xi_time_event_dispose_time_event: the handle is unset before the freeing. *)
Dispose ==
  /\ pc = "del" /\ cur = elem_no - 1
  /\ DeleteLast
  /\ LET h == time_event_handle[array[cur]]
     IN ptr_to_position' = IF h = NoHandle THEN ptr_to_position
                           ELSE [ptr_to_position EXCEPT ![h] = NoEvent]
  /\ Return

Next ==
  \/ \E e \in Events, h \in Handles \cup {NoHandle}, t \in Times : Add(e, h, t)
  \/ \E h \in Handles, t \in Times : Restart(h, t)
  \/ BubbleDown
  \/ BubbleUp
  \/ GetTop
  \/ \E h \in Handles : Cancel(h)
  \/ MoveToTheEnd
  \/ Dispose

Spec == Init /\ [][Next]_vars

\* Every loop is run to its end by the thread that holds the critical section.
FairSpec == Spec /\ WF_vars(BubbleDown \/ BubbleUp \/ MoveToTheEnd \/ Dispose)

-----------------------------------------------------------------------------
(* The stored indices agree with the vector at every moment, in the middle   *)
(* of a loop too (xi_swap_time_events keeps both sides in step): the O(1)    *)
(* look-up of xi_time_event_restart and _cancel finds the right event.       *)
PositionsAgree == \A i \in InUse : array[i] \in Events /\ position[array[i]] = i

(* No handle dangles: a handle that is set points into an event that is in   *)
(* the vector and that names this handle as its own, so freeing an event     *)
(* (which unsets time_event_handle) leaves no pointer to it behind.          *)
NoDanglingHandle ==
  \A h \in Handles : ptr_to_position[h] # NoEvent =>
     /\ Member(ptr_to_position[h])
     /\ time_event_handle[ptr_to_position[h]] = h

(* The container invariant documented at xi_time_event_bubble_and_sort_down: *)
(* between two operations the events are sorted by time of execution.        *)
SortedWhenIdle == pc = "idle" => \A i, j \in InUse : i < j => Time(i) <= Time(j)

(* The container is right for its callers, in every loop iteration: stored   *)
(* positions, handles and, between operations, the order of the vector.      *)
ContainerInv == TypeOK /\ PositionsAgree /\ NoDanglingHandle /\ SortedWhenIdle

(* Every operation returns: the bubbling and moving loops end.               *)
OperationsReturn == (pc # "idle") ~> (pc = "idle")

-----------------------------------------------------------------------------
\* The abstract timers: an armed event is one in the vector; a handle belongs
\* to its event from the moment the event is pushed.
dueBar   == [e \in Events |-> IF Member(e) THEN time_of_execution[e] ELSE -1]
ownerBar == [h \in Handles |-> IF op.kind = "add" /\ op.handle = h THEN op.event
                                                   ELSE ptr_to_position[h]]

T == INSTANCE Timers WITH due <- dueBar, owner <- ownerBar

(* The container implements the abstract timers: xi_time_event_get_top only  *)
(* takes out an event that is due no later than any other, and cancelling or *)
(* restarting through a handle affects the event armed with it and no other. *)
ImplementsTimers == T!Spec
=============================================================================

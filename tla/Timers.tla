------------------------------- MODULE Timers -------------------------------
(***************************************************************************)
(* What the time event container promises its callers, without saying how   *)
(* it keeps its events: a timer is armed for a time, may be re-armed or     *)
(* cancelled through the handle it was armed with, and expires in the order *)
(* of the times.                                                            *)
(***************************************************************************)
EXTENDS Integers

CONSTANTS
  Events,          \* time events
  Handles,         \* xi_time_event_handle_t variables of the callers
  NoHandle,        \* the timer was armed without a handle
  NoEvent,         \* the handle is not set
  MaxTime          \* bound on times of execution

Times  == 0 .. MaxTime
NotSet == -1

VARIABLES
  due,             \* time of each event, NotSet if it is not armed
  owner            \* the event each handle is set to, or NoEvent

tvars == <<due, owner>>

Armed(e) == due[e] # NotSet

Init ==
  /\ due = [e \in Events |-> NotSet]
  /\ owner = [h \in Handles |-> NoEvent]

\* A handle forgets the event that leaves; other handles are untouched.
Forget(e) == owner' = [h \in Handles |-> IF owner[h] = e THEN NoEvent ELSE owner[h]]

Arm(e, h, t) ==
  /\ ~Armed(e)
  /\ h \in Handles => owner[h] = NoEvent
  /\ due' = [due EXCEPT ![e] = t]
  /\ owner' = [g \in Handles |-> IF g = h THEN e ELSE owner[g]]

Rearm(h, t) ==
  /\ owner[h] \in Events
  /\ Armed(owner[h])
  /\ due' = [due EXCEPT ![owner[h]] = t]
  /\ UNCHANGED owner

Cancel(h) ==
  /\ owner[h] \in Events
  /\ Armed(owner[h])
  /\ due' = [due EXCEPT ![owner[h]] = NotSet]
  /\ Forget(owner[h])

\* Only an event that no armed event precedes may expire.
Expire(e) ==
  /\ Armed(e)
  /\ \A f \in Events : Armed(f) => due[e] <= due[f]
  /\ due' = [due EXCEPT ![e] = NotSet]
  /\ Forget(e)

Next ==
  \/ \E e \in Events, h \in Handles \cup {NoHandle}, t \in Times : Arm(e, h, t)
  \/ \E h \in Handles, t \in Times : Rearm(h, t)
  \/ \E h \in Handles : Cancel(h)
  \/ \E e \in Events : Expire(e)

Spec == Init /\ [][Next]_tvars
=============================================================================

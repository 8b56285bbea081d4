-------------------------- MODULE TimeEventsProofs --------------------------
(* Proofs about the time event container, for any number of events, any     *)
(* capacity and any times.                                                  *)
EXTENDS TimeEvents, TLAPS

(* The loops know where they are: the element being moved is at cur.        *)
CursorInv ==
  /\ pc = "idle" => op = NoOp
  /\ pc # "idle" => /\ cur \in InUse
                    /\ op.event \in Events
                    /\ array[cur] = op.event
  /\ pc = "down" => op.kind \in {"add", "restart"}
  /\ pc = "up"   => op.kind = "restart"
  /\ pc = "del"  => op.kind \in {"get_top", "cancel"}

(* Handles and events name each other, except that the handle of an event   *)
(* still being added is not filled in yet.                                  *)
HandleInv ==
  /\ NoDanglingHandle
  /\ \A i \in InUse : time_event_handle[array[i]] # NoHandle =>
                        ptr_to_position[time_event_handle[array[i]]] = array[i]
  /\ op.kind = "add" => /\ time_event_handle[op.event] = NoHandle
                        /\ op.handle \in Handles => ptr_to_position[op.handle] = NoEvent
  /\ op.kind = "cancel" => op.handle \in Handles /\ ptr_to_position[op.handle] = op.event

(* All but the moving element are sorted; while it sinks nothing above it is *)
(* earlier, while it rises nothing below it is later.                        *)
SortInv ==
  /\ SortedWhenIdle
  /\ pc # "idle" => \A i, j \in InUse : i < j /\ i # cur /\ j # cur => Time(i) <= Time(j)
  /\ pc = "down" => \A j \in InUse : cur < j => Time(cur) <= Time(j)
  /\ pc = "up"   => \A i \in InUse : i < cur => Time(i) <= Time(cur)
  /\ op.kind = "get_top" => \A i \in InUse : time_of_execution[op.event] <= Time(i)

Inv == TypeOK /\ PositionsAgree /\ CursorInv /\ HandleInv /\ SortInv

LEMMA InitInv == Init => Inv
  BY NullAssumption, BoundAssumption
  DEF Init, Inv, TypeOK, PositionsAgree, CursorInv, HandleInv, NoDanglingHandle,
      SortInv, SortedWhenIdle, InUse, Index, Times, NoOp, NoPos

(* What a swap of two occupied slots does to the vector.                     *)
LEMMA SwapFacts ==
  ASSUME TypeOK, PositionsAgree, NEW i \in InUse, NEW j \in InUse, i # j, Swap(i, j),
         UNCHANGED <<elem_no, time_of_execution>>
  PROVE  /\ array' \in [Index -> Events \cup {NoEvent}]
         /\ position' \in [Events -> Index \cup {NoPos}]
         /\ PositionsAgree'
         /\ InUse' = InUse /\ array'[i] = array[j] /\ array'[j] = array[i]
         /\ \A k \in InUse : k # i /\ k # j => array'[k] = array[k]
         /\ \A e \in Events : Member(e)' <=> Member(e)
<1> USE BoundAssumption DEF TypeOK, InUse, Index
<1>1. i \in Index /\ j \in Index /\ InUse \subseteq Index
  OBVIOUS
<1>2. array[i] \in Events /\ array[j] \in Events /\ array[i] # array[j]
  BY DEF PositionsAgree
<1>3. array' \in [Index -> Events \cup {NoEvent}]
  BY <1>1 DEF Swap
<1>4. position' \in [Events -> Index \cup {NoPos}]
  BY <1>1, <1>2 DEF Swap
<1>5. /\ InUse' = InUse /\ array'[i] = array[j] /\ array'[j] = array[i]
      /\ \A k \in InUse : k # i /\ k # j => array'[k] = array[k]
  BY <1>1 DEF Swap
<1>6. PositionsAgree'
  <2> SUFFICES ASSUME NEW k \in InUse PROVE array'[k] \in Events /\ position'[array'[k]] = k
    BY <1>5 DEF PositionsAgree
  <2>1. CASE k = i BY <2>1, <1>1, <1>2, <1>5 DEF Swap, PositionsAgree
  <2>2. CASE k = j BY <2>2, <1>1, <1>2, <1>5 DEF Swap, PositionsAgree
  <2>3. CASE k # i /\ k # j
    <3>1. array[k] \in Events /\ array[k] # array[i] /\ array[k] # array[j]
      BY <2>3 DEF PositionsAgree
    <3> QED BY <2>3, <3>1, <1>1, <1>2, <1>5 DEF Swap, PositionsAgree
  <2> QED BY <2>1, <2>2, <2>3
<1>7. ASSUME NEW e \in Events PROVE Member(e)' <=> Member(e)
  BY <1>5 DEF Member
<1> QED BY <1>3, <1>4, <1>5, <1>6, <1>7

(* xi_time_event_add: the new last element starts to sink.                   *)
LEMMA AddInv ==
  ASSUME Inv, NEW e \in Events, NEW h \in Handles \cup {NoHandle}, NEW t \in Times,
         Add(e, h, t)
  PROVE  Inv'
<1> USE NullAssumption, BoundAssumption DEF Inv
<1>1. /\ elem_no \in Index /\ elem_no' = elem_no + 1
      /\ InUse' = InUse \cup {elem_no} /\ elem_no \notin InUse
      /\ array'[elem_no] = e /\ InUse \subseteq Index
  BY DEF Add, TypeOK, Index, InUse
<1>2. \A i \in InUse : array[i] \in Events /\ array[i] # e /\ array'[i] = array[i]
  BY <1>1 DEF Add, Member, TypeOK, PositionsAgree
<1>3. TypeOK'
  BY <1>1 DEF Add, TypeOK, Index
<1>4. PositionsAgree'
  <2> SUFFICES ASSUME NEW i \in InUse' PROVE array'[i] \in Events /\ position'[array'[i]] = i
    BY DEF PositionsAgree
  <2>1. CASE i = elem_no BY <2>1, <1>1 DEF Add, TypeOK
  <2>2. CASE i # elem_no BY <2>2, <1>1, <1>2 DEF Add, TypeOK, PositionsAgree
  <2> QED BY <2>1, <2>2
<1>5. CursorInv'
  BY <1>1 DEF Add, CursorInv
<1>6. HandleInv'
  <2>1. \A f \in Events : Member(f)' <=> Member(f) \/ f = e
    BY <1>1, <1>2 DEF Member
  <2>2. \A f \in Events : Member(f) => time_event_handle'[f] = time_event_handle[f]
    BY DEF Add, TypeOK
  <2>3. time_event_handle'[e] = NoHandle /\ ptr_to_position' = ptr_to_position
    BY DEF Add, TypeOK
  <2>4. NoDanglingHandle'
    BY <2>1, <2>2, <2>3 DEF HandleInv, NoDanglingHandle, TypeOK
  <2>5. \A i \in InUse' : time_event_handle'[array'[i]] # NoHandle =>
             ptr_to_position'[time_event_handle'[array'[i]]] = array'[i]
    <3> SUFFICES ASSUME NEW i \in InUse', time_event_handle'[array'[i]] # NoHandle
                 PROVE ptr_to_position'[time_event_handle'[array'[i]]] = array'[i]
      OBVIOUS
    <3>1. i \in InUse BY <2>3, <1>1
    <3>2. time_event_handle'[array'[i]] = time_event_handle[array[i]]
      BY <3>1, <1>2, <2>2 DEF Member
    <3> QED BY <3>1, <3>2, <1>2, <2>3 DEF HandleInv
  <2> QED BY <2>3, <2>4, <2>5 DEF HandleInv, Add
<1>7. SortInv'
  <2>1. \A i \in InUse : Time(i)' = Time(i)
    BY <1>2 DEF Add, Time, TypeOK
  <2>2. \A i, j \in InUse : i < j => Time(i) <= Time(j)
    BY DEF SortInv, SortedWhenIdle, Add
  <2>3. pc' = "down" /\ cur' = elem_no /\ op'.kind = "add"
    BY DEF Add
  <2>4. \A j \in InUse' : ~(elem_no < j)
    BY <1>1 DEF InUse, TypeOK
  <2> QED BY <1>1, <2>1, <2>2, <2>3, <2>4 DEF SortInv, SortedWhenIdle
<1> QED BY <1>3, <1>4, <1>5, <1>6, <1>7

(* A handle finds its event: the index it points at is the event's own.      *)
LEMMA HandleFinds ==
  ASSUME Inv, NEW h \in Handles, ptr_to_position[h] # NoEvent
  PROVE  /\ ptr_to_position[h] \in Events
         /\ position[ptr_to_position[h]] \in InUse
         /\ array[position[ptr_to_position[h]]] = ptr_to_position[h]
  BY DEF Inv, TypeOK, PositionsAgree, HandleInv, NoDanglingHandle, Member

(* xi_time_event_restart: only the time of the element at cur changes.       *)
LEMMA RestartInv ==
  ASSUME Inv, NEW h \in Handles, NEW t \in Times, Restart(h, t)
  PROVE  Inv'
<1> USE NullAssumption, BoundAssumption DEF Inv
<1>0. PICK e \in Events, index \in InUse : /\ e = ptr_to_position[h]
                                         /\ index = position[e] /\ array[index] = e
  BY HandleFinds DEF Restart
<1>1. e \in Events /\ index \in InUse /\ array[index] = e
  BY <1>0
<1>2. /\ time_of_execution' = [time_of_execution EXCEPT ![e] = t]
      /\ pc' = (IF t < time_of_execution[e] THEN "down" ELSE "up")
      /\ cur' = index /\ op' = [kind |-> "restart", event |-> e, handle |-> h]
      /\ InUse' = InUse /\ pc = "idle" /\ InUse \subseteq Index
      /\ UNCHANGED <<array, elem_no, position, time_event_handle, ptr_to_position>>
  BY <1>0, <1>1 DEF Restart, InUse, Time, TypeOK, Index
<1>3. TypeOK' /\ PositionsAgree' /\ CursorInv'
  BY <1>1, <1>2 DEF TypeOK, PositionsAgree, CursorInv
<1>4. HandleInv'
  BY <1>2 DEF HandleInv, NoDanglingHandle, Member
<1>5. SortInv'
  <2>1. \A i \in InUse : i # index => Time(i)' = Time(i)
    BY <1>1, <1>2 DEF Time, PositionsAgree, TypeOK
  <2>2. Time(index)' = t /\ Time(index) = time_of_execution[e]
    BY <1>1, <1>2 DEF Time, TypeOK
  <2>3. \A i, j \in InUse : i < j => Time(i) <= Time(j)
    BY <1>2 DEF SortInv, SortedWhenIdle
  <2>4. \A i \in InUse : Time(i) \in Int /\ i \in Int
    BY DEF Time, TypeOK, PositionsAgree, Times, InUse
  <2>5. t \in Int /\ index \in Int
    BY <1>1, <2>4 DEF Times
  <2>9. Time(cur)' = t
    BY <1>2, <2>2 DEF Time
  <2>6. ASSUME pc' = "down", NEW j \in InUse', cur' < j PROVE Time(cur)' <= Time(j)'
    <3>1. t < Time(index) /\ j \in InUse /\ index < j
      BY <2>6, <2>2, <1>2
    <3>2. t <= Time(j) /\ j # index
      BY <3>1, <1>1, <2>3, <2>4, <2>5
    <3> QED BY <3>1, <3>2, <2>1, <2>9
  <2>7. ASSUME pc' = "up", NEW i \in InUse', i < cur' PROVE Time(i)' <= Time(cur)'
    <3>1. ~(t < Time(index)) /\ i \in InUse /\ i < index
      BY <2>7, <2>2, <1>2
    <3>2. Time(i) <= t /\ i # index
      BY <3>1, <1>1, <2>3, <2>4, <2>5
    <3> QED BY <3>1, <3>2, <2>1, <2>9
  <2>8. pc' # "idle" /\ op'.kind = "restart"
    BY <1>2
  <2> QED BY <1>2, <2>1, <2>3, <2>6, <2>7, <2>8 DEF SortInv, SortedWhenIdle
<1> QED BY <1>3, <1>4, <1>5

(* One iteration of a loop: the element at cur and its neighbour k trade      *)
(* places, and everything but the sorting follows from SwapFacts.             *)
LEMMA MoveFacts ==
  ASSUME Inv, pc # "idle", NEW k \in InUse, k # cur, cur' = k,
         Swap(cur, k) \/ Swap(k, cur),
         UNCHANGED <<elem_no, time_of_execution, time_event_handle, ptr_to_position, pc, op>>
  PROVE  /\ TypeOK' /\ PositionsAgree' /\ CursorInv' /\ HandleInv' /\ InUse' = InUse
         /\ Time(cur)' = Time(cur)
         /\ array'[cur] = array[k]
         /\ \A i \in InUse : i # cur /\ i # k => array'[i] = array[i]
         /\ \A e \in Events : Member(e)' <=> Member(e)
<1> USE NullAssumption, BoundAssumption DEF Inv
<1>1. cur \in InUse /\ op.event = array[cur] /\ op.event \in Events
  BY DEF CursorInv
<1>2. /\ array' \in [Index -> Events \cup {NoEvent}]
      /\ position' \in [Events -> Index \cup {NoPos}]
      /\ PositionsAgree'
      /\ InUse' = InUse /\ array'[k] = array[cur] /\ array'[cur] = array[k]
      /\ \A i \in InUse : i # cur /\ i # k => array'[i] = array[i]
      /\ \A e \in Events : Member(e)' <=> Member(e)
  BY <1>1, SwapFacts
<1>3. InUse \subseteq Index
  BY DEF InUse, Index, TypeOK
<1>4. TypeOK' /\ CursorInv'
  BY <1>1, <1>2, <1>3 DEF TypeOK, CursorInv
<1>5. HandleInv'
  <2>1. NoDanglingHandle'
    BY <1>2 DEF HandleInv, NoDanglingHandle, TypeOK
  <2>2. ASSUME NEW i \in InUse'
        PROVE \E j \in InUse : array'[i] = array[j]
    BY <1>1, <1>2
  <2>3. \A i \in InUse' : time_event_handle'[array'[i]] # NoHandle =>
             ptr_to_position'[time_event_handle'[array'[i]]] = array'[i]
    BY <2>2 DEF HandleInv
  <2> QED BY <2>1, <2>3 DEF HandleInv
<1>6. Time(cur)' = Time(cur)
  BY <1>2 DEF Time
<1> QED BY <1>2, <1>4, <1>5, <1>6

(* The times of execution are comparable.                                    *)
LEMMA TimesAreInts ==
  ASSUME TypeOK, PositionsAgree
  PROVE  /\ elem_no \in Int /\ cur \in Int
         /\ \A i \in InUse : i \in Int /\ array[i] \in Events /\ Time(i) \in Int
  BY BoundAssumption DEF TypeOK, PositionsAgree, InUse, Index, Time, Times

(* A sinking element passes one that is later, a rising one one earlier.     *)
LEMMA BubbleStepInv ==
  ASSUME Inv,
         \/ pc = "down" /\ MustSink /\ BubbleStep(-1)
         \/ pc = "up" /\ MustRise /\ BubbleStep(1)
  PROVE  Inv'
<1> USE NullAssumption, BoundAssumption DEF Inv
<1>0. cur \in InUse /\ InUse = 0 .. (elem_no - 1) /\ cur \in Int /\ elem_no \in Int
  BY TimesAreInts DEF CursorInv, InUse
<1>1. PICK k \in InUse : /\ k = (IF pc = "down" THEN cur - 1 ELSE cur + 1)
                         /\ BubbleStep(IF pc = "down" THEN -1 ELSE 1)
  BY <1>0 DEF MustSink, MustRise
<1>2. /\ k # cur /\ k \in Int /\ cur' = k /\ position[array[k]] = k
      /\ position[array[cur]] = cur /\ op.kind \in {"add", "restart"}
  BY <1>0, <1>1 DEF BubbleStep, PositionsAgree, CursorInv
<1>3. /\ Swap(k, cur)
      /\ UNCHANGED <<elem_no, time_of_execution, time_event_handle, ptr_to_position, pc, op>>
  BY <1>0, <1>1, <1>2 DEF BubbleStep
<1>4. /\ TypeOK' /\ PositionsAgree' /\ CursorInv' /\ HandleInv' /\ InUse' = InUse
      /\ Time(cur)' = Time(cur) /\ array'[cur] = array[k]
      /\ \A i \in InUse : i # cur /\ i # k => array'[i] = array[i]
  BY <1>1, <1>2, <1>3, MoveFacts
<1>5. SortInv'
  <2> DEFINE T1(i) == time_of_execution[array'[i]]
  <2>1. /\ T1(cur) = Time(k)
        /\ \A i \in InUse : i # cur /\ i # k => T1(i) = Time(i)
        /\ \A i \in InUse : Time(i)' = T1(i)
    BY <1>3, <1>4 DEF Time
  <2>2. \A i \in InUse : i \in Int /\ Time(i) \in Int
    BY TimesAreInts
  <2>3. \A i, j \in InUse : i < j /\ i # cur /\ j # cur => Time(i) <= Time(j)
    BY DEF SortInv
  <2> HIDE DEF T1
  <2>4. \A i, j \in InUse : i < j /\ i # k /\ j # k => T1(i) <= T1(j)
    <3> SUFFICES ASSUME NEW i \in InUse, NEW j \in InUse, i < j, i # k, j # k
                 PROVE T1(i) <= T1(j)
      OBVIOUS
    <3>1. CASE i = cur
      <4>1. k < j /\ j # cur
        BY <3>1, <1>0, <1>1, <2>2
      <4> QED BY <3>1, <4>1, <2>1, <2>3, <1>2
    <3>2. CASE j = cur
      <4>1. i < k /\ i # cur
        BY <3>2, <1>0, <1>1, <2>2
      <4> QED BY <3>2, <4>1, <2>1, <2>3, <1>2
    <3>3. CASE i # cur /\ j # cur
      BY <3>3, <2>1, <2>3
    <3> QED BY <3>1, <3>2, <3>3
  <2>5. ASSUME pc = "down", NEW j \in InUse, k < j PROVE Time(cur) <= T1(j)
    <3>1. Time(cur) < Time(k)
      BY <2>5, <1>1 DEF MustSink
    <3>2. CASE j = cur
      BY <3>1, <3>2, <2>1, <2>2, <1>0
    <3>3. CASE j # cur
      <4>1. cur < j BY <3>3, <2>5, <1>0, <1>1, <2>2
      <4> QED BY <4>1, <3>3, <2>1, <2>5, <1>2 DEF SortInv
    <3> QED BY <3>2, <3>3
  <2>6. ASSUME pc = "up", NEW i \in InUse, i < k PROVE T1(i) <= Time(cur)
    <3>1. Time(cur) > Time(k)
      BY <2>6, <1>1 DEF MustRise
    <3>2. CASE i = cur
      BY <3>1, <3>2, <2>1, <2>2, <1>0
    <3>3. CASE i # cur
      <4>1. i < cur BY <3>3, <2>6, <1>0, <1>1, <2>2
      <4> QED BY <4>1, <3>3, <2>1, <2>6, <1>2 DEF SortInv
    <3> QED BY <3>2, <3>3
  <2>7. pc' # "idle" /\ op'.kind # "get_top" /\ pc' = pc
    BY <1>2, <1>3 DEF CursorInv
  <2>8. pc' # "idle" => \A i, j \in InUse' : i < j /\ i # cur' /\ j # cur'
                          => Time(i)' <= Time(j)'
    BY <1>2, <1>4, <2>1, <2>4
  <2>9. ASSUME pc' = "down", NEW j \in InUse', cur' < j PROVE Time(cur)' <= Time(j)'
    BY <1>2, <1>4, <2>1, <2>5, <2>7, <2>9
  <2>10. ASSUME pc' = "up", NEW i \in InUse', i < cur' PROVE Time(i)' <= Time(cur)'
    BY <1>2, <1>4, <2>1, <2>6, <2>7, <2>10
  <2> QED BY <2>7, <2>8, <2>9, <2>10 DEF SortInv, SortedWhenIdle
<1> QED BY <1>4, <1>5

(* The element has found its place: the whole vector is sorted again, and    *)
(* the handle of an added event is filled in.                                *)
LEMMA BubbleEndInv ==
  ASSUME Inv, BubbleEnd, (pc = "down" /\ ~MustSink) \/ (pc = "up" /\ ~MustRise)
  PROVE  Inv'
<1> USE NullAssumption, BoundAssumption DEF Inv
<1>1. /\ cur \in InUse /\ op.event \in Events /\ array[cur] = op.event
      /\ op.kind \in {"add", "restart"} /\ op.handle \in Handles \cup {NoHandle}
  BY DEF CursorInv, TypeOK
<1>2. /\ UNCHANGED <<array, elem_no, position, time_of_execution>> /\ InUse' = InUse
      /\ pc' = "idle" /\ cur' = 0 /\ op' = NoOp
  BY DEF BubbleEnd, Return, InUse
<1>3. TypeOK'
  BY <1>1, <1>2 DEF TypeOK, BubbleEnd, NoOp
<1>4. PositionsAgree' /\ CursorInv'
  BY <1>2 DEF PositionsAgree, CursorInv
<1>5. HandleInv'
  <2>1. \A f \in Events : Member(f)' <=> Member(f)
    BY <1>2 DEF Member
  <2>2. op'.kind = "none"
    BY <1>2 DEF NoOp
  <2>3. Member(op.event)
    BY <1>1 DEF Member
  <2>4. CASE op.kind = "add" /\ op.handle # NoHandle
    <3>1. /\ op.handle \in Handles /\ ptr_to_position[op.handle] = NoEvent
          /\ time_event_handle[op.event] = NoHandle
      BY <2>4, <1>1 DEF HandleInv
    <3>2. /\ ptr_to_position' = [ptr_to_position EXCEPT ![op.handle] = op.event]
          /\ time_event_handle' = [time_event_handle EXCEPT ![op.event] = op.handle]
      BY <2>4 DEF BubbleEnd
    <3>3. NoDanglingHandle'
      BY <3>1, <3>2, <2>1, <2>3, <1>1 DEF HandleInv, NoDanglingHandle, TypeOK
    <3>4. ASSUME NEW i \in InUse', time_event_handle'[array'[i]] # NoHandle
          PROVE ptr_to_position'[time_event_handle'[array'[i]]] = array'[i]
      <4>1. CASE array[i] = op.event
        BY <4>1, <3>1, <3>2, <1>1, <1>2 DEF TypeOK
      <4>2. CASE array[i] # op.event
        <5>1. array[i] \in Events /\ time_event_handle'[array'[i]] = time_event_handle[array[i]]
          BY <4>2, <3>2, <1>1, <1>2 DEF PositionsAgree, TypeOK
        <5>2. ptr_to_position[time_event_handle[array[i]]] = array[i]
          BY <5>1, <3>4, <1>2 DEF HandleInv
        <5>3. time_event_handle[array[i]] # op.handle /\ time_event_handle[array[i]] \in Handles
          BY <5>1, <5>2, <3>1, <3>4 DEF TypeOK
        <5> QED BY <5>1, <5>2, <5>3, <3>2, <1>2 DEF TypeOK
      <4> QED BY <4>1, <4>2
    <3> QED BY <3>3, <3>4, <2>2 DEF HandleInv
  <2>5. CASE ~(op.kind = "add" /\ op.handle # NoHandle)
    BY <2>1, <2>2, <2>5, <1>2 DEF HandleInv, NoDanglingHandle, BubbleEnd, TypeOK
  <2> QED BY <2>4, <2>5
<1>6. SortInv'
  <2>0. /\ cur \in Int /\ elem_no \in Int /\ InUse = 0 .. (elem_no - 1)
        /\ \A i \in InUse : i \in Int /\ Time(i) \in Int /\ Time(i)' = Time(i)
    BY <1>2, TimesAreInts DEF InUse, Time
  <2>1. \A i, j \in InUse : i < j /\ i # cur /\ j # cur => Time(i) <= Time(j)
    BY DEF SortInv
  <2>2. ASSUME NEW i \in InUse, i < cur PROVE Time(i) <= Time(cur)
    <3>1. CASE pc = "up"
      BY <3>1, <2>2, <1>1 DEF SortInv
    <3>2. CASE pc = "down"
      <4>1. cur - 1 \in InUse /\ Time(cur - 1) <= Time(cur)
        BY <3>2, <2>0, <2>2, <1>1 DEF MustSink
      <4>2. Time(i) <= Time(cur - 1)
        BY <4>1, <2>0, <2>1, <2>2
      <4> QED BY <4>1, <4>2, <2>0, <1>1
    <3> QED BY <3>1, <3>2
  <2>3. ASSUME NEW j \in InUse, cur < j PROVE Time(cur) <= Time(j)
    <3>1. CASE pc = "down"
      BY <3>1, <2>3, <1>1 DEF SortInv
    <3>2. CASE pc = "up"
      <4>1. cur + 1 \in InUse /\ Time(cur) <= Time(cur + 1)
        BY <3>2, <2>0, <2>3, <1>1 DEF MustRise
      <4>2. Time(cur + 1) <= Time(j)
        BY <4>1, <2>0, <2>1, <2>3
      <4> QED BY <4>1, <4>2, <2>0, <1>1
    <3> QED BY <3>1, <3>2
  <2>4. \A i, j \in InUse : i < j => Time(i) <= Time(j)
    BY <2>1, <2>2, <2>3
  <2>5. SortedWhenIdle'
    BY <2>4, <2>0, <1>2 DEF SortedWhenIdle
  <2> QED BY <2>5, <1>2 DEF SortInv, NoOp
<1> QED BY <1>3, <1>4, <1>5, <1>6

(* xi_time_event_get_top and _cancel start to move an element to the end.    *)
LEMMA StartDeletionInv ==
  ASSUME Inv, GetTop \/ \E h \in Handles : Cancel(h)
  PROVE  Inv'
<1> USE NullAssumption, BoundAssumption DEF Inv
<1> DEFINE Started(e, k) ==
      /\ array[k] = e /\ pc = "idle" /\ pc' = "del" /\ cur' = k
      /\ \/ op' = [kind |-> "get_top", event |-> e, handle |-> NoHandle] /\ k = 0
         \/ \E h \in Handles : /\ op' = [kind |-> "cancel", event |-> e, handle |-> h]
                               /\ ptr_to_position[h] = e
      /\ UNCHANGED <<array, elem_no, events, ptr_to_position>>
<1>1. PICK e \in Events, k \in InUse : Started(e, k)
  <2>1. CASE GetTop
    <3>1. 0 \in InUse /\ array[0] \in Events
      BY <2>1, TimesAreInts DEF GetTop, InUse
    <3>2. Started(array[0], 0)
      BY <2>1 DEF GetTop
    <3> QED BY <3>1, <3>2
  <2>2. CASE \E h \in Handles : Cancel(h)
    <3>1. PICK h \in Handles : Cancel(h)
      BY <2>2
    <3>2. /\ ptr_to_position[h] \in Events /\ position[ptr_to_position[h]] \in InUse
          /\ array[position[ptr_to_position[h]]] = ptr_to_position[h]
      BY <3>1, HandleFinds DEF Cancel
    <3>3. Started(ptr_to_position[h], position[ptr_to_position[h]])
      BY <3>1, <3>2 DEF Cancel
    <3> QED BY <3>2, <3>3
  <2> QED BY <2>1, <2>2
<1>2. InUse' = InUse /\ k \in Index /\ \A i \in InUse : Time(i)' = Time(i)
  BY <1>1 DEF InUse, Time, events, TypeOK, Index
<1>3. TypeOK' /\ PositionsAgree' /\ CursorInv'
  BY <1>1, <1>2 DEF TypeOK, PositionsAgree, CursorInv, events
<1>4. HandleInv'
  BY <1>1, <1>2 DEF HandleInv, NoDanglingHandle, Member, events
<1>5. SortInv'
  <2>1. \A i, j \in InUse : i < j => Time(i) <= Time(j)
    BY <1>1 DEF SortInv, SortedWhenIdle
  <2>2. k = 0 => \A i \in InUse : time_of_execution[e] <= Time(i)
    <3> SUFFICES ASSUME k = 0, NEW i \in InUse PROVE time_of_execution[e] <= Time(i)
      OBVIOUS
    <3>1. time_of_execution[e] = Time(0) /\ Time(0) \in Int /\ (i = 0 \/ 0 < i)
      BY <1>1, TimesAreInts DEF Time, InUse
    <3> QED BY <3>1, <2>1, <1>1
  <2>3. op'.kind = "get_top" => k = 0 /\ op'.event = e
    BY <1>1
  <2>4. time_of_execution' = time_of_execution
    BY <1>1 DEF events
  <2> QED BY <1>1, <1>2, <2>1, <2>2, <2>3, <2>4 DEF SortInv, SortedWhenIdle
<1> QED BY <1>3, <1>4, <1>5

(* One iteration of xi_time_event_move_to_the_end.                           *)
LEMMA MoveToTheEndInv ==
  ASSUME Inv, MoveToTheEnd
  PROVE  Inv'
<1> USE NullAssumption, BoundAssumption DEF Inv
<1>0. cur \in InUse /\ InUse = 0 .. (elem_no - 1) /\ cur \in Int /\ elem_no \in Int
  BY TimesAreInts DEF CursorInv, InUse, MoveToTheEnd
<1>1. PICK k \in InUse : k = cur + 1
  BY <1>0 DEF MoveToTheEnd
<1>2. /\ k # cur /\ k \in Int /\ cur' = k /\ pc = "del" /\ Swap(cur, k)
      /\ op.kind \in {"get_top", "cancel"}
      /\ UNCHANGED <<elem_no, time_of_execution, time_event_handle, ptr_to_position, pc, op>>
  BY <1>0, <1>1 DEF MoveToTheEnd, CursorInv
<1>3. /\ TypeOK' /\ PositionsAgree' /\ CursorInv' /\ HandleInv' /\ InUse' = InUse
      /\ Time(cur)' = Time(cur) /\ array'[cur] = array[k]
      /\ \A i \in InUse : i # cur /\ i # k => array'[i] = array[i]
  BY <1>1, <1>2, MoveFacts
<1>4. SortInv'
  <2> DEFINE T1(i) == time_of_execution[array'[i]]
  <2>1. /\ T1(cur) = Time(k) /\ T1(k) = Time(cur)
        /\ \A i \in InUse : i # cur /\ i # k => T1(i) = Time(i)
        /\ \A i \in InUse : Time(i)' = T1(i)
    BY <1>2, <1>3 DEF Time
  <2>2. \A i \in InUse : i \in Int /\ Time(i) \in Int
    BY TimesAreInts
  <2>3. \A i, j \in InUse : i < j /\ i # cur /\ j # cur => Time(i) <= Time(j)
    BY <1>2 DEF SortInv
  <2> HIDE DEF T1
  <2>4. \A i, j \in InUse : i < j /\ i # k /\ j # k => T1(i) <= T1(j)
    <3> SUFFICES ASSUME NEW i \in InUse, NEW j \in InUse, i < j, i # k, j # k
                 PROVE T1(i) <= T1(j)
      OBVIOUS
    <3>1. CASE i = cur
      <4>1. k < j /\ j # cur
        BY <3>1, <1>0, <1>1, <2>2
      <4> QED BY <3>1, <4>1, <2>1, <2>3, <1>2
    <3>2. CASE j = cur
      <4>1. i < k /\ i # cur
        BY <3>2, <1>0, <1>1, <2>2
      <4> QED BY <3>2, <4>1, <2>1, <2>3, <1>2
    <3>3. CASE i # cur /\ j # cur
      BY <3>3, <2>1, <2>3
    <3> QED BY <3>1, <3>2, <3>3
  <2>5. \A i, j \in InUse' : i < j /\ i # cur' /\ j # cur' => Time(i)' <= Time(j)'
    BY <1>2, <1>3, <2>1, <2>4
  <2>6. ASSUME op'.kind = "get_top", NEW i \in InUse'
        PROVE time_of_execution'[op'.event] <= Time(i)'
    <3>1. PICK j \in InUse : T1(i) = Time(j)
      BY <1>0, <1>3, <2>1
    <3> QED BY <3>1, <2>6, <1>2, <1>3, <2>1 DEF SortInv
  <2> QED BY <1>2, <2>5, <2>6 DEF SortInv, SortedWhenIdle
<1> QED BY <1>3, <1>4

(* What the removal of the last element does to the members and the handles. *)
LEMMA DisposeFacts ==
  ASSUME Inv, Dispose
  PROVE  /\ op.event \in Events /\ array[cur] = op.event
         /\ cur \in InUse /\ cur = elem_no - 1
         /\ elem_no' = elem_no - 1 /\ InUse' = InUse \ {cur}
         /\ \A i \in InUse' : array'[i] = array[i] /\ array[i] # op.event
         /\ \A f \in Events : f # op.event =>
               /\ position'[f] = position[f]
               /\ time_of_execution'[f] = time_of_execution[f]
               /\ time_event_handle'[f] = time_event_handle[f]
         /\ pc' = "idle" /\ cur' = 0 /\ op' = NoOp
         /\ \A h \in Handles : ptr_to_position'[h] =
               IF ptr_to_position[h] = op.event THEN NoEvent ELSE ptr_to_position[h]
         /\ \A f \in Events : Member(f)' <=> Member(f) /\ f # op.event
<1> USE NullAssumption, BoundAssumption DEF Inv
<1>0. /\ cur \in InUse /\ InUse = 0 .. (elem_no - 1) /\ cur = elem_no - 1
      /\ cur \in Int /\ elem_no \in Int
  BY TimesAreInts DEF CursorInv, InUse, Dispose
<1>1. PICK e \in Events : e = array[cur] /\ e = op.event
  BY DEF CursorInv, Dispose
<1>2. /\ elem_no' = elem_no - 1 /\ InUse' = InUse \ {cur} /\ InUse \subseteq Index
      /\ pc' = "idle" /\ cur' = 0 /\ op' = NoOp
      /\ \A i \in InUse' : i \in InUse /\ array'[i] = array[i] /\ array[i] # e
      /\ \A f \in Events : f # e => /\ position'[f] = position[f]
                                   /\ time_of_execution'[f] = time_of_execution[f]
                                   /\ time_event_handle'[f] = time_event_handle[f]
  <2>1. elem_no' = elem_no - 1 /\ InUse' = InUse \ {cur} /\ InUse \subseteq Index
    <3>1. elem_no' = elem_no - 1
      BY DEF Dispose, DeleteLast
    <3>2. elem_no \in Nat /\ elem_no <= Capacity
      BY DEF TypeOK
    <3>3. InUse' = 0 .. (elem_no - 1 - 1)
      BY <3>1 DEF InUse
    <3>4. InUse' = InUse \ {cur}
      BY <3>2, <3>3, <1>0
    <3>5. InUse \subseteq Index
      BY <3>2, <1>0 DEF Index
    <3> QED BY <3>1, <3>4, <3>5
  <2>2. \A i \in InUse' : i \in InUse /\ array'[i] = array[i] /\ array[i] # e
    <3> SUFFICES ASSUME NEW i \in InUse'
                 PROVE i \in InUse /\ array'[i] = array[i] /\ array[i] # e
      OBVIOUS
    <3>1. i \in InUse /\ i # cur /\ i \in Index
      BY <2>1
    <3>2. array' = [array EXCEPT ![cur] = NoEvent]
      BY <1>0 DEF Dispose, DeleteLast
    <3>3. array'[i] = array[i]
      BY <3>1, <3>2 DEF TypeOK
    <3> QED BY <3>1, <3>3, <1>0, <1>1 DEF PositionsAgree
  <2>3. \A f \in Events : f # e => /\ position'[f] = position[f]
                                   /\ time_of_execution'[f] = time_of_execution[f]
                                   /\ time_event_handle'[f] = time_event_handle[f]
    BY <1>1 DEF Dispose, DeleteLast, TypeOK
  <2>4. pc' = "idle" /\ cur' = 0 /\ op' = NoOp
    BY DEF Dispose, Return
  <2> QED BY <2>1, <2>2, <2>3, <2>4
<1>3. ASSUME NEW h \in Handles
      PROVE ptr_to_position[h] = e <=> time_event_handle[e] = h
  <2>1. ptr_to_position[h] = e => time_event_handle[e] = h
    BY <1>1 DEF HandleInv, NoDanglingHandle
  <2>2. time_event_handle[array[cur]] = h => ptr_to_position[h] = array[cur]
    BY <1>0 DEF HandleInv
  <2> QED BY <2>1, <2>2, <1>1
<1>4. ASSUME NEW f \in Events PROVE Member(f)' <=> Member(f) /\ f # e
  BY <1>0, <1>1, <1>2 DEF Member
<1>5. ASSUME NEW h \in Handles
      PROVE ptr_to_position'[h] = IF ptr_to_position[h] = e THEN NoEvent ELSE ptr_to_position[h]
  BY <1>3, <1>1 DEF Dispose, TypeOK
<1> QED BY <1>0, <1>1, <1>2, <1>4, <1>5

(* The last element leaves the vector and its handle is unset.               *)
LEMMA DisposeInv ==
  ASSUME Inv, Dispose
  PROVE  Inv'
<1> USE NullAssumption, BoundAssumption DEF Inv
<1>0. /\ cur \in InUse /\ InUse = 0 .. (elem_no - 1) /\ cur = elem_no - 1
      /\ cur \in Int /\ elem_no \in Int
  BY TimesAreInts DEF CursorInv, InUse, Dispose
<1>1. PICK e \in Events : e = array[cur] /\ e = op.event
  BY DEF CursorInv, Dispose
<1>2. /\ elem_no' = elem_no - 1 /\ InUse' = InUse \ {cur}
      /\ pc' = "idle" /\ cur' = 0 /\ op' = NoOp
      /\ \A i \in InUse' : i \in InUse /\ array'[i] = array[i] /\ array[i] # e
      /\ \A f \in Events : f # e => /\ position'[f] = position[f]
                                   /\ time_of_execution'[f] = time_of_execution[f]
                                   /\ time_event_handle'[f] = time_event_handle[f]
  BY <1>1, DisposeFacts
<1>3. TypeOK'
  <2>1. elem_no' \in 0 .. Capacity /\ array' \in [Index -> Events \cup {NoEvent}]
    <3>1. elem_no' = elem_no - 1 /\ elem_no \in 0 .. Capacity /\ 0 <= cur
      BY <1>0, <1>2 DEF TypeOK
    <3>2. array' = [array EXCEPT ![elem_no - 1] = NoEvent]
      BY DEF Dispose, DeleteLast
    <3>3. array \in [Index -> Events \cup {NoEvent}]
      BY DEF TypeOK
    <3>4. elem_no' \in 0 .. Capacity
      BY <3>1, <1>0
    <3>5. array' \in [Index -> Events \cup {NoEvent}]
      BY <3>2, <3>3
    <3> QED BY <3>4, <3>5
  <2>2. /\ position' \in [Events -> Index \cup {NoPos}]
        /\ time_of_execution' \in [Events -> Times]
        /\ time_event_handle' \in [Events -> Handles \cup {NoHandle}]
    BY <1>1 DEF Dispose, DeleteLast, TypeOK, Times
  <2>3. ptr_to_position' \in [Handles -> Events \cup {NoEvent}]
    BY <1>1 DEF Dispose, TypeOK
  <2>4. /\ pc' \in {"idle", "down", "up", "del"} /\ cur' \in Index \cup {0}
        /\ op' \in [kind: {"none", "add", "restart", "get_top", "cancel"},
                    event: Events \cup {NoEvent}, handle: Handles \cup {NoHandle}]
    BY <1>2 DEF NoOp
  <2> QED BY <2>1, <2>2, <2>3, <2>4 DEF TypeOK
<1>4. PositionsAgree' /\ CursorInv'
  BY <1>2 DEF PositionsAgree, CursorInv
<1>5. /\ \A h \in Handles : ptr_to_position'[h] =
             IF ptr_to_position[h] = e THEN NoEvent ELSE ptr_to_position[h]
      /\ \A f \in Events : Member(f)' <=> Member(f) /\ f # e
  BY <1>1, DisposeFacts
<1>6. HandleInv'
  <2>1. NoDanglingHandle'
    BY <1>2, <1>5 DEF HandleInv, NoDanglingHandle, TypeOK
  <2>2. ASSUME NEW i \in InUse', time_event_handle'[array'[i]] # NoHandle
        PROVE ptr_to_position'[time_event_handle'[array'[i]]] = array'[i]
    <3>1. array[i] \in Events /\ time_event_handle'[array'[i]] = time_event_handle[array[i]]
      BY <1>2 DEF PositionsAgree
    <3>2. /\ time_event_handle[array[i]] \in Handles
          /\ ptr_to_position[time_event_handle[array[i]]] = array[i]
      BY <3>1, <2>2, <1>2 DEF HandleInv, TypeOK
    <3> QED BY <3>1, <3>2, <1>2, <1>5
  <2> QED BY <2>1, <2>2, <1>2 DEF HandleInv, NoOp
<1>7. SortInv'
  <2>1. ASSUME NEW i \in InUse', NEW j \in InUse', i < j PROVE Time(i)' <= Time(j)'
    <3>1. Time(i)' = Time(i) /\ Time(j)' = Time(j)
      BY <1>2 DEF Time, PositionsAgree
    <3>2. Time(i) <= Time(j)
      BY <2>1, <1>2 DEF SortInv, Dispose
    <3> QED BY <3>1, <3>2
  <2> QED BY <2>1, <1>2 DEF SortInv, SortedWhenIdle, NoOp
<1> QED BY <1>3, <1>4, <1>6, <1>7

LEMMA NextInv == Inv /\ [Next]_vars => Inv'
<1> SUFFICES ASSUME Inv, [Next]_vars PROVE Inv'
  OBVIOUS
<1>1. ASSUME NEW e \in Events, NEW h \in Handles \cup {NoHandle}, NEW t \in Times,
             Add(e, h, t)
      PROVE Inv'
  BY <1>1, AddInv
<1>2. ASSUME NEW h \in Handles, NEW t \in Times, Restart(h, t) PROVE Inv'
  BY <1>2, RestartInv
<1>3. CASE BubbleDown
  <2>1. CASE MustSink BY <1>3, <2>1, BubbleStepInv DEF BubbleDown
  <2>2. CASE ~MustSink BY <1>3, <2>2, BubbleEndInv DEF BubbleDown
  <2> QED BY <2>1, <2>2
<1>4. CASE BubbleUp
  <2>1. CASE MustRise BY <1>4, <2>1, BubbleStepInv DEF BubbleUp
  <2>2. CASE ~MustRise BY <1>4, <2>2, BubbleEndInv DEF BubbleUp
  <2> QED BY <2>1, <2>2
<1>5. CASE GetTop
  BY <1>5, StartDeletionInv
<1>6. CASE \E h \in Handles : Cancel(h)
  BY <1>6, StartDeletionInv
<1>7. CASE MoveToTheEnd
  BY <1>7, MoveToTheEndInv
<1>8. CASE Dispose
  BY <1>8, DisposeInv
<1>9. CASE UNCHANGED vars
  <2> USE <1>9 DEF vars, events
  <2>1. TypeOK' /\ PositionsAgree' /\ CursorInv'
    BY DEF Inv, TypeOK, PositionsAgree, CursorInv, InUse
  <2>2. HandleInv'
    BY DEF Inv, HandleInv, NoDanglingHandle, Member, InUse
  <2>3. SortInv'
    BY DEF Inv, SortInv, SortedWhenIdle, Time, InUse
  <2> QED BY <2>1, <2>2, <2>3 DEF Inv
<1> QED BY <1>1, <1>2, <1>3, <1>4, <1>5, <1>6, <1>7, <1>8, <1>9 DEF Next

LEMMA InvAlways == Spec => []Inv
  BY InitInv, NextInv, PTL DEF Spec

(* In every loop iteration the cursors stay inside the vector, the stored    *)
(* indices of xi_time_event_t.position are right, so xi_time_event_restart   *)
(* and _cancel find the event they are meant for, and no handle points into  *)
(* a freed event; between operations the vector is sorted by time, as the    *)
(* comment on xi_time_event_bubble_and_sort_down says.                       *)
THEOREM ContainerCorrect == Spec => []ContainerInv
  BY InvAlways, PTL DEF Inv, HandleInv, SortInv, ContainerInv

-----------------------------------------------------------------------------
LEMMA InitRefines == Init => T!Init
  BY DEF Init, T!Init, T!NotSet, dueBar, ownerBar, Member, InUse, NoOp

LEMMA AddRefines ==
  ASSUME Inv, NEW e \in Events, NEW h \in Handles \cup {NoHandle}, NEW t \in Times,
         Add(e, h, t)
  PROVE  T!Arm(e, h, t)
<1> USE NullAssumption, BoundAssumption DEF Inv
<1>1. /\ elem_no \in Index /\ InUse' = InUse \cup {elem_no} /\ elem_no \notin InUse
      /\ InUse \subseteq Index
  BY DEF Add, TypeOK, Index, InUse
<1>2. \A i \in InUse : array'[i] = array[i]
  BY <1>1 DEF Add, TypeOK
<1>3. array'[elem_no] = e
  BY <1>1 DEF Add, TypeOK
<1>4. \A f \in Events : Member(f)' <=> Member(f) \/ f = e
  BY <1>1, <1>2, <1>3 DEF Member
<1>5. dueBar' = [dueBar EXCEPT ![e] = t]
  BY <1>4 DEF dueBar, Add, TypeOK
<1>6. op.kind = "none" /\ op'.kind = "add" /\ op'.event = e /\ op'.handle = h
  BY DEF Add, CursorInv, NoOp
<1>7. ~T!Armed(e)
  BY DEF Add, T!Armed, T!NotSet, dueBar
<1>8. h \in Handles => ownerBar[h] = NoEvent
  BY <1>6 DEF Add, ownerBar
<1>9. ownerBar' = [g \in Handles |-> IF g = h THEN e ELSE ownerBar[g]]
  BY <1>6 DEF Add, ownerBar
<1> QED BY <1>5, <1>7, <1>8, <1>9 DEF T!Arm

LEMMA RestartRefines ==
  ASSUME Inv, NEW h \in Handles, NEW t \in Times, Restart(h, t)
  PROVE  T!Rearm(h, t)
<1> USE NullAssumption DEF Inv
<1>1. PICK e \in Events, index \in InUse : /\ e = ptr_to_position[h]
                                         /\ index = position[e] /\ array[index] = e
  BY HandleFinds DEF Restart
<1>2. /\ time_of_execution' = [time_of_execution EXCEPT ![e] = t] /\ Member(e)
      /\ UNCHANGED <<array, elem_no, ptr_to_position>>
      /\ op.kind = "none" /\ op'.kind = "restart"
  BY <1>1 DEF Restart, CursorInv, NoOp, Member
<1>3. \A f \in Events : Member(f)' <=> Member(f)
  BY <1>2 DEF Member, InUse
<1>4. UNCHANGED ownerBar /\ ownerBar[h] = e
  BY <1>1, <1>2 DEF ownerBar
<1>5. dueBar' = [dueBar EXCEPT ![e] = t]
  BY <1>2, <1>3 DEF dueBar, TypeOK
<1>6. T!Armed(e)
  BY <1>2 DEF T!Armed, T!NotSet, dueBar, TypeOK, Times
<1> QED BY <1>4, <1>5, <1>6 DEF T!Rearm

LEMMA DisposeRefines ==
  ASSUME Inv, Dispose
  PROVE  T!Next
<1> USE NullAssumption, BoundAssumption DEF Inv
<1>1. PICK e \in Events : e = op.event /\ e = array[cur] /\ Member(e)
  BY DisposeFacts DEF Member
<1>2. op.kind \in {"get_top", "cancel"} /\ op'.kind = "none"
  BY DisposeFacts DEF CursorInv, Dispose, NoOp
<1>3. T!Armed(e)
  BY <1>1 DEF T!Armed, T!NotSet, dueBar, TypeOK, Times
<1>4. dueBar' = [dueBar EXCEPT ![e] = -1]
  <2>1. \A f \in Events : Member(f)' <=> Member(f) /\ f # e
    BY <1>1, DisposeFacts
  <2>2. \A f \in Events : f # e => time_of_execution'[f] = time_of_execution[f]
    BY <1>1, DisposeFacts
  <2> QED BY <2>1, <2>2 DEF dueBar
<1>5. T!Forget(e)
  <2>1. \A h \in Handles : ptr_to_position'[h] =
             IF ptr_to_position[h] = e THEN NoEvent ELSE ptr_to_position[h]
    BY <1>1, DisposeFacts
  <2> QED BY <2>1, <1>2 DEF T!Forget, ownerBar
<1>6. CASE op.kind = "get_top"
  <2>1. ASSUME NEW f \in Events, T!Armed(f) PROVE dueBar[e] <= dueBar[f]
    <3>1. Member(f)
      BY <2>1 DEF T!Armed, T!NotSet, dueBar
    <3>2. PICK i \in InUse : array[i] = f
      BY <3>1 DEF Member
    <3>3. time_of_execution[e] <= time_of_execution[f]
      BY <3>2, <1>1, <1>6 DEF SortInv, Time
    <3> QED BY <3>1, <3>3, <1>1 DEF dueBar
  <2>2. T!Expire(e)
    BY <2>1, <1>3, <1>4, <1>5 DEF T!Expire, T!NotSet
  <2> QED BY <2>2 DEF T!Next
<1>7. CASE op.kind = "cancel"
  <2>1. PICK h \in Handles : h = op.handle /\ ptr_to_position[h] = e
    BY <1>1, <1>7 DEF HandleInv
  <2>2. ownerBar[h] = e
    BY <2>1, <1>7 DEF ownerBar
  <2>3. T!Cancel(h)
    BY <2>2, <1>3, <1>4, <1>5 DEF T!Cancel, T!NotSet
  <2> QED BY <2>3 DEF T!Next
<1> QED BY <1>2, <1>6, <1>7

(* Every other step of a loop is invisible to the callers.                   *)
LEMMA LoopRefines ==
  ASSUME Inv, BubbleDown \/ BubbleUp \/ MoveToTheEnd \/ GetTop \/ (\E h \in Handles : Cancel(h))
  PROVE  UNCHANGED <<dueBar, ownerBar>>
<1> USE NullAssumption, BoundAssumption DEF Inv
<1>1. CASE \/ pc = "down" /\ MustSink /\ BubbleStep(-1)
           \/ pc = "up" /\ MustRise /\ BubbleStep(1)
           \/ MoveToTheEnd
  <2>1. cur \in InUse /\ InUse = 0 .. (elem_no - 1) /\ cur \in Int /\ elem_no \in Int
    BY <1>1, TimesAreInts DEF CursorInv, InUse, MoveToTheEnd
  <2>2. PICK k \in InUse : /\ k # cur /\ cur' = k
                           /\ Swap(cur, k) \/ Swap(k, cur)
    <3>1. CASE pc = "down" /\ MustSink /\ BubbleStep(-1)
      <4>1. cur - 1 \in InUse /\ cur - 1 # cur /\ cur + -1 = cur - 1
        BY <3>1, <2>1 DEF MustSink
      <4>2. cur' = cur - 1 /\ Swap(cur - 1, cur)
        BY <3>1, <4>1, <2>1 DEF BubbleStep, PositionsAgree
      <4> QED BY <4>1, <4>2
    <3>2. CASE pc = "up" /\ MustRise /\ BubbleStep(1)
      <4>1. cur + 1 \in InUse /\ cur + 1 # cur
        BY <3>2, <2>1 DEF MustRise
      <4>2. cur' = cur + 1 /\ Swap(cur + 1, cur)
        BY <3>2, <4>1, <2>1 DEF BubbleStep, PositionsAgree
      <4> QED BY <4>1, <4>2
    <3>3. CASE MoveToTheEnd
      <4>1. cur + 1 \in InUse /\ cur + 1 # cur /\ cur' = cur + 1 /\ Swap(cur, cur + 1)
        BY <3>3, <2>1 DEF MoveToTheEnd
      <4> QED BY <4>1
    <3> QED BY <1>1, <3>1, <3>2, <3>3
  <2>3. /\ pc # "idle"
        /\ UNCHANGED <<elem_no, time_of_execution, time_event_handle, ptr_to_position, pc, op>>
    BY <1>1 DEF BubbleStep, MoveToTheEnd
  <2>4. \A e \in Events : Member(e)' <=> Member(e)
    BY <2>2, <2>3, MoveFacts
  <2> QED BY <2>3, <2>4 DEF dueBar, ownerBar
<1>2. CASE BubbleEnd /\ pc \in {"down", "up"}
  <2>1. /\ op.event \in Events /\ op.kind \in {"add", "restart"}
        /\ op.handle \in Handles \cup {NoHandle}
    BY <1>2 DEF CursorInv, TypeOK
  <2>2. UNCHANGED <<array, elem_no, time_of_execution>> /\ op'.kind = "none"
    BY <1>2 DEF BubbleEnd, Return, NoOp
  <2>3. \A e \in Events : Member(e)' <=> Member(e)
    BY <2>2 DEF Member, InUse
  <2>4. UNCHANGED ownerBar
    <3>1. CASE op.kind = "add" /\ op.handle # NoHandle
      BY <3>1, <1>2, <2>1, <2>2 DEF BubbleEnd, ownerBar, TypeOK
    <3>2. CASE ~(op.kind = "add" /\ op.handle # NoHandle)
      BY <3>2, <1>2, <2>1, <2>2 DEF BubbleEnd, ownerBar, TypeOK
    <3> QED BY <3>1, <3>2
  <2> QED BY <2>2, <2>3, <2>4 DEF dueBar
<1>3. CASE GetTop \/ (\E h \in Handles : Cancel(h))
  <2>1. /\ UNCHANGED <<array, elem_no, time_of_execution, ptr_to_position>>
        /\ op.kind # "add" /\ op'.kind # "add"
    BY <1>3 DEF GetTop, Cancel, events, CursorInv, NoOp
  <2>2. \A e \in Events : Member(e)' <=> Member(e)
    BY <2>1 DEF Member, InUse
  <2> QED BY <2>1, <2>2 DEF dueBar, ownerBar
<1> QED BY <1>1, <1>2, <1>3 DEF BubbleDown, BubbleUp

(* The container implements the abstract timers, for every vector size and   *)
(* every interleaving of calls: xi_time_event_get_top returns the earliest   *)
(* event, and a handle reaches the event it was armed with, whatever moves   *)
(* the loops made in between.                                                *)
THEOREM ContainerImplementsTimers == Spec => ImplementsTimers
<1>1. Inv /\ [Next]_vars => [T!Next]_(T!tvars)
  <2> SUFFICES ASSUME Inv, [Next]_vars PROVE T!Next \/ UNCHANGED <<dueBar, ownerBar>>
    BY DEF T!tvars
  <2>1. ASSUME NEW e \in Events, NEW h \in Handles \cup {NoHandle}, NEW t \in Times,
               Add(e, h, t)
        PROVE T!Next
    BY <2>1, AddRefines DEF T!Next, T!Times, Times
  <2>2. ASSUME NEW h \in Handles, NEW t \in Times, Restart(h, t) PROVE T!Next
    BY <2>2, RestartRefines DEF T!Next, T!Times, Times
  <2>3. CASE BubbleDown \/ BubbleUp \/ MoveToTheEnd \/ GetTop \/ (\E h \in Handles : Cancel(h))
    BY <2>3, LoopRefines
  <2>4. CASE Dispose
    BY <2>4, DisposeRefines
  <2>5. CASE UNCHANGED vars
    BY <2>5 DEF vars, events, dueBar, ownerBar, Member, InUse
  <2> QED BY <2>1, <2>2, <2>3, <2>4, <2>5 DEF Next
<1> QED BY <1>1, InitRefines, InvAlways, PTL DEF Spec, ImplementsTimers, T!Spec
=============================================================================

---------------------------- MODULE BackoffProofs ----------------------------
(* Proofs about the reconnection backoff, for every pair of look-up tables.  *)
EXTENDS Backoff, TLAPS

(* BackoffInv is inductive: its second part bounds the number of contexts by *)
(* the reference count, without which a deletion could take it below zero.   *)

LEMMA LutFacts ==
  /\ LastIndex \in Nat
  /\ \A i \in 0 .. LastIndex : /\ DecayLut[i + 1] \in Nat
                               /\ BackoffLut[i + 1] \in Nat
                               /\ IncIndex(i) \in 0 .. LastIndex
                               /\ DecIndex(i) \in 0 .. LastIndex
  BY LutAssumption DEF LastIndex, IncIndex, DecIndex, Smaller, Larger

LEMMA InitInv == Init => BackoffInv
  BY LutFacts, ContextsAssumption
  DEF Init, BackoffInv, TypeOK, NoEventWithoutDispatcher, NotScheduled, Classes

LEMMA NextInv == BackoffInv /\ [Next]_vars => BackoffInv'
<1> SUFFICES ASSUME BackoffInv, [Next]_vars PROVE BackoffInv'
  OBVIOUS
<1> USE ContextsAssumption DEF BackoffInv, TypeOK, NoEventWithoutDispatcher, NotScheduled
<1>1. CASE CreateContext
  BY <1>1 DEF CreateContext
<1>2. CASE DeleteContext
  BY <1>2 DEF DeleteContext
<1>3. ASSUME NEW state \in States, UpdateBackoffPenalty(state) PROVE BackoffInv'
  <2>1. backoff_class' \in Classes
    BY <1>3 DEF UpdateBackoffPenalty, ClassifyState, Classes
  <2>2. CASE backoff_class' = "NONE"
    BY <1>3, <2>1, <2>2 DEF UpdateBackoffPenalty
  <2>3. CASE backoff_class' # "NONE"
    BY <1>3, <2>1, <2>3, LutFacts DEF UpdateBackoffPenalty, RestartUpdateTime
  <2> QED BY <2>2, <2>3
<1>4. CASE ApplyCooldown
  BY <1>4, LutFacts DEF ApplyCooldown, RestartUpdateTime
<1>5. CASE Tick
  BY <1>5 DEF Tick
<1>6. CASE UNCHANGED vars
  BY <1>6 DEF vars
<1> QED BY <1>1, <1>2, <1>3, <1>4, <1>5, <1>6 DEF Next

(* The backoff status stays well typed, so xi_inc_backoff_penalty and        *)
(* xi_dec_backoff_penalty never index outside the configured tables, and no  *)
(* cooldown event remains once xi_delete_context has destroyed the event     *)
(* dispatcher it would run in, even if context creations failed before.      *)
THEOREM BackoffCorrect == Spec => []BackoffInv
  BY InitInv, NextInv, PTL DEF Spec

(* xi_apply_cooldown reschedules itself as long as there is a penalty: only  *)
(* the deletion of the last context drops a cooldown that was still needed.  *)
THEOREM CooldownIsKept == Spec => CooldownKept
<1> DEFINE Kept == next_update # NotScheduled /\ backoff_lut_i > 0
                     => \/ next_update' # NotScheduled
                        \/ backoff_lut_i' = 0
                        \/ globals_ref_count' = 0
<1>1. BackoffInv /\ [Next]_vars => [Kept]_vars
  <2> SUFFICES ASSUME BackoffInv, Next, Kept = FALSE PROVE FALSE
    BY DEF vars
  <2> USE DEF BackoffInv, TypeOK, NotScheduled
  <2>1. CASE CreateContext \/ Tick
    BY <2>1 DEF CreateContext, Tick
  <2>2. CASE DeleteContext
    BY <2>2 DEF DeleteContext
  <2>3. ASSUME NEW state \in States, UpdateBackoffPenalty(state) PROVE FALSE
    BY <2>3, LutFacts DEF UpdateBackoffPenalty, RestartUpdateTime
  <2>4. CASE ApplyCooldown
    BY <2>4, LutFacts DEF ApplyCooldown, RestartUpdateTime
  <2> QED BY <2>1, <2>2, <2>3, <2>4 DEF Next
<1> QED BY <1>1, BackoffCorrect, PTL DEF Spec, CooldownKept

-----------------------------------------------------------------------------
(* The penalties of an index lie between the table's value minus half the    *)
(* range and that value plus what the random offset can add.                 *)
LEMMA PenaltyBounds ==
  ASSUME NEW i \in 0 .. LastIndex, NEW p \in Penalties(i)
  PROVE  /\ p \in Nat
         /\ p >= BackoffLut[1]
         /\ p >= BackoffLut[i + 1] - HalfRange(i)
         /\ \/ p = BackoffLut[1]
            \/ p <= BackoffLut[i + 1] + FullRange(i) - HalfRange(i)
<1>1. FullRange(i) \in Nat /\ BackoffLut[i + 1] \in Nat /\ BackoffLut[1] \in Nat
  BY LutAssumption DEF FullRange, LastIndex
<1>2. HalfRange(i) \in Nat
  BY <1>1 DEF HalfRange, Larger
<1>3. PICK r \in 0 .. FullRange(i) : p = Penalty(i, r)
  BY DEF Penalties
<1> QED BY <1>1, <1>2, <1>3 DEF Penalty, Larger

(* With a table that doubles, as XI_BACKOFF_LUT does, the delay after one    *)
(* more failure is longer than any delay drawn before it.                    *)
THEOREM PenaltyAlwaysGrows == ASSUME LutDoubles PROVE Spec => PenaltyGrows
<1> DEFINE Grows == backoff_lut_i' > backoff_lut_i
                      => \A p \in Penalties(backoff_lut_i), q \in Penalties(backoff_lut_i') : p < q
<1>1. ASSUME NEW i \in 0 .. LastIndex, i + 1 \in 0 .. LastIndex,
             NEW p \in Penalties(i), NEW q \in Penalties(i + 1)
      PROVE  p < q
  <2> DEFINE a == FullRange(i)  b == BackoffLut[i + 1]  c == BackoffLut[i + 2]
  <2>1. a \in Nat /\ b \in Nat /\ c \in Nat /\ BackoffLut[1] \in Nat
    <3>1. (i + 1) + 1 = i + 2
      BY <1>1
    <3>2. BackoffLut[i + 1] \in Nat /\ BackoffLut[(i + 1) + 1] \in Nat
      BY <1>1, LutFacts
    <3>3. BackoffLut[1] \in Nat
      BY LutAssumption
    <3>4. FullRange(i) \in Nat
      <4>1. i # 0 => i - 1 \in 0 .. LastIndex /\ (i - 1) + 1 = i
        BY <1>1, LutFacts
      <4>2. i # 0 => BackoffLut[i] \in Nat
        BY <4>1, LutFacts
      <4> QED BY <4>2 DEF FullRange
    <3> QED BY <3>1, <3>2, <3>3, <3>4
  <2>2. c >= 2 * b /\ c >= BackoffLut[1] + 2 /\ FullRange(i + 1) = b
    <3>1. (i + 1) + 1 = i + 2 /\ i + 1 # 0 /\ i + 1 \in 1 .. LastIndex
      BY <1>1
    <3>2. BackoffLut[(i + 1) + 1] >= 2 * BackoffLut[i + 1]
          /\ BackoffLut[(i + 1) + 1] >= BackoffLut[1] + 2
      BY <3>1 DEF LutDoubles
    <3>3. FullRange(i + 1) = b
      BY <3>1 DEF FullRange
    <3> QED BY <3>1, <3>2, <3>3
  <2>3. i = 0 => a = 0 /\ b = BackoffLut[1]
    BY DEF FullRange
  <2>4. i > 0 => b >= 2 * a /\ b >= BackoffLut[1] + 2
    <3> HAVE i > 0
    <3>1. i \in 1 .. LastIndex /\ FullRange(i) = BackoffLut[i]
      BY <1>1 DEF FullRange
    <3> QED BY <3>1 DEF LutDoubles
  <2>5. q >= c - Larger(b \div 2, 1)
    <3>1. i + 2 = (i + 1) + 1
      OBVIOUS
    <3> QED BY <1>1, <2>2, <3>1, PenaltyBounds DEF HalfRange
  <2>6. p = BackoffLut[1] \/ p <= b + a - Larger(a \div 2, 1)
    BY PenaltyBounds DEF HalfRange
  <2>7. p \in Nat /\ q \in Nat
    BY <1>1, PenaltyBounds
  <2> HIDE DEF a, b, c
  <2> QED BY <2>1, <2>2, <2>3, <2>4, <2>5, <2>6, <2>7 DEF Larger
<1>2. BackoffInv /\ [Next]_vars => [Grows]_vars
  <2> SUFFICES ASSUME BackoffInv, Next, backoff_lut_i' > backoff_lut_i PROVE Grows
    BY DEF vars
  <2>1. backoff_lut_i' = backoff_lut_i + 1
    BY LutFacts DEF BackoffInv, TypeOK, Next, CreateContext, DeleteContext, UpdateBackoffPenalty,
       ApplyCooldown, Tick, IncIndex, DecIndex, Smaller, Larger
  <2>2. backoff_lut_i' \in 0 .. LastIndex /\ backoff_lut_i \in 0 .. LastIndex
    BY NextInv DEF BackoffInv, TypeOK
  <2> QED BY <1>1, <2>1, <2>2
<1> QED BY <1>2, BackoffCorrect, PTL DEF Spec, PenaltyGrows
=============================================================================

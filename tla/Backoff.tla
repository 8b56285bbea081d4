------------------------------- MODULE Backoff -------------------------------
(***************************************************************************)
(* The reconnection backoff of the Xively client (xi_backoff_status_api.c). *)
(*                                                                         *)
(* One global record, xi_globals.backoff_status, is shared by every context *)
(* of the process: an index into two look-up tables, the class of the last  *)
(* state seen by the MQTT logic layer, and the handle of the time event     *)
(* that lowers the index again.  xi_connect delays the connection attempt   *)
(* by the penalty of the current index.                                     *)
(*                                                                         *)
(* The time event is modelled by the seconds left until it is due, so that  *)
(* no clock is needed: the dispatcher computes current_step + delay when an *)
(* event is added or restarted, and time only moves forward.                *)
(***************************************************************************)
EXTENDS Integers, Sequences

CONSTANTS
  BackoffLut,      \* penalty in seconds for each index (1-based here)
  DecayLut,        \* seconds an index is kept before it may be lowered
  MaxContexts,     \* XI_MAX_NUM_CONTEXTS
  MaxRefCount      \* bound on failed context creations, for model checking

ASSUME LutAssumption ==
  /\ BackoffLut \in Seq(Nat) /\ DecayLut \in Seq(Nat)
  /\ Len(BackoffLut) > 0 /\ Len(DecayLut) = Len(BackoffLut)

ASSUME ContextsAssumption ==
  /\ MaxContexts \in Nat \ {0} /\ MaxRefCount \in Nat /\ MaxRefCount >= MaxContexts

VARIABLES
  contexts,            \* number of live contexts (entries of context_handles_vector)
  globals_ref_count,   \* xi_globals.globals_ref_count
  backoff_lut_i,       \* index of the current penalty, from 0
  backoff_class,       \* class of the last state reported by the MQTT layer
  next_update          \* seconds left of the cooldown event, or NotScheduled

vars == <<contexts, globals_ref_count, backoff_lut_i, backoff_class, next_update>>

NotScheduled == -1

LastIndex == Len(BackoffLut) - 1
Classes   == {"NONE", "RECOVERABLE", "TERMINAL"}

\* The states the classification tells apart, one representative for "any other".
States == { "OK", "WRITTEN", "CONNECTION_RESET_BY_PEER",
            "UNACCEPTABLE_PROTOCOL_VERSION", "IDENTIFIER_REJECTED",
            "BAD_USERNAME_OR_PASSWORD", "NOT_AUTHORIZED", "OTHER_ERROR" }

-----------------------------------------------------------------------------
Larger(a, b)  == IF a >= b THEN a ELSE b
Smaller(a, b) == IF a <= b THEN a ELSE b

ClassifyState(state) ==
  IF state \in {"CONNECTION_RESET_BY_PEER", "UNACCEPTABLE_PROTOCOL_VERSION",
                "IDENTIFIER_REJECTED", "BAD_USERNAME_OR_PASSWORD", "NOT_AUTHORIZED"}
  THEN "TERMINAL"
  ELSE IF state \in {"OK", "WRITTEN"} THEN "NONE" ELSE "RECOVERABLE"

\* The index after one more failure, and after one cooldown.
IncIndex(i) == Smaller(i + 1, LastIndex)
DecIndex(i) == Larger(i - 1, 0)

\* xi_restart_update_time: the event is (re)scheduled for the index just set.
RestartUpdateTime(i) == next_update' = DecayLut[i + 1]

\* Mutant: the offset is drawn from the current value, not the previous one.
MutFullRange(i) == BackoffLut[i + 1]

\* The range the random offset is drawn from, and half of it.
FullRange(i) == IF i = 0 THEN 0 ELSE BackoffLut[i]
HalfRange(i) == Larger(FullRange(i) \div 2, 1)

\* xi_get_backoff_penalty for one value of rng % (full_range + 1).
Penalty(i, rand_value) ==
  Larger(BackoffLut[i + 1] + rand_value - HalfRange(i), BackoffLut[1])

Penalties(i) == { Penalty(i, r) : r \in 0 .. FullRange(i) }

-----------------------------------------------------------------------------
Init ==
  /\ contexts = 0
  /\ globals_ref_count = 0
  /\ backoff_lut_i = 0
  /\ backoff_class = "NONE"
  /\ next_update = NotScheduled

(* xi_create_context: the reference count is raised first and is not lowered *)
(* again when no handle is free.  The backoff status itself is not reset.    *)
CreateContext ==
  /\ globals_ref_count < MaxRefCount
  /\ globals_ref_count' = globals_ref_count + 1
  /\ contexts' = IF contexts < MaxContexts THEN contexts + 1 ELSE contexts
  /\ UNCHANGED <<backoff_lut_i, backoff_class, next_update>>

\* Mutant: the last reference goes away without xi_cancel_backoff_event.
MutDeleteContext ==
  /\ contexts > 0
  /\ contexts' = contexts - 1
  /\ globals_ref_count' = globals_ref_count - 1
  /\ UNCHANGED <<backoff_lut_i, backoff_class, next_update>>

(* xi_cancel_backoff_event runs when the last reference goes away. *)
DeleteContext ==
  /\ contexts > 0
  /\ contexts' = contexts - 1
  /\ globals_ref_count' = globals_ref_count - 1
  /\ next_update' = IF globals_ref_count = 1 THEN NotScheduled ELSE next_update
  /\ UNCHANGED <<backoff_lut_i, backoff_class>>

(* xi_update_backoff_penalty, called by the logic layer's pull and close. *)
UpdateBackoffPenalty(state) ==
  /\ contexts > 0
  /\ backoff_class' = ClassifyState(state)
  /\ IF backoff_class' = "NONE"
       THEN UNCHANGED <<backoff_lut_i, next_update>>
       ELSE /\ backoff_lut_i' = IncIndex(backoff_lut_i)
            /\ RestartUpdateTime(backoff_lut_i')
  /\ UNCHANGED <<contexts, globals_ref_count>>

\* Mutant: the event is rescheduled only when the index was lowered.
MutApplyCooldown ==
  /\ globals_ref_count > 0
  /\ next_update = 0
  /\ backoff_lut_i' = IF backoff_class = "NONE" THEN DecIndex(backoff_lut_i)
                                               ELSE backoff_lut_i
  /\ next_update' = IF backoff_lut_i' > 0 /\ backoff_lut_i' # backoff_lut_i
                      THEN DecayLut[backoff_lut_i' + 1] ELSE NotScheduled
  /\ UNCHANGED <<contexts, globals_ref_count, backoff_class>>

\* Mutant: the comparison is with the wrong class, the index is never lowered.
MutApplyCooldownClass ==
  /\ globals_ref_count > 0
  /\ next_update = 0
  /\ backoff_lut_i' = IF backoff_class = "TERMINAL" THEN DecIndex(backoff_lut_i)
                                                   ELSE backoff_lut_i
  /\ IF backoff_lut_i' > 0 THEN RestartUpdateTime(backoff_lut_i')
                           ELSE next_update' = NotScheduled
  /\ UNCHANGED <<contexts, globals_ref_count, backoff_class>>

(* xi_apply_cooldown: the dispatcher has cleared the handle before the call. *)
ApplyCooldown ==
  /\ globals_ref_count > 0
  /\ next_update = 0
  /\ backoff_lut_i' = IF backoff_class = "NONE" THEN DecIndex(backoff_lut_i)
                                               ELSE backoff_lut_i
  /\ IF backoff_lut_i' > 0 THEN RestartUpdateTime(backoff_lut_i')
                           ELSE next_update' = NotScheduled
  /\ UNCHANGED <<contexts, globals_ref_count, backoff_class>>

(* A second passes for the event dispatcher. *)
Tick ==
  /\ globals_ref_count > 0
  /\ next_update > 0
  /\ next_update' = next_update - 1
  /\ UNCHANGED <<contexts, globals_ref_count, backoff_lut_i, backoff_class>>

Next ==
  \/ CreateContext
  \/ DeleteContext
  \/ \E state \in States : UpdateBackoffPenalty(state)
  \/ ApplyCooldown
  \/ Tick

(* The application keeps calling xi_events_process, so time advances and due *)
(* events run; failures and API calls are never forced.                      *)
Spec == Init /\ [][Next]_vars /\ WF_vars(Tick) /\ WF_vars(ApplyCooldown)

-----------------------------------------------------------------------------
(* Every field of the backoff status is of its type; in particular the index *)
(* always addresses an entry of both tables.                                 *)
TypeOK ==
  /\ contexts \in 0 .. MaxContexts
  /\ globals_ref_count \in Nat
  /\ backoff_lut_i \in 0 .. LastIndex
  /\ backoff_class \in Classes
  /\ next_update \in Nat \cup {NotScheduled}

(* xi_cancel_backoff_event and the dispatcher's destruction are the only way *)
(* a cooldown event disappears without having run: while a context exists    *)
(* nothing strands a positive penalty that was going to be lowered.          *)
CooldownKept ==
  [][ next_update # NotScheduled /\ backoff_lut_i > 0
        => \/ next_update' # NotScheduled
           \/ backoff_lut_i' = 0
           \/ globals_ref_count' = 0 ]_vars

(* No cooldown event outlives the dispatcher it is queued in: once the last  *)
(* reference is dropped xi_apply_cooldown can no longer be called.           *)
NoEventWithoutDispatcher ==
  (globals_ref_count = 0 => next_update = NotScheduled) /\ contexts <= globals_ref_count

(* The backoff status is well typed and its cooldown event never outlives    *)
(* the event dispatcher: the inductive invariant of the component.           *)
BackoffInv == TypeOK /\ NoEventWithoutDispatcher

(* One more failure always means a strictly longer delay, whatever the two   *)
(* random offsets are: the ranges of consecutive indices do not overlap.     *)
PenaltyGrows ==
  [][ backoff_lut_i' > backoff_lut_i
        => \A p \in Penalties(backoff_lut_i), q \in Penalties(backoff_lut_i') : p < q ]_vars

\* The shape of XI_BACKOFF_LUT that PenaltyGrows rests on.
LutDoubles ==
  \A i \in 1 .. LastIndex : /\ BackoffLut[i + 1] >= 2 * BackoffLut[i]
                            /\ BackoffLut[i + 1] >= BackoffLut[1] + 2

(* A scheduled cooldown brings the penalty down to nothing, unless new       *)
(* failures are reported or the last context is deleted on the way.          *)
PenaltyDecays ==
  next_update # NotScheduled
    ~> (backoff_lut_i = 0 \/ backoff_class # "NONE" \/ globals_ref_count = 0)
=============================================================================

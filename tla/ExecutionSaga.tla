---------------------------- MODULE ExecutionSaga ----------------------------
(***************************************************************************)
(* The aggregate of one paired episode (execution/src/saga.rs): a short    *)
(* perp on Lighter hedged by a long spot position on Robinhood Chain.  It  *)
(* is pure data with one operation, apply; this module holds it as         *)
(* operators, with what must hold of a stored one.  Saga.tla feeds it      *)
(* every event sequence, Coordinator.tla the ones the coordinator produces. *)
(*                                                                         *)
(* Left out: intent_id (constant) and version, which every successful      *)
(* apply increments and which is only compared under the row lock that     *)
(* already excludes a concurrent writer (store.rs, load_saga).             *)
(***************************************************************************)
EXTENDS Naturals

State ==
  {"Created", "Prechecked", "PerpSubmitted", "PerpPartial", "PerpFilled",
   "SpotSubmitted", "Hedged", "Exiting", "Unwinding", "Closed", "Cancelled",
   "Expired", "Unhedged", "FailedSafe"}

is_terminal(st) == st \in {"Closed", "Cancelled", "Expired", "FailedSafe"}

exposure_resolved(st) == st \in {"Closed", "Cancelled", "Expired"}

EventType ==
  {"PrecheckPassed", "PerpSubmitted", "PerpPartiallyFilled", "PerpFilled",
   "PerpOverfilled", "PerpRejected", "SpotSubmitted", "SpotConfirmed",
   "SpotMismatched", "SpotRejected", "ExitStarted", "UnwindStarted",
   "PerpUnwindProgress", "PerpUnwindCompleted", "PerpUnwindFailed",
   "HedgeRestored", "Closed", "Cancelled", "Expired", "Unhedged",
   "SafeFailure"}

\* An event; amount is filled_base, unwound_base or received_raw, 0 otherwise.
Ev(type) == [type |-> type, amount |-> 0]

EvAmount(type, n) == [type |-> type, amount |-> n]

SagaRecord ==
  [state : State, perp_filled_base : Nat, perp_unwound_base : Nat,
   spot_received_raw : Nat]

new ==
  [state |-> "Created", perp_filled_base |-> 0, perp_unwound_base |-> 0,
   spot_received_raw |-> 0]

Filling == {"PerpSubmitted", "PerpPartial"}

Unsent == {"Created", "Prechecked", "PerpSubmitted"}

Unwindable ==
  {"PerpPartial", "PerpFilled", "SpotSubmitted", "Hedged", "Exiting", "Unhedged"}

-----------------------------------------------------------------------------
\* The quantity checks of apply, one per kind of fill event.
fill_increases(s, n) == n > s.perp_filled_base

fill_final(s, n) == n >= s.perp_filled_base /\ n # 0

unwind_progresses(s, n) == n > s.perp_unwound_base /\ n < s.perp_filled_base

unwind_complete(s, n) ==
  n = s.perp_filled_base /\ n >= s.perp_unwound_base /\ n # 0

unwind_stops(s, n) == n >= s.perp_unwound_base /\ n <= s.perp_filled_base

\* The state an event leads to, or "Invalid" where apply returns an error.
next(s, e) ==
  LET st == s.state
      n  == e.amount
      on(type) == e.type = type
  IN  CASE is_terminal(st) -> "Invalid"
        [] on("PrecheckPassed") /\ st = "Created" -> "Prechecked"
        [] on("PerpSubmitted") /\ st = "Prechecked" -> "PerpSubmitted"
        [] on("PerpPartiallyFilled") /\ st \in Filling /\ fill_increases(s, n)
             -> "PerpPartial"
        [] on("PerpFilled") /\ st \in Filling /\ fill_final(s, n)
             -> "PerpFilled"
        [] on("PerpOverfilled") /\ st \in Filling /\ fill_increases(s, n)
             -> "Unwinding"
        [] on("PerpRejected") /\ st = "PerpSubmitted" -> "Cancelled"
        [] on("SpotSubmitted") /\ st \in {"PerpFilled", "PerpPartial"}
             -> "SpotSubmitted"
        [] on("SpotConfirmed") /\ st = "SpotSubmitted" /\ n # 0 -> "Hedged"
        [] on("SpotMismatched") /\ st = "SpotSubmitted" /\ n # 0 -> "Unwinding"
        [] on("SpotRejected") /\ st = "SpotSubmitted" -> "Unwinding"
        [] on("ExitStarted") /\ st = "Hedged" -> "Exiting"
        [] on("UnwindStarted") /\ st \in Unwindable -> "Unwinding"
        [] on("PerpUnwindProgress") /\ st = "Unwinding" /\ unwind_progresses(s, n)
             -> "Unwinding"
        [] on("PerpUnwindCompleted") /\ st = "Unwinding" /\ unwind_complete(s, n)
             -> IF s.spot_received_raw = 0 THEN "Closed" ELSE "Unwinding"
        [] on("PerpUnwindFailed") /\ st = "Unwinding" /\ unwind_stops(s, n)
             -> "Unhedged"
        [] on("HedgeRestored") /\ st = "Unwinding" -> "Hedged"
        [] on("Closed") /\ st \in {"Exiting", "Unwinding"} -> "Closed"
        [] on("Cancelled") /\ st \in Unsent -> "Cancelled"
        [] on("Expired") /\ st \in Unsent -> "Expired"
        [] on("Unhedged") /\ st = "Unwinding" -> "Unhedged"
        [] on("SafeFailure") /\ ~is_terminal(st) -> st
        [] OTHER -> "Invalid"

accepts(s, e) == next(s, e) # "Invalid"

\* Mutant of FillEvents: the terminal fill is not booked.
OpenFillEvents == {"PerpPartiallyFilled", "PerpOverfilled"}

FillEvents == {"PerpPartiallyFilled", "PerpFilled", "PerpOverfilled"}

\* Mutant of UnwindEvents: a new unwind attempt starts its count from zero.
AttemptEvents ==
  {"UnwindStarted", "PerpUnwindProgress", "PerpUnwindCompleted", "PerpUnwindFailed"}

UnwindEvents == {"PerpUnwindProgress", "PerpUnwindCompleted", "PerpUnwindFailed"}

\* apply on success; the aggregate is left alone by an event it rejects.
apply(s, e) ==
  LET carries(types, old) == IF e.type \in types THEN e.amount ELSE old
  IN  IF ~accepts(s, e) THEN s
      ELSE [state |-> next(s, e),
            perp_filled_base |-> carries(FillEvents, s.perp_filled_base),
            perp_unwound_base |-> carries(UnwindEvents, s.perp_unwound_base),
            spot_received_raw |->
              carries({"SpotConfirmed", "SpotMismatched"}, s.spot_received_raw)]

-----------------------------------------------------------------------------
(***************************************************************************)
(* What holds of a stored aggregate, whoever applies the events.           *)
(***************************************************************************)
VARIABLE saga

\* A saga releases the exposure lock as Cancelled or Expired only if no fill
\* was ever booked on either leg: apply admits both events in the states before
\* the first fill only, and no transition leads back into those states.
ReleasedWithoutFill ==
  saga.state \in {"Cancelled", "Expired"} =>
    saga.perp_filled_base = 0 /\ saga.spot_received_raw = 0

\* The booked unwind never exceeds the booked fill, and a saga that unwinds, is
\* unhedged or exits has a fill to close.
UnwindWithinFill ==
  /\ saga.perp_unwound_base <= saga.perp_filled_base
  /\ saga.state \in {"PerpFilled", "SpotSubmitted", "Hedged", "Exiting",
                     "Unwinding", "Unhedged", "Closed"}
       => saga.perp_filled_base > 0

\* No step unbooks exposure: the perp fill and the unwind only grow, the fill is
\* frozen once the entry order is out of its filling states (so the amount an
\* unwind aims at cannot move under it), and the spot amount is booked once.
BooksMonotone ==
  [][ /\ saga'.perp_filled_base >= saga.perp_filled_base
      /\ saga'.perp_unwound_base >= saga.perp_unwound_base
      /\ saga.state \notin Filling =>
           saga'.perp_filled_base = saga.perp_filled_base
      /\ saga.spot_received_raw # 0 =>
           saga'.spot_received_raw = saga.spot_received_raw ]_saga
=============================================================================

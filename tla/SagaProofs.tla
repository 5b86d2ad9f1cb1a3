----------------------------- MODULE SagaProofs -----------------------------
(***************************************************************************)
(* Proofs about the saga aggregate, whatever events are applied to it.      *)
(*                                                                         *)
(* ReleasedWithoutFill is not inductive: that Cancelled and Expired carry  *)
(* no fill needs that the states leading to them carry none, which in turn *)
(* needs that no event returns to those states.  IInv says for every state *)
(* which counters may be non-zero in it.                                   *)
(***************************************************************************)
EXTENDS Saga, TLAPS

\* The states in which nothing has been booked, and those in which a spot
\* amount may have been.
Unbooked == Unsent \cup {"Cancelled", "Expired"}

MayHoldSpot == {"Hedged", "Exiting", "Unwinding", "Unhedged", "Closed"}

\* The inductive invariant.
IInv ==
  /\ TypeOK
  /\ saga.perp_unwound_base <= saga.perp_filled_base
  /\ saga.state \in Unbooked => saga.perp_filled_base = 0
  /\ saga.state \notin Unbooked => saga.perp_filled_base > 0
  /\ saga.state \notin MayHoldSpot => saga.spot_received_raw = 0

-----------------------------------------------------------------------------
\* The events that book a spot receipt.
SpotType == {"SpotConfirmed", "SpotMismatched"}

\* What an accepted event says of the states before and after it: it books a
\* fill only in a filling state, an unwind only while unwinding and a receipt
\* only for a submitted spot order.  Only a fill leaves the unbooked states, and
\* no event leads from the states that may hold spot to one that may not.
LEMMA Transition ==
  ASSUME NEW s \in SagaRecord, NEW e \in Event, accepts(s, e)
  PROVE  /\ next(s, e) \in State
         /\ e.type \in FillEvents =>
              /\ s.state \in Filling
              /\ next(s, e) \in {"PerpPartial", "PerpFilled", "Unwinding"}
              /\ fill_increases(s, e.amount) \/ fill_final(s, e.amount)
         /\ e.type \in UnwindEvents =>
              /\ s.state = "Unwinding"
              /\ next(s, e) \in {"Unwinding", "Closed", "Unhedged"}
              /\ \/ unwind_progresses(s, e.amount)
                 \/ unwind_complete(s, e.amount)
                 \/ unwind_stops(s, e.amount)
         /\ e.type \in SpotType =>
              s.state = "SpotSubmitted" /\ next(s, e) \in {"Hedged", "Unwinding"}
         /\ e.type \notin FillEvents => (next(s, e) \in Unbooked <=> s.state \in Unbooked)
         /\ next(s, e) \notin MayHoldSpot => s.state \notin MayHoldSpot
<1>1. s.state \in State
  BY DEF SagaRecord
<1>2. PICK v : v = next(s, e)
  OBVIOUS
<1>3. v # "Invalid"
  BY <1>2 DEF accepts
<1>4. v \in State
  BY <1>1, <1>2, <1>3, Zenon
     DEF next, is_terminal, State, Filling, Unsent, Unwindable, fill_increases,
         fill_final, unwind_progresses, unwind_complete, unwind_stops
<1>5. ASSUME e.type \in FillEvents
      PROVE  /\ s.state \in Filling
             /\ v \in {"PerpPartial", "PerpFilled", "Unwinding"}
             /\ fill_increases(s, e.amount) \/ fill_final(s, e.amount)
  BY <1>2, <1>3, <1>5, Zenon
     DEF next, is_terminal, FillEvents, Filling, fill_increases, fill_final,
         unwind_progresses, unwind_complete, unwind_stops
<1>6. ASSUME e.type \in UnwindEvents
      PROVE  /\ s.state = "Unwinding"
             /\ v \in {"Unwinding", "Closed", "Unhedged"}
             /\ \/ unwind_progresses(s, e.amount)
                \/ unwind_complete(s, e.amount)
                \/ unwind_stops(s, e.amount)
  BY <1>2, <1>3, <1>6, Zenon
     DEF next, is_terminal, UnwindEvents, fill_increases, fill_final,
         unwind_progresses, unwind_complete, unwind_stops
<1>7. ASSUME e.type \in SpotType
      PROVE  s.state = "SpotSubmitted" /\ v \in {"Hedged", "Unwinding"}
  BY <1>2, <1>3, <1>7, Zenon
     DEF next, is_terminal, SpotType, fill_increases, fill_final,
         unwind_progresses, unwind_complete, unwind_stops
<1>8. ASSUME e.type \notin FillEvents
      PROVE  v \in Unbooked <=> s.state \in Unbooked
  BY <1>2, <1>3, <1>8, Zenon
     DEF next, is_terminal, FillEvents, Filling, Unbooked, Unsent, Unwindable
<1>9. ASSUME v \notin MayHoldSpot
      PROVE  s.state \notin MayHoldSpot
  BY <1>2, <1>3, <1>9, Zenon
     DEF next, is_terminal, MayHoldSpot, Filling, Unsent, Unwindable
<1> QED
  BY <1>2, <1>4, <1>5, <1>6, <1>7, <1>8, <1>9

\* The amounts events carry are naturals.
LEMMA EventAmount ==
  ASSUME NEW e \in Event
  PROVE  e.amount \in Nat
BY DEF Event

\* What apply writes: the new state, and the amount of the event in the field
\* that its type names.
LEMMA Booking ==
  ASSUME NEW s \in SagaRecord, NEW e \in Event, accepts(s, e)
  PROVE  apply(s, e) =
           [state |-> next(s, e),
            perp_filled_base |->
              IF e.type \in FillEvents THEN e.amount ELSE s.perp_filled_base,
            perp_unwound_base |->
              IF e.type \in UnwindEvents THEN e.amount ELSE s.perp_unwound_base,
            spot_received_raw |->
              IF e.type \in SpotType THEN e.amount ELSE s.spot_received_raw]
BY DEF apply, FillEvents, UnwindEvents, SpotType

\* No event books on two fields.
LEMMA DisjointTypes ==
  /\ FillEvents \cap UnwindEvents = {} /\ FillEvents \cap SpotType = {}
  /\ UnwindEvents \cap SpotType = {}
BY DEF FillEvents, UnwindEvents, SpotType

\* A new saga satisfies the inductive invariant.
LEMMA InitIInv == Init => IInv
BY DEF Init, new, IInv, TypeOK, SagaRecord, State, Unbooked, Unsent, MayHoldSpot

\* Every accepted event preserves the inductive invariant.
LEMMA StepIInv ==
  ASSUME IInv, NEW e \in Event, accepts(saga, e), saga' = apply(saga, e)
  PROVE  IInv'
<1> DEFINE n == e.amount
           after == next(saga, e)
<1>1. n \in Nat
  BY EventAmount
<1>2. saga \in SagaRecord
  BY DEF IInv, TypeOK
<1>3. /\ saga.perp_filled_base \in Nat /\ saga.perp_unwound_base \in Nat
      /\ saga.spot_received_raw \in Nat
  BY <1>2 DEF SagaRecord
<1>4. saga' = [state |-> after,
               perp_filled_base |->
                 IF e.type \in FillEvents THEN n ELSE saga.perp_filled_base,
               perp_unwound_base |->
                 IF e.type \in UnwindEvents THEN n ELSE saga.perp_unwound_base,
               spot_received_raw |->
                 IF e.type \in SpotType THEN n ELSE saga.spot_received_raw]
  BY <1>2, Booking
<1>5. after \in State
  BY <1>2, Transition
<1> HIDE DEF n, after
<1>6. TypeOK'
  BY <1>1, <1>3, <1>4, <1>5 DEF TypeOK, SagaRecord
<1>7. saga'.perp_unwound_base <= saga'.perp_filled_base
  <2>1. CASE e.type \in FillEvents
    <3>1. n >= saga.perp_filled_base
      BY <1>1, <1>2, <1>3, <2>1, Transition DEF n, fill_increases, fill_final
    <3>2. saga'.perp_filled_base = n /\ saga'.perp_unwound_base = saga.perp_unwound_base
      BY <1>4, <2>1, DisjointTypes
    <3> QED
      BY <1>1, <1>3, <3>1, <3>2 DEF IInv
  <2>2. CASE e.type \in UnwindEvents
    <3>1. n <= saga.perp_filled_base
      BY <1>1, <1>2, <1>3, <2>2, Transition
         DEF n, unwind_progresses, unwind_complete, unwind_stops
    <3>2. saga'.perp_filled_base = saga.perp_filled_base /\ saga'.perp_unwound_base = n
      BY <1>4, <2>2, DisjointTypes
    <3> QED
      BY <3>1, <3>2
  <2>3. CASE e.type \notin FillEvents \cup UnwindEvents
    BY <1>4, <2>3 DEF IInv
  <2> QED
    BY <2>1, <2>2, <2>3
<1>8. /\ saga'.state \in Unbooked => saga'.perp_filled_base = 0
      /\ saga'.state \notin Unbooked => saga'.perp_filled_base > 0
  <2>1. CASE e.type \in FillEvents
    <3>1. n > 0
      BY <1>1, <1>2, <1>3, <2>1, Transition DEF n, fill_increases, fill_final
    <3>2. after \notin Unbooked
      BY <1>2, <2>1, Transition DEF after, Unbooked, Unsent
    <3> QED
      BY <1>4, <2>1, <3>1, <3>2
  <2>2. CASE e.type \notin FillEvents
    <3>1. after \in Unbooked <=> saga.state \in Unbooked
      BY <1>2, <2>2, Transition DEF after
    <3> QED
      BY <1>4, <2>2, <3>1 DEF IInv
  <2> QED
    BY <2>1, <2>2
<1>9. saga'.state \notin MayHoldSpot => saga'.spot_received_raw = 0
  <2>1. CASE e.type \in SpotType
    <3>1. after \in MayHoldSpot
      BY <1>2, <2>1, Transition DEF after, MayHoldSpot
    <3> QED
      BY <1>4, <3>1
  <2>2. CASE e.type \notin SpotType
    <3>1. after \notin MayHoldSpot => saga.state \notin MayHoldSpot
      BY <1>2, Transition DEF after
    <3> QED
      BY <1>4, <2>2, <3>1 DEF IInv
  <2> QED
    BY <2>1, <2>2
<1> QED
  BY <1>6, <1>7, <1>8, <1>9 DEF IInv

\* The inductive invariant holds of every reachable saga.
THEOREM Invariance == Spec => []IInv
<1>1. IInv /\ [Next]_saga => IInv'
  <2> SUFFICES ASSUME IInv, [Next]_saga PROVE IInv'
    OBVIOUS
  <2>1. CASE Next
    BY <2>1, StepIInv DEF Next
  <2>2. CASE UNCHANGED saga
    BY <2>2 DEF IInv, TypeOK
  <2> QED
    BY <2>1, <2>2
<1> QED
  BY <1>1, InitIInv, PTL DEF Spec

\* The saga's fields keep their types, for every set of amounts.
THEOREM TypeCorrect == Spec => []TypeOK
BY Invariance, PTL DEF IInv

\* A saga that was Cancelled or Expired never had a fill on either leg.
THEOREM ReleaseSafe == Spec => []ReleasedWithoutFill
<1>1. IInv => ReleasedWithoutFill
  BY DEF IInv, ReleasedWithoutFill, Unbooked, MayHoldSpot
<1> QED
  BY <1>1, Invariance, PTL

\* The booked unwind stays within the booked fill.
THEOREM UnwindSafe == Spec => []UnwindWithinFill
<1>1. IInv => UnwindWithinFill
  BY DEF IInv, UnwindWithinFill, Unbooked, Unsent
<1> QED
  BY <1>1, Invariance, PTL

\* No accepted event lowers a counter, moves the fill after the entry order has
\* left its filling states, or books the spot amount twice.
THEOREM Monotone == Spec => BooksMonotone
<1> DEFINE Step ==
      /\ saga'.perp_filled_base >= saga.perp_filled_base
      /\ saga'.perp_unwound_base >= saga.perp_unwound_base
      /\ saga.state \notin Filling =>
           saga'.perp_filled_base = saga.perp_filled_base
      /\ saga.spot_received_raw # 0 =>
           saga'.spot_received_raw = saga.spot_received_raw
<1>1. ASSUME IInv, Next PROVE Step
  <2>1. PICK e \in Event : accepts(saga, e) /\ saga' = apply(saga, e)
    BY <1>1 DEF Next
  <2>2. e.amount \in Nat
    BY EventAmount
  <2>3. saga \in SagaRecord
    BY <1>1 DEF IInv, TypeOK
  <2>4. /\ saga.perp_filled_base \in Nat /\ saga.perp_unwound_base \in Nat
        /\ saga.spot_received_raw \in Nat
    BY <2>3 DEF SagaRecord
  <2>5. /\ saga'.perp_filled_base =
             IF e.type \in FillEvents THEN e.amount ELSE saga.perp_filled_base
        /\ saga'.perp_unwound_base =
             IF e.type \in UnwindEvents THEN e.amount ELSE saga.perp_unwound_base
        /\ saga'.spot_received_raw =
             IF e.type \in SpotType THEN e.amount ELSE saga.spot_received_raw
    BY <2>1, <2>3, Booking
  <2>6. e.type \in FillEvents =>
          saga.state \in Filling /\ e.amount >= saga.perp_filled_base
    BY <2>1, <2>2, <2>3, <2>4, Transition DEF fill_increases, fill_final
  <2>7. e.type \in UnwindEvents => e.amount >= saga.perp_unwound_base
    BY <2>1, <2>2, <2>3, <2>4, Transition
       DEF unwind_progresses, unwind_complete, unwind_stops
  <2>8. e.type \in SpotType => saga.spot_received_raw = 0
    <3>1. e.type \in SpotType => saga.state = "SpotSubmitted"
      BY <2>1, <2>3, Transition
    <3> QED
      BY <1>1, <3>1 DEF IInv, MayHoldSpot
  <2> QED
    BY <2>4, <2>5, <2>6, <2>7, <2>8
<1>2. IInv /\ [Next]_saga => [Step]_saga
  BY <1>1
<1> QED
  BY <1>2, Invariance, PTL DEF Spec, BooksMonotone
=============================================================================

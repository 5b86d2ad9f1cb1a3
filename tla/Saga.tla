-------------------------------- MODULE Saga --------------------------------
(***************************************************************************)
(* The saga aggregate under every sequence of events its callers could     *)
(* apply, in any order and with any amounts: what ExecutionSaga::apply     *)
(* guarantees on its own, without trusting the coordinator's sequencing.   *)
(***************************************************************************)
EXTENDS ExecutionSaga

\* amount stands for the u64 and u128 counters, which are copied from events and
\* never added up.
Event == [type : EventType, amount : Nat]

Init == saga = new

Next == \E e \in Event : accepts(saga, e) /\ saga' = apply(saga, e)

Spec == Init /\ [][Next]_saga

-----------------------------------------------------------------------------
\* Every field of the aggregate keeps its type: an event apply rejects never
\* leaves its error behind as a state.
TypeOK == saga \in SagaRecord
=============================================================================

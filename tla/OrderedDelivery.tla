--------------------------- MODULE OrderedDelivery ---------------------------
(***************************************************************************)
(* What venue-event ingestion promises a reconciliation: the observations  *)
(* of its leg reach it once each, in the order of their source session and *)
(* without a hole, starting with any of them.                              *)
(***************************************************************************)
EXTENDS Naturals, Sequences

CONSTANTS
  Session,  \* source sessions
  Mine      \* [Session -> the sequence numbers of the leg's events]

VARIABLE used   \* per session, the sequence numbers handed over so far

\* n comes right after m among the leg's numbers of session s.
Follows(s, m, n) == m < n /\ \A k \in Mine[s] : ~(m < k /\ k < n)

Init == used = [s \in Session |-> <<>>]

Deliver(s) ==
  \E n \in Mine[s] :
    /\ used[s] # <<>> => Follows(s, used[s][Len(used[s])], n)
    /\ used' = [used EXCEPT ![s] = Append(@, n)]

Next == \E s \in Session : Deliver(s)

Spec == Init /\ [][Next]_used
=============================================================================

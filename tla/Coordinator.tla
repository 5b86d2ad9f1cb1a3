----------------------------- MODULE Coordinator -----------------------------
(***************************************************************************)
(* The execution coordinator (coordinator/src/store.rs and worker.rs) for  *)
(* one episode: the durable action queue with its leases, the control mode *)
(* that admits entries, the worker processes that drive the saga through   *)
(* both venues, and the operator requests that resume a stopped episode.   *)
(*                                                                         *)
(* One action of this module is one database transaction or one call to a  *)
(* venue, so that a lease may expire, another worker may take over, or a   *)
(* process may die between any two of them.  The venues, the Robinhood     *)
(* writer, the clock and the operators are the environment.                *)
(*                                                                         *)
(* Abstractions.  Amounts are base units; a spot amount is written in the  *)
(* units of the perp fill it hedges (spot_amounts_for_fill succeeds up to  *)
(* the fill Hedgeable: see PairIntent).  Every deadline is compared with   *)
(* the wall clock of the worker's host (now_ms), so each comparison may go *)
(* either way: hosts disagree, and SystemTime may step back.  The control  *)
(* version is kept per claim as "still the claimed one", since it only     *)
(* grows and is only compared for equality.  An event is recorded once, in *)
(* its session's order, or never.                                          *)
(***************************************************************************)
EXTENDS ExecutionSaga, FiniteSets, SequencesExt

CONSTANTS
  Worker,             \* the worker processes
  Episodes,           \* the intents, and bounds on what disturbs each
  OvercapPartial,     \* may a fill cross the notional cap before it is terminal?
  TransientDenial,    \* may the writer deny what it journaled or later accepts?
  BlindOperatorExit   \* may an operator exit PerpFilled after a spot request?

ASSUME CoordinatorAssumption ==
  /\ \A e \in Episodes :
       /\ e.base \in Nat \ {0} /\ e.hedgeable \in 1..e.base /\ e.attempts \in 1..8
       /\ {e.requests, e.stalls, e.poisons} \subseteq Nat
  /\ {OvercapPartial, TransientDenial, BlindOperatorExit} \subseteq BOOLEAN

VARIABLES
  mode,       \* execution_control.mode: "ACTIVE" or not
  actions,    \* execution_actions, in order of creation
  cursor,     \* execution_unwind_cursors.next_attempt
  drawn,      \* values drawn from execution_operator_order_index_seq
  events,     \* execution_venue_events with their route and applied rows
  worker,     \* the processes: what each has claimed and where it is
  orders,     \* Lighter: orders by client order index
  journal,    \* the Robinhood writer and chain: the typed buy and sell intents
  episode     \* the intent's sizes, and what is left of the bounds: requests
              \* accepted, processes that stall, actions with unreadable data

control == <<mode, saga, cursor, drawn>>
world == <<orders, journal, episode>>
vars == <<mode, saga, actions, cursor, drawn, events, worker, orders, journal,
          episode>>

-----------------------------------------------------------------------------
None == "none"

Base == episode.base                    \* intent.perp_base_amount

\* The largest fill whose spot amounts do not overflow; smaller ones scale too.
Hedgeable == episode.hedgeable

MaxUnwindAttempts == episode.attempts   \* intent.max_unwind_attempts

Entry == 0                              \* intent.client_order_index

\* The reserved unwind indices come first, then those of the operator sequence.
OrderIndex == DOMAIN orders

PerpSubmits == {"SubmitPerp", "UnwindPerp"}

SpotSubmits == {"SubmitSpot", "UnwindSpot"}

Reconciles == {"ReconcilePerp", "ReconcileSpot", "ReconcileUnwind", "ReconcileUnwindSpot"}

ActionKind == PerpSubmits \cup SpotSubmits \cup Reconciles

\* The leg whose events an action consumes.
venue_event_kinds ==
  [ReconcilePerp |-> "perp", ReconcileUnwind |-> "unwind",
   ReconcileSpot |-> "spot", ReconcileUnwindSpot |-> "spot_unwind"]

Side == [SubmitSpot |-> "buy", UnwindSpot |-> "sell"]

\* A row of execution_actions.  filled is payload.filled_base or spot_amount,
\* replay the id of the request a recovery replays (0: none), and the last four
\* fields are the markers that the result column accumulates.
Row(kind, key) ==
  [kind |-> kind, key |-> key, status |-> "pending", owner |-> None,
   live |-> FALSE, filled |-> 0, unwound_before |-> 0, unwind_attempt |-> 0,
   client_order_index |-> Entry, operator_recovery |-> FALSE,
   exit_authority |-> FALSE, replay |-> 0,
   signed |-> FALSE, send_authorized |-> FALSE, request |-> FALSE,
   submission |-> FALSE]

NoRow == Row(None, <<None>>)

EmergencyUnwind(fill) ==
  [Row("UnwindPerp", <<"emergency-unwind-perp">>) EXCEPT !.filled = fill]

Idle ==
  [pc |-> "idle", id |-> 0, saga |-> new, current |-> FALSE, event |-> 0,
   reply |-> None]

Live(i) == actions[i].status \in {"pending", "leased"}

\* Mutant of NoLiveAction: requests do not look at the queue.
AnyQueue == TRUE

NoLiveAction == \A i \in DOMAIN actions : ~Live(i)

Claimed(w) == actions[worker[w].id]

At(w, pc, kinds) == worker[w].pc = pc /\ Claimed(w).kind \in kinds

\* The token of a claim is known to its worker only, so a token comparison holds
\* exactly while that worker is the owner.
TokenHeld(w) ==
  worker[w].id # 0 /\ Claimed(w).status = "leased" /\ Claimed(w).owner = w

\* Mutant of LeaseHeld: a claim is trusted without its token or its lease.
Unfenced(w) == worker[w].id # 0

\* lock_action, and the WHERE clause of every fenced UPDATE.
LeaseHeld(w) == TokenHeld(w) /\ Claimed(w).live

Goto(w, pc) == worker' = [worker EXCEPT ![w].pc = pc]

Released(row, status) ==
  [row EXCEPT !.status = status, !.owner = None, !.live = FALSE]

\* halt_execution increments the control version: no claim is current any more.
Fenced(ws) == [v \in Worker |-> [ws[v] EXCEPT !.current = FALSE]]
-----------------------------------------------------------------------------
(***************************************************************************)
(* Database transactions                                                   *)
(***************************************************************************)
NoEvent == Ev(None)

\* enqueue_action: an unwind takes the next reserved attempt; past the last one
\* only an operator recovery gets an index, from allocate_operator_order_index.
Allocatable(n) ==
  n.kind = "UnwindPerp" => cursor < MaxUnwindAttempts \/ n.operator_recovery

Allocated(n) ==
  IF n.kind # "UnwindPerp" THEN n
  ELSE IF cursor < MaxUnwindAttempts
       THEN [n EXCEPT !.unwind_attempt = cursor, !.client_order_index = cursor + 1]
       ELSE [n EXCEPT !.unwind_attempt = MaxUnwindAttempts,
                      !.client_order_index = MaxUnwindAttempts + drawn + 1]

KeyTaken(n) == \E i \in DOMAIN actions : actions[i].key = n.key

enqueue_action(rows, n) ==
  LET draws(takes) == IF n.kind = "UnwindPerp" /\ takes THEN 1 ELSE 0
      reserved     == cursor < MaxUnwindAttempts
  IN  /\ actions' = IF n = NoRow THEN rows ELSE Append(rows, Allocated(n))
      /\ cursor' = cursor + draws(reserved)
      /\ drawn' = drawn + draws(~reserved)

transition_saga(event) == saga' = IF event = NoEvent THEN saga ELSE apply(saga, event)

halt_execution(ws) ==
  /\ mode' = "HALTED"
  /\ worker' = Fenced(ws)

\* fail_safe_action: what the worker loop does with a poisoned action.
fail_safe_action(w) ==
  /\ LeaseHeld(w)
  /\ actions' = [actions EXCEPT ![worker[w].id] = Released(@, "failed_safe")]
  /\ halt_execution([worker EXCEPT ![w] = Idle])
  /\ UNCHANGED <<saga, cursor, drawn, events, world>>

\* What a handler commits: the row's new status, the saga event, the successor,
\* whether it halts (in the same transaction or in one just before) and the
\* venue event it applies.
Outcome(status, event, n) ==
  [status |-> status, event |-> event, next |-> n, halts |-> "no", applied |-> 0]

Halting(o) == [o EXCEPT !.halts = "with"]

HaltingFirst(o) == [o EXCEPT !.halts = "before"]

retry == Outcome("pending", NoEvent, NoRow)

\* The errors that is_poison_error lists: a transition the saga rejects, an
\* unwind with no order index left, an event that is not the action's to apply.
Refused(w, o) ==
  \/ o.event # NoEvent /\ ~accepts(saga, o.event)
  \/ ~Allocatable(o.next)
  \/ o.applied # 0 /\ (events[o.applied].route # worker[w].id \/ events[o.applied].applied)

\* complete_action, reschedule_action, stop_action, continue_ambiguous_action and
\* apply_venue_event: one transaction under the lease.  A key that is taken is a
\* Conflict, which rolls back and leaves the row leased until its lease expires.
Transact(w, o) ==
  LET id == worker[w].id
      ws == [worker EXCEPT ![w] = Idle]
  IN  /\ LeaseHeld(w)
      /\ IF Refused(w, o) THEN fail_safe_action(w)
         ELSE IF o.next # NoRow /\ KeyTaken(o.next)
         THEN /\ IF o.halts = "before" THEN halt_execution(ws)
                 ELSE worker' = ws /\ UNCHANGED mode
              /\ UNCHANGED <<saga, actions, cursor, drawn, events, world>>
         ELSE /\ transition_saga(o.event)
              /\ enqueue_action([actions EXCEPT ![id] = Released(@, o.status)], o.next)
              /\ IF o.halts = "no" THEN worker' = ws /\ UNCHANGED mode
                 ELSE halt_execution(ws)
              /\ events' = IF o.applied = 0 THEN events
                           ELSE [events EXCEPT ![o.applied].applied = TRUE]
              /\ UNCHANGED world

\* stop_action halts unless it merely rejects an action with no exposure.
Stop(status, event) ==
  LET o == Outcome(status, event, NoRow)
  IN  IF status = "rejected" THEN o ELSE Halting(o)

\* One marker written under the lease: record_action_result("signed" | "request"
\* | "submission"), authorize_entry_send and authorize_unwind_send.
Mark(w, row, pc) ==
  /\ LeaseHeld(w)
  /\ actions' = [actions EXCEPT ![worker[w].id] = row]
  /\ Goto(w, pc)
  /\ UNCHANGED <<control, events, world>>

\* Mutant of Claimable: an expired lease is never taken over.
PendingOnly(row) == row.status = "pending"

\* The rows claim_action selects: due, or leased with the lease run out.
Claimable(row) == row.status = "pending" \/ (row.status = "leased" /\ ~row.live)

\* The control version of the claim is kept for submit_perp, its only reader.
claim_action(w, i) ==
  /\ worker[w].pc = "idle" /\ Claimable(actions[i])
  /\ \/ actions[i].kind # "SubmitPerp"
     \/ actions[i].signed \/ actions[i].submission \/ actions[i].send_authorized
     \/ mode = "ACTIVE"
  /\ actions' = [actions EXCEPT ![i].status = "leased", ![i].owner = w, ![i].live = TRUE]
  /\ worker' = [worker EXCEPT ![w] =
       [Idle EXCEPT !.pc = "begin", !.id = i, !.saga = saga,
                     !.current = actions[i].kind = "SubmitPerp"]]
  /\ UNCHANGED <<control, events, world>>

\* A refused write drops the action; the worker loop only logs the error.
LeaseLost(w) ==
  /\ worker[w].pc \notin {"idle", "send"} /\ ~LeaseHeld(w)
  /\ worker' = [worker EXCEPT ![w] = Idle]
  /\ UNCHANGED <<control, actions, events, world>>
-----------------------------------------------------------------------------
(***************************************************************************)
(* submit_perp: the entry (SubmitPerp) and reduce-only (UnwindPerp) orders *)
(***************************************************************************)
\* Mutant of Potential: only a recorded submission counts as possibly live.
Recorded(row) == row.submission

\* A signature with a durable send authorization may be live at the venue.
Potential(row) == row.send_authorized /\ row.signed

\* The reconciliation both outcomes of a send hand over to.
PerpReconciliation(w) ==
  LET row == Claimed(w)
  IN  IF row.kind = "SubmitPerp" THEN Row("ReconcilePerp", <<"reconcile-entry-perp">>)
      ELSE [Row("ReconcileUnwind", <<"reconcile-unwind-perp", row.client_order_index>>)
              EXCEPT !.filled = row.filled,
                     !.unwound_before = worker[w].saga.perp_unwound_base,
                     !.unwind_attempt = row.unwind_attempt,
                     !.client_order_index = row.client_order_index,
                     !.operator_recovery = row.operator_recovery,
                     !.exit_authority = row.exit_authority]

SubmittedEvent(row) ==
  IF row.kind = "SubmitPerp" THEN Ev("PerpSubmitted") ELSE NoEvent

continue_lighter_reconciliation(w) ==
  Transact(w, Halting(Outcome("ambiguous", SubmittedEvent(Claimed(w)), PerpReconciliation(w))))

complete_lighter_submission(w) ==
  /\ At(w, "complete", PerpSubmits) \/ (At(w, "begin", PerpSubmits) /\ Claimed(w).submission)
  /\ Transact(w, Outcome("succeeded", SubmittedEvent(Claimed(w)), PerpReconciliation(w)))

\* An unwind without authority stops past the emergency deadline, or waits for a
\* quote; binding one checks the token but not the expiry of the lease.
bind_exit_authority(w) ==
  LET row == Claimed(w)
  IN  /\ At(w, "begin", {"UnwindPerp"}) /\ ~row.submission /\ ~row.exit_authority
      /\ \/ Transact(w, Stop("failed_safe", NoEvent))
         \/ Transact(w, retry)
         \/ /\ TokenHeld(w)
            /\ actions' = [actions EXCEPT ![worker[w].id].exit_authority = TRUE]
            /\ Goto(w, "retry")
            /\ UNCHANGED <<control, events, world>>

RetryBound(w) == At(w, "retry", {"UnwindPerp"}) /\ Transact(w, retry)

\* Past deadline_ms, or past the authority's submission deadline.
expire_perp(w) ==
  IF Potential(Claimed(w)) THEN continue_lighter_reconciliation(w)
  ELSE Transact(w, IF Claimed(w).kind = "UnwindPerp" THEN Stop("failed_safe", Ev("Unhedged"))
                   ELSE Stop("rejected", Ev("Expired")))

\* An earlier process reserved the nonce under another account or key: that
\* halts, and the error drops the claim.
assign_lighter_nonce(w) ==
  /\ LeaseHeld(w)
  /\ halt_execution([worker EXCEPT ![w] = Idle])
  /\ UNCHANGED <<saga, actions, cursor, drawn, events, world>>

\* The nonce query or the signer is away, the signer refuses, or it signs and
\* the signature is persisted.
sign_lighter_create_order(w) ==
  LET row == Claimed(w)
  IN  \/ Transact(w, retry)
      \/ Transact(w, IF row.kind = "UnwindPerp" THEN Stop("failed_safe", Ev("Unhedged"))
                     ELSE Stop("rejected", Ev("Cancelled")))
      \/ Mark(w, [row EXCEPT !.signed = TRUE], "authorize")

\* A signature found in the row goes on to be authorized, unless its nonce scope
\* is not the configured one: that halts, and the action is rescheduled.
validate_lighter_nonce_binding(w) ==
  \/ Transact(w, HaltingFirst(retry))
  \/ Goto(w, "authorize") /\ UNCHANGED <<control, actions, events, world>>

submit_perp(w) ==
  LET row == Claimed(w)
  IN  /\ At(w, "begin", PerpSubmits) /\ ~row.submission
      /\ row.kind = "UnwindPerp" => row.exit_authority
      /\ \/ expire_perp(w)
         \/ row.signed /\ validate_lighter_nonce_binding(w)
         \/ ~row.signed /\ (assign_lighter_nonce(w) \/ sign_lighter_create_order(w))

\* authorize_entry_send: the mode is ACTIVE at the control version of the claim.
EntryAuthorized(w) == mode = "ACTIVE" /\ worker[w].current

\* The send may not be made: what was authorized before is reconciled, and the
\* rest refused.
Withhold(w, refusal) ==
  IF Claimed(w).send_authorized THEN continue_lighter_reconciliation(w) ELSE Transact(w, refusal)

authorize_entry_send(w) ==
  /\ At(w, "authorize", {"SubmitPerp"})
  /\ IF EntryAuthorized(w) THEN Mark(w, [Claimed(w) EXCEPT !.send_authorized = TRUE], "send")
     ELSE Withhold(w, Stop("rejected", Ev("Cancelled")))

\* The authority's quote is still valid, or it has expired.
authorize_unwind_send(w) ==
  /\ At(w, "authorize", {"UnwindPerp"})
  /\ \/ Mark(w, [Claimed(w) EXCEPT !.send_authorized = TRUE], "send")
     \/ Withhold(w, Stop("failed_safe", NoEvent))

\* The order a row asks for: the whole entry, or the open part of the fill.
lighter_request(row) ==
  [state |-> "sent", fill |-> 0, over |-> FALSE,
   size |-> IF row.kind = "SubmitPerp" THEN Base ELSE row.filled]

\* The call itself checks no lease: the bytes are fixed, and a second broadcast
\* of them is the same Lighter transaction.
broadcast_lighter(w) ==
  LET row == Claimed(w)
      i   == row.client_order_index
  IN  /\ At(w, "send", PerpSubmits)
      /\ orders' = IF orders[i].state # "unsent" THEN orders
                   ELSE [orders EXCEPT ![i] = lighter_request(row)]
      /\ \E reply \in {"ok", "unknown"} :
           worker' = [worker EXCEPT ![w].pc = "reply", ![w].reply = reply]
      /\ UNCHANGED <<control, actions, events, journal, episode>>

\* Every answer but an accepted submission is an unknown outcome.  The arm for a
\* body that cannot be encoded is left out: the signed bytes are a JSON value.
AfterBroadcast(w) ==
  /\ At(w, "reply", PerpSubmits)
  /\ IF worker[w].reply = "ok"
     THEN Mark(w, [Claimed(w) EXCEPT !.submission = TRUE], "complete")
     ELSE continue_lighter_reconciliation(w)

-----------------------------------------------------------------------------

\* A recovered action replays its predecessor's request id.
RequestId(id) == IF actions[id].replay # 0 THEN actions[id].replay ELSE id


Attempted(row) == row.request \/ row.replay # 0

\* schedule_unwind: halt, then give up the spot leg and unwind the perp fill.
schedule_unwind(w) ==
  Transact(w, HaltingFirst(Outcome("succeeded", Ev("UnwindStarted"),
                                   EmergencyUnwind(Claimed(w).filled))))

\* persist_robinhood_request: the exact request is durable before the call.
persist_robinhood_request(w) == Mark(w, [Claimed(w) EXCEPT !.request = TRUE], "send")

submit_spot(w) ==
  LET row == Claimed(w)
  IN  /\ At(w, "begin", {"SubmitSpot"}) /\ ~row.submission
      /\ \/ \* past deadline_ms before any attempt, or no exact hedge
            /\ ~Attempted(row) \/ row.filled > Hedgeable
            /\ schedule_unwind(w)
         \/ row.filled <= Hedgeable /\ persist_robinhood_request(w)

unwind_spot(w) ==
  LET row    == Claimed(w)
      unsent == ~Attempted(row) /\ ~row.send_authorized
  IN  /\ At(w, "begin", {"UnwindSpot"}) /\ ~row.submission
      /\ \/ \* past the submission deadline, or the quote has just expired
            /\ unsent
            /\ \E e \in {Ev("Unhedged"), NoEvent} : Transact(w, Stop("failed_safe", e))
         \/ unsent /\ Mark(w, [row EXCEPT !.send_authorized = TRUE], "persist")
         \/ ~unsent /\ persist_robinhood_request(w)

PersistUnwind(w) == At(w, "persist", {"UnwindSpot"}) /\ persist_robinhood_request(w)

SpotReconciliation(w) ==
  LET row == Claimed(w)
  IN  [Row(IF row.kind = "SubmitSpot" THEN "ReconcileSpot" ELSE "ReconcileUnwindSpot",
           <<IF row.kind = "SubmitSpot" THEN "reconcile-spot" ELSE "reconcile-unwind-spot">>)
         EXCEPT !.filled = row.filled, !.exit_authority = row.exit_authority]

\* execute_robinhood_spot, again with no lease check.  The writer journals one
\* request per typed intent; it answers the request it journaled by its status,
\* and may refuse any other (409), deny it (400, 401, 403, 422) or be away.
Journals(j, rid, amount) ==
  [j EXCEPT !.req = rid, !.status = "journaled", !.amount = amount]

Replies(j, rid) ==
  {"unavailable"}
    \cup (IF j.req = rid /\ j.status # "reverted" THEN {"ok"} ELSE {})
    \cup (IF j.req # rid THEN {"conflict"} ELSE {})
    \cup (IF j.req # rid \/ j.status = "reverted" \/ TransientDenial THEN {"denied"} ELSE {})

execute_robinhood_spot(w) ==
  LET row  == Claimed(w)
      side == Side[row.kind]
      rid  == RequestId(worker[w].id)
  IN  /\ At(w, "send", SpotSubmits)
      /\ \E j \in {journal[side]} \cup
                  (IF journal[side].req = 0 /\ (TransientDenial \/ rid \notin journal[side].denied)
                   THEN {Journals(journal[side], rid, row.filled)} ELSE {}) :
           \E reply \in Replies(j, rid) :
             /\ journal' = [journal EXCEPT ![side] =
                  IF reply = "denied" THEN [j EXCEPT !.denied = @ \cup {rid}] ELSE j]
             /\ worker' = [worker EXCEPT ![w].pc = "reply", ![w].reply = reply]
      /\ UNCHANGED <<control, actions, events, orders, episode>>

AfterExecute(w) ==
  LET row   == Claimed(w)
      reply == worker[w].reply
      buy   == row.kind = "SubmitSpot"
  IN  /\ At(w, "reply", SpotSubmits)
      /\ CASE reply = "ok" -> Mark(w, [row EXCEPT !.submission = TRUE], "complete")
           [] reply = "conflict" ->
                Transact(w, Halting(Outcome("ambiguous",
                  IF buy THEN Ev("SpotSubmitted") ELSE NoEvent, SpotReconciliation(w))))
           [] reply = "denied" ->
                IF buy THEN schedule_unwind(w)
                ELSE Transact(w, Stop("failed_safe", Ev("Unhedged")))
           [] reply = "unavailable" -> Transact(w, retry)

\* complete_spot_submission and complete_unwind_spot_submission.
complete_spot_submission(w) ==
  LET row == Claimed(w)
      st  == worker[w].saga.state
      completes(e) == Transact(w, Outcome("succeeded", e, SpotReconciliation(w)))
  IN  /\ At(w, "complete", SpotSubmits) \/ (At(w, "begin", SpotSubmits) /\ row.submission)
      /\ IF row.kind = "UnwindSpot" \/ st = "SpotSubmitted" THEN completes(NoEvent)
         ELSE IF st \in {"PerpPartial", "PerpFilled"} THEN completes(Ev("SpotSubmitted"))
         ELSE fail_safe_action(w)

-----------------------------------------------------------------------------
(***************************************************************************)
(* Reconciliation: next_venue_event, then one transaction per event        *)
(***************************************************************************)
\* Mutant of venue_payload_matches: the attempt is taken for the order index.
MatchesAttempt(row, e) ==
  row.kind \in {"ReconcilePerp", "ReconcileUnwind"} => e.order = row.unwind_attempt

\* venue_payload_matches: Lighter evidence binds the order (index and hash),
\* Robinhood evidence the typed intent, which the leg already determines.
venue_payload_matches(row, e) ==
  row.kind \in {"ReconcilePerp", "ReconcileUnwind"} => e.order = row.client_order_index

OfLeg(row, n) == events[n].leg = venue_event_kinds[row.kind] /\ ~events[n].applied

Earliest(S) == CHOOSE n \in S : \A m \in S : n <= m

RoutedTo(id) == {n \in DOMAIN events : OfLeg(actions[id], n) /\ events[n].route = id}

Unrouted(id) ==
  {n \in DOMAIN events : OfLeg(actions[id], n) /\ events[n].route = 0 /\ ~events[n].quarantined}

quarantine_venue_event(n) == [events[n] EXCEPT !.quarantined = TRUE]

\* An event already routed to the action comes first.  Otherwise the unrouted
\* events of the leg are taken in order: each one that names another order is
\* quarantined, the first that matches is routed.  No lease is checked.
next_venue_event(w) ==
  LET id    == worker[w].id
      hits  == {n \in Unrouted(id) : venue_payload_matches(actions[id], events[n])}
      found == IF RoutedTo(id) # {} THEN Earliest(RoutedTo(id)) ELSE Earliest(hits)
      skips == {n \in Unrouted(id) : n \notin hits /\ (hits = {} \/ n < Earliest(hits))}
      routed == [n \in DOMAIN events |->
                   IF RoutedTo(id) # {} THEN events[n]
                   ELSE IF n \in skips THEN quarantine_venue_event(n)
                   ELSE IF hits # {} /\ n = found THEN [events[n] EXCEPT !.route = id]
                   ELSE events[n]]
  IN  /\ At(w, "begin", Reconciles)
      /\ events' = routed
      /\ IF RoutedTo(id) \cup hits # {}
         THEN /\ worker' = [worker EXCEPT ![w].pc = "observe", ![w].event = found]
              /\ UNCHANGED <<control, actions, world>>
         ELSE IF LeaseHeld(w)
         THEN \* nothing yet: an overdue wait halts, and the action is retried
              /\ actions' = [actions EXCEPT ![id] = Released(@, "pending")]
              /\ \/ worker' = [worker EXCEPT ![w] = Idle] /\ UNCHANGED mode
                 \/ halt_execution([worker EXCEPT ![w] = Idle])
              /\ UNCHANGED <<saga, cursor, drawn, world>>
         ELSE /\ worker' = [worker EXCEPT ![w] = Idle]
              /\ UNCHANGED <<control, actions, world>>

\* Mutant of InProgress: every reported fill is taken for the final one.
NeverInProgress(e) == FALSE

\* perp_partial and unwind_partial: the order may fill further.
InProgress(e) == e.kind = "partial"

\* Not fill_within_cap: the average price puts the fill over the notional cap.
OverCap(e) == e.fill > 0 /\ e.over

\* reconcile_perp; overfilled_perp and reject_observation are its second and
\* third branches.
reconcile_perp(row, s, e) ==
  IF e.kind = "accepted" THEN retry
  ELSE IF OverCap(e)
  THEN HaltingFirst(Outcome("succeeded", EvAmount("PerpOverfilled", e.fill),
                            EmergencyUnwind(e.fill)))
  ELSE IF e.fill < s.perp_filled_base THEN Stop("failed_safe", Ev("SafeFailure"))
  ELSE IF InProgress(e)
  THEN Outcome("pending", IF e.fill > s.perp_filled_base
                          THEN EvAmount("PerpPartiallyFilled", e.fill) ELSE NoEvent, NoRow)
  ELSE IF e.fill = 0 THEN Outcome("succeeded", Ev("PerpRejected"), NoRow)
  ELSE Outcome("succeeded", EvAmount("PerpFilled", e.fill),
               [Row("SubmitSpot", <<"hedge-spot">>) EXCEPT !.filled = e.fill])

\* Mutant of ExactHedge: any receipt above the minimum counts as a hedge.
AtLeastHedge(row, e) == e.fill >= row.filled

\* The receipt is exactly the target quantity for the fill.
ExactHedge(row, e) == e.fill = row.filled

reconcile_spot(row, s, e) ==
  IF e.kind = "rejected"
  THEN Outcome("succeeded", Ev("SpotRejected"), EmergencyUnwind(row.filled))
  ELSE IF ExactHedge(row, e)
  THEN Outcome("succeeded", EvAmount("SpotConfirmed", e.fill), NoRow)
  ELSE Outcome("succeeded", EvAmount("SpotMismatched", e.fill), EmergencyUnwind(row.filled))

\* Mutant of UnwindTotal: a cumulative fill is added to what is already booked.
AccumulatedTotal(row, s, e) == s.perp_unwound_base + e.fill

\* Fills of an order are cumulative: the total is counted from its start.
UnwindTotal(row, s, e) == row.unwound_before + e.fill

\* The total an unwind event proves must lie between what is booked and the fill.
UnwindFillMismatch(row, s, e) ==
  LET total == UnwindTotal(row, s, e)
  IN  e.fill > row.filled \/ total > s.perp_filled_base \/ total < s.perp_unwound_base

UnwindProgress(s, total) ==
  IF total > s.perp_unwound_base /\ total < s.perp_filled_base
  THEN EvAmount("PerpUnwindProgress", total) ELSE NoEvent

\* late: the authority's submission deadline has passed.
reconcile_unwind(row, s, e, late) ==
  LET total == UnwindTotal(row, s, e)
  IN  IF UnwindFillMismatch(row, s, e) THEN Stop("failed_safe", Ev("Unhedged"))
      ELSE IF e.kind = "accepted" THEN retry
      ELSE IF InProgress(e) THEN Outcome("pending", UnwindProgress(s, total), NoRow)
      ELSE IF total = s.perp_filled_base
      THEN Outcome("succeeded", EvAmount("PerpUnwindCompleted", total),
             IF s.spot_received_raw = 0 THEN NoRow
             ELSE [Row("UnwindSpot", <<"emergency-unwind-spot">>) EXCEPT
                     !.filled = s.spot_received_raw, !.exit_authority = row.exit_authority])
      ELSE IF row.unwind_attempt + 1 < MaxUnwindAttempts /\ ~late
      THEN Outcome("succeeded", UnwindProgress(s, total),
             [Row("UnwindPerp", <<"emergency-unwind-perp", row.unwind_attempt + 1>>) EXCEPT
                !.filled = s.perp_filled_base - total, !.unwound_before = total,
                !.exit_authority = row.exit_authority])
      ELSE Stop("failed_safe", EvAmount("PerpUnwindFailed", total))

\* A confirmation must conserve value: exact input, at least the minimum output.
reconcile_unwind_spot(row, s, e) ==
  IF e.kind = "confirmed" /\ ~e.over THEN Outcome("succeeded", Ev("Closed"), NoRow)
  ELSE Stop("failed_safe", Ev("Unhedged"))

\* Only apply_venue_event marks the event as applied; a stop leaves it routed.
Observe(w) ==
  LET row == Claimed(w)
      s   == worker[w].saga
      e   == events[worker[w].event]
      outcome(late) ==
        CASE row.kind = "ReconcilePerp" -> reconcile_perp(row, s, e)
          [] row.kind = "ReconcileSpot" -> reconcile_spot(row, s, e)
          [] row.kind = "ReconcileUnwind" -> reconcile_unwind(row, s, e, late)
          [] row.kind = "ReconcileUnwindSpot" -> reconcile_unwind_spot(row, s, e)
  IN  /\ At(w, "observe", Reconciles)
      /\ \E late \in BOOLEAN :
           LET o == outcome(late)
           IN  Transact(w, IF o.status = "failed_safe" THEN o
                           ELSE [o EXCEPT !.applied = worker[w].event])

-----------------------------------------------------------------------------
(***************************************************************************)
(* Requests                                                                *)
(***************************************************************************)
create_intent ==
  /\ saga.state = "Created" /\ mode = "ACTIVE"
  /\ saga' = apply(saga, Ev("PrecheckPassed"))
  /\ enqueue_action(actions, Row("SubmitPerp", <<"entry-perp">>))
  /\ UNCHANGED <<mode, events, worker, world>>

\* What both request handlers end with: the transition, one action, one unit of
\* the request bound.
Resume(event, n) ==
  /\ NoLiveAction /\ episode.requests > 0
  /\ event # NoEvent => accepts(saga, event)
  /\ Allocatable(n)
  /\ transition_saga(event)
  /\ enqueue_action(actions, n)
  /\ episode' = [episode EXCEPT !.requests = @ - 1]
  /\ UNCHANGED <<mode, events, worker, orders, journal>>

ExitRow(kind, fill, before, operator) ==
  [Row(kind, <<"exit", Len(actions) + 1>>) EXCEPT
     !.filled = fill, !.unwound_before = before, !.exit_authority = TRUE,
     !.operator_recovery = operator]

request_exit(operator) ==
  LET open == saga.perp_filled_base - saga.perp_unwound_base
  IN  \/ /\ saga.state = "PerpFilled" /\ operator
         /\ Resume(Ev("UnwindStarted"), ExitRow("UnwindPerp", saga.perp_filled_base, 0, FALSE))
      \/ \* ExitStarted and UnwindStarted in one transaction
         /\ saga.state = "Hedged"
         /\ Resume(Ev("UnwindStarted"), ExitRow("UnwindPerp", saga.perp_filled_base, 0, FALSE))
      \/ /\ saga.state \in {"Unwinding", "Unhedged"} /\ saga.perp_filled_base > 0
         /\ Resume(IF saga.state = "Unhedged" THEN Ev("UnwindStarted") ELSE NoEvent,
                   IF open > 0
                   THEN ExitRow("UnwindPerp", open, saga.perp_unwound_base, operator)
                   ELSE ExitRow("UnwindSpot", saga.spot_received_raw, 0, FALSE))

\* The payload of a row, carried over to a successor of the given kind.
Successor(i, kind) ==
  LET row == actions[i]
  IN  [Row(kind, <<"recovery", Len(actions) + 1>>) EXCEPT
         !.filled = row.filled, !.unwound_before = row.unwound_before,
         !.unwind_attempt = row.unwind_attempt,
         !.client_order_index = row.client_order_index,
         !.operator_recovery = row.operator_recovery,
         !.exit_authority = row.exit_authority, !.replay = row.replay]

\* recover_spot_submission and the unwind_spot arm of
\* recover_unwind_reconciliation: reconcile a journaled submission, else replay
\* the persisted request.
RecoverSpot(i, submit, reconcile) ==
  LET row == actions[i]
  IN  CASE row.kind = reconcile -> Successor(i, reconcile)
        [] row.kind = submit /\ row.submission -> Successor(i, reconcile)
        [] row.kind = submit /\ ~row.submission /\ row.request ->
             [Successor(i, submit) EXCEPT !.replay = RequestId(i)]
        [] OTHER -> NoRow

RecoverPerp(i, submit, reconcile) ==
  LET row == actions[i]
  IN  IF \/ row.kind = reconcile
         \/ row.kind = submit /\ row.signed /\ (row.send_authorized \/ row.submission)
      THEN Successor(i, reconcile) ELSE NoRow

recovery_successor(i) ==
  CASE saga.state \in {"Prechecked", "PerpSubmitted", "PerpPartial"} ->
         RecoverPerp(i, "SubmitPerp", "ReconcilePerp")
    [] saga.state = "PerpFilled" -> RecoverSpot(i, "SubmitSpot", "ReconcileSpot")
    [] saga.state = "SpotSubmitted" ->
         IF actions[i].kind = "ReconcileSpot" THEN Successor(i, "ReconcileSpot") ELSE NoRow
    [] saga.state \in {"Unwinding", "Unhedged"} ->
         IF actions[i].kind \in SpotSubmits \cup {"ReconcileUnwindSpot"}
         THEN RecoverSpot(i, "UnwindSpot", "ReconcileUnwindSpot")
         ELSE RecoverPerp(i, "UnwindPerp", "ReconcileUnwind")
    [] OTHER -> NoRow

\* request_recovery: the newest stopped action that has a successor.
Recoverable ==
  {i \in DOMAIN actions : actions[i].status \in {"ambiguous", "failed_safe"}
                          /\ recovery_successor(i) # NoRow}

request_recovery ==
  /\ Recoverable # {}
  /\ LET i == CHOOSE m \in Recoverable : \A k \in Recoverable : k <= m
         n == recovery_successor(i)
     IN  Resume(CASE saga.state = "Prechecked" -> Ev("PerpSubmitted")
                  [] saga.state = "Unhedged" -> Ev("UnwindStarted")
                  [] OTHER -> NoEvent, n)

\* The mode is read by create_intent, claim_action and authorize_entry_send only,
\* so it may be left alone once the entry is past them.
ModeMatters == saga.state \in {"Created", "Prechecked"}

\* A halt taken outside this episode's actions.
halt ==
  /\ ModeMatters
  /\ halt_execution(worker)
  /\ UNCHANGED <<saga, actions, cursor, drawn, events, world>>

\* An operator sets the mode back to ACTIVE; the version is left as it is.
Reactivate ==
  /\ ModeMatters
  /\ mode' = "ACTIVE"
  /\ UNCHANGED <<saga, actions, cursor, drawn, events, worker, world>>

-----------------------------------------------------------------------------
(***************************************************************************)
(* The environment: process failures, Lighter and the Robinhood chain      *)
(***************************************************************************)
\* A lease runs out: at no cost to the bound once its worker has dropped it.
LeaseExpires(i) ==
  LET busy == \E w \in Worker : worker[w].id = i /\ actions[i].owner = w
  IN  /\ actions[i].status = "leased" /\ actions[i].live
      /\ busy => episode.stalls > 0
      /\ actions' = [actions EXCEPT ![i].live = FALSE]
      /\ episode' = IF busy THEN [episode EXCEPT !.stalls = @ - 1] ELSE episode
      /\ UNCHANGED <<control, events, worker, orders, journal>>

\* The process dies, or an error that is neither a lost lease nor poison drops
\* the claim: the row stays leased.
Crash(w) ==
  /\ worker[w].pc # "idle" /\ episode.stalls > 0
  /\ worker' = [worker EXCEPT ![w] = Idle]
  /\ episode' = [episode EXCEPT !.stalls = @ - 1]
  /\ UNCHANGED <<control, actions, events, orders, journal>>

\* Data a handler cannot read (ClaimPoison, InvalidPayload, an unreadable clock).
Poison(w) ==
  /\ worker[w].pc # "idle" /\ LeaseHeld(w) /\ episode.poisons > 0
  /\ actions' = [actions EXCEPT ![worker[w].id] = Released(@, "failed_safe")]
  /\ halt_execution([worker EXCEPT ![w] = Idle])
  /\ episode' = [episode EXCEPT !.poisons = @ - 1]
  /\ UNCHANGED <<saga, cursor, drawn, events, orders, journal>>

Unwinds == OrderIndex \ {Entry}

UnwindFill == FoldSet(LAMBDA i, n : orders[i].fill + n, 0, Unwinds)

\* The short position at Lighter: a reduce-only order cannot take it below zero.
Short == orders[Entry].fill - UnwindFill

VenueStep(o) ==
  /\ orders' = o
  /\ UNCHANGED <<control, actions, events, worker, journal, episode>>

OpenOrder(i) == orders[i].state = "sent" /\ VenueStep([orders EXCEPT ![i].state = "open"])

FillOrder(i) ==
  /\ orders[i].state = "open"
  /\ i # Entry => Short > 0
  /\ \E over \in BOOLEAN :
       LET full == orders[i].fill + 1 = orders[i].size
       IN  /\ over => i = Entry /\ (full \/ OvercapPartial)
           /\ VenueStep([orders EXCEPT ![i].fill = @ + 1, ![i].over = over,
                                       ![i].state = IF full THEN "done" ELSE "open"])

\* The remainder of an immediate-or-cancel order is cancelled.
EndOrder(i) == orders[i].state = "open" /\ VenueStep([orders EXCEPT ![i].state = "done"])

Record(e) ==
  /\ \A n \in DOMAIN events :
       ~(events[n].leg = e.leg /\ events[n].order = e.order /\ events[n].kind = e.kind
         /\ events[n].fill = e.fill)
  /\ events' = Append(events, e)
  /\ UNCHANGED <<control, actions, worker, world>>

VenueEvent(leg, kind, order, fill, over) ==
  [leg |-> leg, kind |-> kind, order |-> order, fill |-> fill, over |-> over,
   route |-> 0, quarantined |-> FALSE, applied |-> FALSE]

\* The account stream reports the order as it is now; it may skip states.
ReportOrder(i) ==
  LET o == orders[i]
      kind == IF o.state = "open" THEN IF o.fill = 0 THEN "accepted" ELSE "partial"
              ELSE IF o.fill = o.size THEN "filled" ELSE "rejected"
  IN  /\ o.state \in {"open", "done"}
      /\ Record(VenueEvent(IF i = Entry THEN "perp" ELSE "unwind", kind, i, o.fill, o.over))

\* A journaled transaction executes or reverts; a buy may return another amount
\* than the hedge needs.
ChainSettles(side) ==
  /\ journal[side].status = "journaled"
  /\ \/ journal' = [journal EXCEPT ![side].status = "reverted"]
     \/ \E extra \in IF side = "buy" THEN {0, 1} ELSE {0} :
          journal' = [journal EXCEPT ![side].status = "executed", ![side].amount = @ + extra]
  /\ UNCHANGED <<control, actions, events, worker, orders, episode>>

\* The observer of the chain; over marks a sale that did not conserve value.
ReportSpot(side) ==
  LET leg == IF side = "buy" THEN "spot" ELSE "spot_unwind"
      j   == journal[side]
  IN  \/ j.status = "reverted" /\ Record(VenueEvent(leg, "rejected", Entry, 0, FALSE))
      \/ \E over \in {FALSE, side = "sell"} :
           j.status = "executed" /\ Record(VenueEvent(leg, "confirmed", Entry, j.amount, over))

-----------------------------------------------------------------------------
Init ==
  /\ episode \in Episodes
  /\ mode = "ACTIVE" /\ saga = new /\ actions = <<>> /\ cursor = 0 /\ drawn = 0
  /\ events = <<>> /\ worker = [w \in Worker |-> Idle]
  /\ orders = [i \in 0..(episode.attempts + episode.requests) |->
                  [state |-> "unsent", size |-> 0, fill |-> 0, over |-> FALSE]]
  /\ journal = [side \in {"buy", "sell"} |->
                  [req |-> 0, status |-> None, amount |-> 0, denied |-> {}]]

\* The handlers of worker.rs, one step of worker w.
Process(w) ==
  \/ \E i \in DOMAIN actions : claim_action(w, i)
  \/ LeaseLost(w)
  \/ bind_exit_authority(w) \/ RetryBound(w)
  \/ submit_perp(w) \/ authorize_entry_send(w) \/ authorize_unwind_send(w)
  \/ broadcast_lighter(w)
  \/ AfterBroadcast(w) \/ complete_lighter_submission(w)
  \/ submit_spot(w) \/ unwind_spot(w) \/ PersistUnwind(w)
  \/ execute_robinhood_spot(w) \/ AfterExecute(w) \/ complete_spot_submission(w)
  \/ next_venue_event(w) \/ Observe(w)

\* The documented procedure: an operator closes a known perp fill before any spot
\* acquisition.  The handler cannot tell, so it is an assumption on the operator.
NoSpotRequest ==
  journal["buy"].req = 0 /\ \A i \in DOMAIN actions : ~(actions[i].kind = "SubmitSpot" /\ actions[i].request)

ByProcedure(operator) == operator /\ saga.state = "PerpFilled" => BlindOperatorExit \/ NoSpotRequest

Request ==
  \/ create_intent \/ request_recovery
  \/ \E operator \in BOOLEAN : ByProcedure(operator) /\ request_exit(operator)

Operator == Request \/ halt \/ Reactivate

Failure ==
  \/ \E i \in DOMAIN actions : LeaseExpires(i)
  \/ \E w \in Worker : Crash(w) \/ Poison(w)

Venue ==
  \/ \E i \in OrderIndex : OpenOrder(i) \/ FillOrder(i) \/ EndOrder(i) \/ ReportOrder(i)
  \/ \E side \in {"buy", "sell"} : ChainSettles(side) \/ ReportSpot(side)

Next == (\E w \in Worker : Process(w)) \/ Operator \/ Failure \/ Venue

Spec == Init /\ [][Next]_vars

-----------------------------------------------------------------------------
(***************************************************************************)
(* Properties                                                              *)
(***************************************************************************)
\* Every row, process, event and order keeps its type, and the ids they hold
\* refer to rows that exist.
TypeOK ==
  /\ mode \in {"ACTIVE", "HALTED"} /\ saga \in SagaRecord
  /\ cursor \in 0..MaxUnwindAttempts /\ drawn \in OrderIndex
  /\ \A i \in DOMAIN actions :
       LET row == actions[i]
       IN  /\ row.kind \in ActionKind
           /\ row.status \in {"pending", "leased", "succeeded", "ambiguous", "failed_safe", "rejected"}
           /\ row.owner \in Worker \cup {None}
           /\ row.live => row.status = "leased"
           /\ row.client_order_index \in OrderIndex
           /\ row.replay \in 0..Len(actions)
  /\ \A w \in Worker :
       /\ worker[w].pc \in {"idle", "begin", "retry", "authorize", "persist", "send",
                            "reply", "complete", "observe"}
       /\ worker[w].pc = "idle" <=> worker[w].id = 0
       /\ worker[w].id \in 0..Len(actions) /\ worker[w].event \in 0..Len(events)
  /\ \A n \in DOMAIN events : events[n].route \in 0..Len(actions)
  /\ \A i \in OrderIndex : orders[i].fill <= orders[i].size

\* At most one action of the episode is pending or leased, whichever handlers,
\* requests and recoveries raced: complete_action and its siblings replace the
\* claimed action by its successor in one transaction, and request_exit and
\* request_recovery refuse while one is live.
OneLiveAction == Cardinality({i \in DOMAIN actions : Live(i)}) <= 1

\* While a worker holds its lease, the saga it read at the claim is the stored
\* one: the handlers decide on that snapshot and commit much later.
SnapshotCurrent ==
  \A w \in Worker : worker[w].pc # "idle" /\ LeaseHeld(w) => worker[w].saga = saga

SpotHeld ==
  LET moved(side) == IF journal[side].status = "executed" THEN journal[side].amount ELSE 0
  IN  moved("buy") - moved("sell")

\* A process, fenced off or not, that is about to make the call of its action.
AboutTo(kind) == \E w \in Worker : At(w, "send", {kind})

\* When the saga releases the exposure lock (Closed, Cancelled or Expired) no leg
\* is open at either venue and nothing in flight can open one: no short, no
\* stock, no entry order that may still reach the book, no buy that may still
\* execute, and no process that is about to send either.
ReleasedIsFlat ==
  exposure_resolved(saga.state) =>
    /\ Short = 0 /\ SpotHeld = 0
    /\ orders[Entry].state \in {"unsent", "done"} /\ journal["buy"].status # "journaled"
    /\ AboutTo("SubmitPerp") => orders[Entry].state = "done"
    /\ AboutTo("SubmitSpot") => journal["buy"].req # 0 \/ journal["buy"].denied # {}

\* The books never run ahead of the venues: a booked fill, unwind or receipt has
\* happened, whatever was delayed, repeated or reordered on the way.
BooksBehindVenues ==
  /\ saga.perp_filled_base <= orders[Entry].fill
  /\ saga.perp_unwound_base <= UnwindFill
  /\ saga.spot_received_raw \in {0, journal["buy"].amount}

\* Hedged means hedged at the venues, not only in the books: the short equals
\* the stock held, and no order is left that could move it.
HedgedIsExact ==
  saga.state = "Hedged" =>
    /\ Short = SpotHeld /\ Short = saga.perp_filled_base
    /\ \A i \in OrderIndex : orders[i].state \in {"unsent", "done"}

\* A signature with a durable send authorization, or an order that was sent, is
\* never converted into a no-exposure result by expiry, halt or restart: the
\* saga is Cancelled or Expired only if the entry never left, or came back
\* terminal with no fill.
SentIsNeverExpired ==
  saga.state \in {"Cancelled", "Expired"} =>
    \/ orders[Entry].state = "unsent" /\ \A i \in DOMAIN actions : ~Potential(actions[i])
    \/ orders[Entry].state = "done" /\ orders[Entry].fill = 0

\* The attempts the workers schedule never have two unwind orders out together: a
\* second reduce-only order is sent only after the previous one is known to be
\* terminal.  (An operator may add one after an action was failed as poisoned.)
OneUnwindOrder ==
  (\A i \in DOMAIN actions : ~actions[i].operator_recovery) =>
    Cardinality({i \in Unwinds : orders[i].state \in {"sent", "open"}}) <= 1

Terminal == {"filled", "rejected", "confirmed"}

\* The evidence that ends the wait of reconciliation i has been recorded.
Evident(i) ==
  \E n \in DOMAIN events :
    /\ events[n].leg = venue_event_kinds[actions[i].kind] /\ events[n].kind \in Terminal
    /\ venue_payload_matches(actions[i], events[n])

Available(i, n) ==
  events[n].route \in {0, i} /\ ~events[n].applied /\ ~events[n].quarantined

\* Action i is no reconciliation that waits in vain: the terminal event of its
\* order was not consumed by, routed to or quarantined for another action.
CanEnd(i) ==
  LET row == actions[i]
      ends(n) ==
        /\ events[n].leg = venue_event_kinds[row.kind] /\ events[n].kind \in Terminal
        /\ events[n].leg \in {"perp", "unwind"} => events[n].order = row.client_order_index
  IN  Live(i) /\ row.kind \in Reconciles => \A n \in DOMAIN events : ends(n) => Available(i, n)

\* A reconciliation that is waiting can still be given the evidence it waits for.
NotStranded == \A i \in DOMAIN actions : CanEnd(i)

\* The queue never strands an action of its own: whatever was poisoned, exited or
\* recovered before, a reconciliation that no recovery created can still be given
\* the evidence it waits for.
QueueNeverStrands ==
  \A i \in DOMAIN actions : Head(actions[i].key) # "recovery" => CanEnd(i)

-----------------------------------------------------------------------------
(***************************************************************************)
(* Liveness.  The worker loops poll for ever, so as long as some worker    *)
(* can take a step some worker takes one, and a lease nobody renews        *)
(* eventually expires.                                                     *)
(***************************************************************************)
Fairness ==
  /\ WF_vars(\E w \in Worker : Process(w))
  /\ WF_vars(\E i \in DOMAIN actions : LeaseExpires(i))

FairSpec == Spec /\ Fairness

\* Recorded evidence is acted upon: whenever the terminal event of the order or
\* intent a reconciliation waits for is in the database, that action ends, also
\* when the process that was about to apply the event dies.  (The successor of a
\* reconciliation is a submission, so the wait is over at least for a moment.)
EvidenceIsBooked ==
  []<>~\E i \in DOMAIN actions :
        Live(i) /\ actions[i].kind \in Reconciles /\ Evident(i)
=============================================================================

------------------------------ MODULE Admission ------------------------------
(***************************************************************************)
(* Admission of paired intents (coordinator/src/store.rs): create_intent   *)
(* against the control row, the promotion log, the market configurations   *)
(* and quotes, and the one-active-episode lock, while workers settle the   *)
(* running episode and operators halt, reactivate and promote.             *)
(*                                                                         *)
(* One action is one statement of a transaction, so the row and advisory   *)
(* locks matter.  Which locks a transaction holds follows from how far it  *)
(* is: create_intent reads the mode FOR SHARE, takes the advisory lock of  *)
(* its strategy, and inserts into a unique index that makes it wait for    *)
(* any uncommitted change of the active row.  A refused request rolls back *)
(* and changes nothing, so a refusal before the first statement is no step.*)
(* PostgreSQL ends a cycle of waits by aborting one of its transactions.   *)
(***************************************************************************)
EXTENDS PairIntent, FiniteSets

CONSTANTS
  Client,          \* the API requests in flight
  Scenario,        \* the intents that may be submitted in one behaviour, by id, with
                   \* bounds on the requests, worker transactions and draws
  Quote,           \* the market quotes published
  Config,          \* execution_market_configs, by manifest
  BPS,             \* basis points in one: 10,000
  Promoted,        \* the promotion state each strategy starts from
  FirstOperatorIndex, \* MINVALUE of execution_operator_order_index_seq
  MaxTries         \* the draws allocate_operator_order_index makes at most

ASSUME AdmissionAssumption ==
  /\ {BPS, FirstOperatorIndex, MaxTries} \subseteq Nat
  /\ \A s \in Scenario : {s.requests, s.transitions, s.draws} \subseteq Nat

VARIABLES
  intents,     \* the intents that may be submitted, by id
  mode,        \* execution_control.mode: "ACTIVE" or not
  promotion,   \* the newest row of execution_promotion_events, by strategy
  quotes,      \* execution_market_quotes
  episodes,    \* execution_intents, by id: "absent", "active" or "resolved"
  drawn,       \* the order indexes drawn for each intent by operator exits
  tx,          \* the create_intent transactions, by client
  worker,      \* the worker transaction on the active episode
  sequence,    \* the next value of execution_operator_order_index_seq
  budget       \* what is left of the scenario's bounds

admitted == <<episodes, drawn, sequence>>
evidence == <<intents, promotion, quotes>>
vars == <<intents, mode, promotion, quotes, episodes, drawn, tx, worker, sequence, budget>>

Ids == DOMAIN intents

Admitted == {id \in Ids : episodes[id] # "absent"}

Active == {id \in Ids : episodes[id] = "active"}

Idle == [pc |-> "idle", id |-> "none"]

-----------------------------------------------------------------------------
(***************************************************************************)
(* Locks                                                                   *)
(***************************************************************************)
\* Mutant of HoldsControl: the mode is read without FOR SHARE.
NoShareLock(c) == FALSE

HoldsControl(c) == tx[c].pc # "idle"

\* An UPDATE of the control row waits for the readers that share it.
ControlFree == \A c \in Client : ~HoldsControl(c)

\* pg_advisory_xact_lock(hashtext(strategy_version)).
HoldsStrategy(c, s) ==
  tx[c].pc \in {"insert", "commit"} /\ intents[tx[c].id].strategy_version = s

StrategyFree(s) == \A c \in Client : ~HoldsStrategy(c, s)

\* Another transaction has an uncommitted version of an active row.
IndexBusy(c) == worker.open \/ \E d \in Client \ {c} : tx[d].pc = "commit"

Step(c, pc) == tx' = [tx EXCEPT ![c].pc = pc]

\* Mutant of Rollback: a refused request leaves its transaction open.
StaysOpen(c) == tx' = [tx EXCEPT ![c].pc = "refused"]

Rollback(c) == tx' = [tx EXCEPT ![c] = Idle]

-----------------------------------------------------------------------------
(***************************************************************************)
(* create_intent                                                           *)
(***************************************************************************)
\* validate, the currency check and the mode, read FOR SHARE.
create_intent(c, id) ==
  /\ tx[c].pc = "idle" /\ budget.requests > 0
  /\ validate(intents[id]) /\ mode = "ACTIVE"
  /\ tx' = [tx EXCEPT ![c] = [pc |-> "authority", id |-> id]]
  /\ budget' = [budget EXCEPT !.requests = @ - 1]
  /\ UNCHANGED <<mode, evidence, admitted, worker>>

WithinBps(price, mark, bps) ==
  (IF price > mark THEN price - mark ELSE mark - price) * BPS <= mark * bps

\* verify_market_authority: the reviewed configuration and the recorded quote the
\* intent refers to, both valid up to its deadline, agree with it.
Authorized(i) ==
  LET cfg == Config[i.market_manifest]
  IN  /\ cfg.valid_from <= i.created_at_ms /\ cfg.valid_until >= i.deadline_ms
      /\ \A f \in {"spot_config_version", "ui_multiplier_e18", "spot_decimals",
                    "perp_base_decimals", "perp_price_decimals"} : i[f] = cfg[f]
      /\ \E q \in quotes :
           /\ q.quote_block_hash = i.quote_block_hash
           /\ q.received_at_ms = i.quote_received_at_ms
           /\ q.expires_at_ms = i.quote_expires_at_ms /\ q.expires_at_ms >= i.deadline_ms
           /\ q.mark_price = i.perp_mark_price
           /\ WithinBps(i.perp_limit_price, q.mark_price, cfg.max_price_deviation_bps)
           /\ WithinBps(i.perp_unwind_price, q.mark_price, cfg.max_unwind_price_deviation_bps)
      /\ i.minimum_spot_amount_out * BPS
           >= i.raw_spot_amount * (BPS - cfg.max_spot_slippage_bps)
      /\ i.minimum_unwind_settlement_out * BPS
           >= i.settlement_amount_in * (BPS - cfg.max_spot_slippage_bps)

verify_market_authority(c) ==
  /\ tx[c].pc = "authority"
  /\ IF Authorized(intents[tx[c].id]) THEN Step(c, "promotion") ELSE Rollback(c)
  /\ UNCHANGED <<mode, evidence, admitted, worker, budget>>

Eligible(s) == promotion[s] = [state |-> "canary_eligible", passes |-> TRUE]

\* verify_promotion: under the advisory lock, the newest promotion event.
verify_promotion(c) ==
  LET s == intents[tx[c].id].strategy_version
  IN  /\ tx[c].pc = "promotion" /\ StrategyFree(s)
      /\ IF Eligible(s) THEN Step(c, "insert") ELSE Rollback(c)
      /\ UNCHANGED <<mode, evidence, admitted, worker, budget>>

\* Mutant of ReservedIndexes: only the first unwind order is registered.
FirstIndexOnly(i) == {i.client_order_index, i.unwind_client_order_index}

\* The rows of execution_identifiers an admitted intent owns: the entry and every
\* reserved unwind order index, what operator exits drew, and its two spot ids.
ReservedIndexes(i) == {i.client_order_index} \cup UnwindIndexes(i)

OrderIdentifiers == UNION {ReservedIndexes(intents[id]) \cup drawn[id] : id \in Admitted}

SpotIds(i) == {i.id, i.spot_unwind_intent_id}

SpotIdentifiers == UNION {SpotIds(intents[id]) : id \in Admitted}

\* INSERT INTO execution_intents under the unique index execution_one_active_episode;
\* it waits while the index entry is in doubt.
insert_intent(c) ==
  /\ tx[c].pc = "insert" /\ ~IndexBusy(c)
  /\ IF Active # {} \/ tx[c].id \in Admitted
     THEN Rollback(c) ELSE Step(c, "commit")
  /\ UNCHANGED <<mode, evidence, admitted, worker, budget>>

\* The identifiers, the first action and COMMIT.
commit_intent(c) ==
  LET i == intents[tx[c].id]
  IN  /\ tx[c].pc = "commit" /\ Rollback(c)
      /\ IF \/ ReservedIndexes(i) \cap OrderIdentifiers # {}
            \/ SpotIds(i) \cap SpotIdentifiers # {}
         THEN UNCHANGED episodes
         ELSE episodes' = [episodes EXCEPT ![i.id] = "active"]
      /\ UNCHANGED <<mode, evidence, drawn, sequence, worker, budget>>

-----------------------------------------------------------------------------
(***************************************************************************)
(* The running episode, operators and publishers                           *)
(***************************************************************************)
\* A worker's transaction updates the row of the active episode (transition_saga)
\* and later ends it; stop_action and its siblings halt in the same transaction.
begin_transition ==
  /\ Active # {} /\ ~worker.open
  /\ \/ worker.incident /\ worker' = [worker EXCEPT !.open = TRUE] /\ UNCHANGED budget
     \/ /\ ~worker.incident /\ budget.transitions > 0
        /\ \E incident, resolves \in BOOLEAN :
             /\ ~(incident /\ resolves)
             /\ worker' = [open |-> TRUE, incident |-> incident, resolves |-> resolves]
        /\ budget' = [budget EXCEPT !.transitions = @ - 1]
  /\ UNCHANGED <<mode, evidence, admitted, tx>>

NoWork == [open |-> FALSE, incident |-> FALSE, resolves |-> FALSE]

end_transition ==
  /\ worker.open
  /\ worker.incident => ControlFree
  /\ mode' = IF worker.incident THEN "HALTED" ELSE mode
  /\ episodes' = [id \in Ids |-> IF id \in Active /\ worker.resolves THEN "resolved" ELSE episodes[id]]
  /\ worker' = NoWork
  /\ UNCHANGED <<evidence, drawn, sequence, tx, budget>>

\* A worker that waits for the control row and a request that waits for the
\* worker's row: one of the two is aborted.  The worker's action is retried.
deadlock_abort(c) ==
  /\ worker.open /\ worker.incident /\ tx[c].pc = "insert"
  /\ \/ Rollback(c) /\ UNCHANGED worker
     \/ worker' = [worker EXCEPT !.open = FALSE] /\ UNCHANGED tx
  /\ UNCHANGED <<mode, evidence, admitted, budget>>

\* allocate_operator_order_index, for an operator exit of the active episode that
\* has used its reserved indexes: values drawn before a failure stay drawn.
allocate_operator_order_index ==
  LET next == sequence..(sequence + MaxTries - 1)
      free == next \ OrderIdentifiers
      least == CHOOSE n \in free : \A m \in free : n <= m
  IN  /\ ~worker.open /\ budget.draws > 0
      /\ \E id \in Active :
           IF free = {}
           THEN sequence' = sequence + MaxTries /\ UNCHANGED drawn
           ELSE sequence' = least + 1 /\ drawn' = [drawn EXCEPT ![id] = @ \cup {least}]
      /\ budget' = [budget EXCEPT !.draws = @ - 1]
      /\ UNCHANGED <<mode, evidence, episodes, tx, worker>>

\* halt, or an operator's UPDATE back to ACTIVE.
set_mode(m) ==
  /\ ControlFree /\ mode # m /\ mode' = m
  /\ UNCHANGED <<evidence, admitted, tx, worker, budget>>

\* The states of a strategy version, in order, and the two that end it.
Ladder ==
  [registered |-> "research", research |-> "shadow_eligible", shadow_eligible |-> "shadow",
   shadow |-> "audit_ready", audit_ready |-> "canary_eligible"]

\* execution_validate_promotion and the CHECK on the table: an event continues the
\* newest one, under the advisory lock of the strategy.  passes says whether the
\* evidence cited for canary_eligible clears the canary gates.
promote(s) ==
  LET from == promotion[s].state
      to   == CASE from \in DOMAIN Ladder -> {Ladder[from], "rejected", "retired"}
                [] from = "canary_eligible" -> {"retired"}
                [] OTHER -> {}
  IN  /\ StrategyFree(s)
      /\ \E state \in to : \E passes \in (IF state = "canary_eligible" THEN BOOLEAN ELSE {FALSE}) :
           promotion' = [promotion EXCEPT ![s] = [state |-> state, passes |-> passes]]
      /\ UNCHANGED <<intents, quotes, mode, admitted, tx, worker, budget>>

\* A published quote is for this behaviour's market.  event_id is its source,
\* session and event; a quote is referred to by market, block and receipt time.
SameReference(p, q) ==
  p.quote_block_hash = q.quote_block_hash /\ p.received_at_ms = q.received_at_ms

SamePrice(p, q) == p.mark_price = q.mark_price /\ p.expires_at_ms = q.expires_at_ms

\* record_market_quote: the identical or an equivalent row is a duplicate, any
\* other clash of identities halts.
record_market_quote(q) ==
  LET same  == {p \in quotes : p.event_id = q.event_id}
      clash == IF same # {} THEN same # {q}
               ELSE \E p \in quotes : SameReference(p, q) /\ ~SamePrice(p, q)
      fresh == same = {} /\ ~\E p \in quotes : SameReference(p, q)
  IN  /\ clash => ControlFree
      /\ quotes' = IF fresh THEN quotes \cup {q} ELSE quotes
      /\ mode' = IF clash THEN "HALTED" ELSE mode
      /\ UNCHANGED <<intents, promotion, admitted, tx, worker, budget>>

-----------------------------------------------------------------------------
Init ==
  /\ \E s \in Scenario :
       /\ intents = s.intents
       /\ budget = [requests |-> s.requests, transitions |-> s.transitions, draws |-> s.draws]
  /\ mode = "HALTED" /\ promotion = Promoted /\ quotes = {}
  /\ episodes = [id \in Ids |-> "absent"] /\ drawn = [id \in Ids |-> {}]
  /\ tx = [c \in Client |-> Idle] /\ worker = NoWork /\ sequence = FirstOperatorIndex

Request(c) ==
  \/ verify_market_authority(c) \/ verify_promotion(c)
  \/ insert_intent(c) \/ commit_intent(c)

Next ==
  \/ \E c \in Client : Request(c) \/ deadlock_abort(c) \/ \E id \in Ids : create_intent(c, id)
  \/ begin_transition \/ end_transition \/ allocate_operator_order_index
  \/ \E m \in {"ACTIVE", "HALTED"} : set_mode(m)
  \/ \E s \in DOMAIN promotion : promote(s)
  \/ \E q \in Quote : record_market_quote(q)

Spec == Init /\ [][Next]_vars

-----------------------------------------------------------------------------
(***************************************************************************)
(* Properties                                                              *)
(***************************************************************************)
\* An intent is admitted under authority that is still in force when it commits:
\* the mode is ACTIVE, the newest promotion is canary_eligible on evidence that
\* passes, and the reviewed market and a recorded quote agree with it.  Halts,
\* revocations and conflicting quotes may come between create_intent's reads.
AdmittedUnderAuthority ==
  [][\A id \in Ids : episodes[id] = "absent" /\ episodes'[id] = "active" =>
       /\ mode = "ACTIVE" /\ Authorized(intents[id])
       /\ Eligible(intents[id].strategy_version) ]_vars

\* The orders two admitted intents may send, operator exits included, never share
\* a client order index, by which venue events are matched to them.
OrdersDisjoint ==
  LET uses(id) == LET i == intents[id] IN {i.client_order_index} \cup UnwindIndexes(i) \cup drawn[id]
  IN  \A a, b \in Admitted : a # b => uses(a) \cap uses(b) = {}

\* Whatever part of an admitted entry fills, the worker can hedge it and the hedge
\* is exact: the share of the stock tokens is a whole number of units, its minimum
\* and its cost are not zero unless a product overflows, and it leaves no share of
\* exposure, whatever the decimals and the multiplier.
EveryFillHedged == \A id \in Admitted : Hedgeable(intents[id]) /\ HedgeExact(intents[id])

-----------------------------------------------------------------------------
(***************************************************************************)
(* Liveness.  The server runs every statement that is not blocked, wakes a *)
(* request whose lock is released, the deadlock detector ends every cycle, *)
(* and workers retry.                                                      *)
(***************************************************************************)
Fairness ==
  /\ \A c \in Client : SF_vars(Request(c)) /\ WF_vars(deadlock_abort(c))
  /\ WF_vars(end_transition) /\ WF_vars(worker.incident /\ begin_transition)

FairSpec == Spec /\ Fairness

\* Every admission request is answered and every incident halts the coordinator:
\* no order of the locks on the control row, the strategy and the active row
\* leaves a transaction waiting for ever.
TransactionsEnd ==
  /\ \A c \in Client : tx[c].pc # "idle" ~> tx[c].pc = "idle"
  /\ worker.incident ~> ~worker.incident
=============================================================================

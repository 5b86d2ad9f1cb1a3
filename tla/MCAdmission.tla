----------------------------- MODULE MCAdmission -----------------------------
(***************************************************************************)
(* Three intents of two strategies for TLC: the second reuses an order     *)
(* index of the first, the third lies in the range of the operator         *)
(* sequence.  Their common amounts range over small markets.               *)
(***************************************************************************)
EXTENDS Admission

Base ==
  [id |-> "a", spot_unwind_intent_id |-> "a'", strategy_version |-> "s1",
   nav_micros |-> 100, leverage_micros |-> 1, perp_limit_price |-> 2, perp_mark_price |-> 2,
   perp_unwind_price |-> 3, client_order_index |-> 0, unwind_client_order_index |-> 1,
   max_unwind_attempts |-> 2, spot_config_version |-> 1, minimum_unwind_settlement_out |-> 1,
   quote_block_hash |-> "block", quote_received_at_ms |-> 1, created_at_ms |-> 1,
   deadline_ms |-> 2, quote_expires_at_ms |-> 3, perp_order_expiry_ms |-> 3,
   emergency_deadline_ms |-> 4, reconciliation_deadline_ms |-> 5]

Proposal ==
  {Base,
   [Base EXCEPT !.id = "b", !.spot_unwind_intent_id = "b'", !.strategy_version = "s2",
                !.client_order_index = 2, !.unwind_client_order_index = 3],
   [Base EXCEPT !.id = "c", !.spot_unwind_intent_id = "c'", !.strategy_version = "s2",
                !.client_order_index = 5, !.unwind_client_order_index = 6]}

MCQuote ==
  LET q == [event_id |-> 1, quote_block_hash |-> "block", received_at_ms |-> 1,
            expires_at_ms |-> 3, mark_price |-> 2]
  IN  {q, [q EXCEPT !.mark_price = 3], [q EXCEPT !.event_id = 2]}

\* A reviewed market is named by its multiplier and decimals.
Market == {1, 2, 3, 4} \X (0..1) \X (0..1)

MCConfig ==
  [m \in Market |->
     [valid_from |-> 0, valid_until |-> 9, spot_config_version |-> 1, ui_multiplier_e18 |-> m[1],
      spot_decimals |-> m[2], perp_base_decimals |-> m[3], perp_price_decimals |-> 0,
      max_price_deviation_bps |-> 1, max_unwind_price_deviation_bps |-> 2,
      max_spot_slippage_bps |-> 3]]

Sized(m, base, raw, minimum) ==
  LET price == [perp_base_decimals |-> m[3], perp_price_decimals |-> 0]
      usd   == perp_notional_for_fill(price, base, 2)
  IN  [market_manifest |-> m, ui_multiplier_e18 |-> m[1], spot_decimals |-> m[2],
       perp_base_decimals |-> m[3], perp_price_decimals |-> 0, perp_base_amount |-> base,
       raw_spot_amount |-> raw, minimum_spot_amount_out |-> minimum,
       spot_notional_micros |-> usd, perp_notional_micros |-> usd, settlement_amount_in |-> usd]

\* The proposals by id, with the given market and amounts.
Intents(a) ==
  [id \in {p.id : p \in Proposal} |->
     LET p == CHOOSE q \in Proposal : q.id = id
     IN  [f \in DOMAIN p \cup DOMAIN a |-> IF f \in DOMAIN p THEN p[f] ELSE a[f]]]

\* The amounts validate accepts; a request with any other is refused unread.
Accepted ==
  {a \in {Sized(m, base, raw, minimum) : m \in Market, base \in 1..3, raw \in 1..6, minimum \in 1..6} :
     validate(Intents(a)["a"])}

\* Requests race with one of them; with the others there is one request.
Contended == Sized(<<2, 0, 0>>, 2, 2, 2)

MCScenario ==
  {[intents |-> Intents(a), requests |-> IF a = Contended THEN 3 ELSE 1,
    transitions |-> IF a = Contended THEN 2 ELSE 0,
    draws |-> IF a = Contended THEN 1 ELSE 0] : a \in Accepted}

MCPromoted ==
  [s \in {"s1", "s2"} |-> [state |-> IF s = "s1" THEN "canary_eligible" ELSE "audit_ready",
                           passes |-> TRUE]]
=============================================================================

----------------------------- MODULE PairIntent -----------------------------
(***************************************************************************)
(* The paired intent (execution/src/intent.rs): what validate admits, and  *)
(* the amounts the coordinator derives from an intent once its entry order *)
(* has filled, perhaps in part.  Pure operators on an intent record.       *)
(*                                                                         *)
(* Integers keep their widths: every checked operation fails above         *)
(* MaxU128, every stored counter above MaxU64.  Left out are the form of   *)
(* hashes, addresses and names, the ranges of the market index and of the  *)
(* decimals, and the two side fields, which have one legal value each.     *)
(***************************************************************************)
EXTENDS Integers

CONSTANTS
  MaxU128, MaxU64,         \* the largest values of the two widths
  MultiplierScale,         \* multiplier_scale: 10^18
  USD_SCALE,               \* micros in a dollar
  LegCap, GrossCap,        \* CANARY_LEG_CAP_MICROS, CANARY_GROSS_CAP_MICROS
  LegNavDenominator, GrossNavDenominator,
  MaxOrderIndex,           \* MAX_CLIENT_ORDER_INDEX
  MinExpiry, MaxExpiry     \* MIN_ORDER_EXPIRY_MS, MAX_ORDER_EXPIRY_MS

ASSUME PairIntentAssumption ==
  /\ {MaxU128, MaxU64, MultiplierScale, USD_SCALE, LegCap, GrossCap, LegNavDenominator,
      GrossNavDenominator, MaxOrderIndex, MinExpiry, MaxExpiry} \subseteq Nat \ {0}
  /\ MaxU64 <= MaxU128

CeilDiv(a, b) == (a + b - 1) \div b

Multiple(a, b) == a % b = 0

Lesser(a, b) == IF a < b THEN a ELSE b

-----------------------------------------------------------------------------
(***************************************************************************)
(* validate                                                                *)
(***************************************************************************)
\* perp_notional_for_fill: the notional in micros, rounded up; -1 for None.
perp_notional_for_fill(i, base, price) ==
  LET numerator   == base * price * USD_SCALE
      denominator == 10^(i.perp_base_decimals + i.perp_price_decimals)
  IN  IF \/ base = 0 \/ price = 0 \/ numerator + denominator - 1 > MaxU128
         \/ CeilDiv(numerator, denominator) > MaxU64
      THEN -1 ELSE CeilDiv(numerator, denominator)

derived_perp_notional_micros(i) ==
  perp_notional_for_fill(i, i.perp_base_amount,
    IF i.perp_limit_price > i.perp_mark_price THEN i.perp_limit_price ELSE i.perp_mark_price)

PositiveLegs(i) ==
  0 \notin {i.perp_notional_micros, i.raw_spot_amount, i.settlement_amount_in,
            i.minimum_spot_amount_out, i.minimum_unwind_settlement_out, i.perp_base_amount}

WithinCaps(i) ==
  /\ i.spot_notional_micros <= Lesser(LegCap, i.nav_micros \div LegNavDenominator)
  /\ i.spot_notional_micros + i.perp_notional_micros
       <= Lesser(GrossCap, i.nav_micros \div GrossNavDenominator)
  /\ i.leverage_micros \in 1..USD_SCALE

Current(i) ==
  /\ i.created_at_ms < i.deadline_ms
  /\ i.quote_received_at_ms <= i.created_at_ms /\ i.deadline_ms <= i.quote_expires_at_ms
  /\ i.perp_order_expiry_ms - i.created_at_ms \in MinExpiry..MaxExpiry
  /\ i.deadline_ms <= i.perp_order_expiry_ms
  /\ i.perp_order_expiry_ms < i.emergency_deadline_ms
  /\ i.emergency_deadline_ms < i.reconciliation_deadline_ms
  /\ i.reconciliation_deadline_ms - i.created_at_ms <= MaxExpiry

UnwindIndexes(i) ==
  i.unwind_client_order_index..(i.unwind_client_order_index + i.max_unwind_attempts - 1)

ValidIndexes(i) ==
  /\ i.max_unwind_attempts \in 1..8
  /\ {i.client_order_index} \cup UnwindIndexes(i) \subseteq 0..MaxOrderIndex
  /\ i.client_order_index \notin UnwindIndexes(i)

\* scale_units: exact or -1 for None.
scale_units(value, from, to) ==
  CASE from = to -> value
    [] from < to -> IF value * 10^(to - from) > MaxU128 THEN -1 ELSE value * 10^(to - from)
    [] from > to -> IF Multiple(value, 10^(from - to)) THEN value \div 10^(from - to) ELSE -1

\* Mutant of ExposureMatches: no floor under the minimum.
ExposureUnfloored(i) ==
  /\ Multiple(i.raw_spot_amount, i.perp_base_amount)
  /\ i.raw_spot_amount * i.ui_multiplier_e18 <= MaxU128
  /\ Multiple(i.raw_spot_amount * i.ui_multiplier_e18, MultiplierScale)
  /\ scale_units((i.raw_spot_amount * i.ui_multiplier_e18) \div MultiplierScale,
                 i.spot_decimals, i.perp_base_decimals) = i.perp_base_amount

\* The stock tokens are worth exactly the shares of the perp leg, and so is the
\* part of them that belongs to any one unit of it.
ExposureMatches(i) ==
  LET adjusted == i.raw_spot_amount * i.ui_multiplier_e18
  IN  /\ Multiple(i.raw_spot_amount, i.perp_base_amount)
      /\ i.minimum_spot_amount_out >= i.perp_base_amount
      /\ adjusted <= MaxU128 /\ Multiple(adjusted, MultiplierScale)
      /\ scale_units(adjusted \div MultiplierScale, i.spot_decimals, i.perp_base_decimals)
           = i.perp_base_amount

validate(i) ==
  /\ i.spot_unwind_intent_id # i.id
  /\ PositiveLegs(i)
  /\ derived_perp_notional_micros(i) = i.perp_notional_micros
  /\ i.spot_notional_micros = i.perp_notional_micros
  /\ WithinCaps(i)
  /\ i.ui_multiplier_e18 # 0
  /\ i.settlement_amount_in = i.spot_notional_micros
  /\ i.minimum_spot_amount_out <= i.raw_spot_amount
  /\ i.minimum_unwind_settlement_out <= i.settlement_amount_in
  /\ 0 \notin {i.spot_config_version, i.perp_mark_price, i.perp_limit_price, i.perp_unwind_price}
  /\ ValidIndexes(i) /\ Current(i) /\ ExposureMatches(i)

-----------------------------------------------------------------------------
(***************************************************************************)
(* The hedge of a fill                                                     *)
(***************************************************************************)
NoAmounts == [target |-> 0, settlement |-> 0, minimum |-> 0]

\* spot_amounts_for_fill; NoAmounts for None.
spot_amounts_for_fill(i, filled) ==
  LET base    == i.perp_base_amount
      amounts == [target |-> (i.raw_spot_amount * filled) \div base,
                  settlement |-> CeilDiv(i.settlement_amount_in * filled, base),
                  minimum |-> (i.minimum_spot_amount_out * filled) \div base]
  IN  IF /\ filled \in 1..base
         /\ i.raw_spot_amount * filled <= MaxU128 /\ Multiple(i.raw_spot_amount * filled, base)
         /\ i.settlement_amount_in * filled + base - 1 <= MaxU128
         /\ i.minimum_spot_amount_out * filled <= MaxU128
         /\ 0 \notin {amounts.target, amounts.settlement, amounts.minimum}
      THEN amounts ELSE NoAmounts

\* The products of a fill that spot_amounts_for_fill cannot represent.
Overflows(i, filled) ==
  \/ i.raw_spot_amount * filled > MaxU128
  \/ i.settlement_amount_in * filled + i.perp_base_amount - 1 > MaxU128

\* Every fill of the entry order can be hedged, as far as the products fit.
Hedgeable(i) ==
  \A filled \in 1..i.perp_base_amount :
    ~Overflows(i, filled) => spot_amounts_for_fill(i, filled) # NoAmounts

\* The hedge of a fill is worth exactly the shares that were filled, asks for no
\* more than it is worth, and spends no more than the whole entry would.
HedgeExact(i) ==
  \A filled \in 1..i.perp_base_amount :
    LET hedge == spot_amounts_for_fill(i, filled)
    IN  hedge # NoAmounts =>
          /\ hedge.target * i.ui_multiplier_e18 * 10^i.perp_base_decimals
               = filled * MultiplierScale * 10^i.spot_decimals
          /\ hedge.minimum <= hedge.target
          /\ hedge.settlement <= i.settlement_amount_in
=============================================================================

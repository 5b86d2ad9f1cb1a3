---------------------------- MODULE StrategyVault ----------------------------
(***************************************************************************)
(* The on-chain spot leg: RwaStrategyVault, the MandateRiskManagerV1 that   *)
(* authorises and books every execution, the UniswapV4SpotAdapter that      *)
(* swaps.  Every external call is one transaction, hence one action: a call that reverts is a call whose guard *)
(* is false.  The pending execution of the risk manager lives only inside   *)
(* executeSpot and is not a variable.                                       *)
(*                                                                          *)
(* Prices, amounts and the clock are small numbers.  A transaction reads    *)
(* the sequencer and the oracles as they are at that moment, and they may   *)
(* change between any two transactions, so what it reads is a parameter:    *)
(* feed[t] is the price of t, or Unreadable when _readMarket reverts (pause *)
(* flag, corporate action, round, heartbeat).  A transaction for which      *)
(* _checkSequencer reverts is not a step.                                   *)
(***************************************************************************)
EXTENDS Integers, FiniteSets, Sequences, FiniteSetsExt

CONSTANTS
    Token,           \* stock tokens
    Id,              \* intent identifiers
    Amount,          \* amounts an intent or a swap may carry, a set of positive numbers
    Price,           \* oracle answers
    TokenUnit,       \* 10 ** tokenDecimals, with the feed in settlement decimals
    SlippageBps,     \* maxSlippageBps of every market
    Bps,             \* basis points in one
    Settings,        \* market settings per version: <<setting, ...>>, see Setting
    Limits,          \* what setLimits may set: records [gross, active, turnover, window]
    OrderLimit,      \* maxOrderNotional of every market
    InventoryLimit,  \* maxInventory of every market
    Funding,         \* the amount one deposit brings
    MaxFunding,      \* bound on the settlement balance
    MaxNow           \* bound on the clock

(* What one setMarket call stores beside the version.                       *)
Setting == [entry : BOOLEAN, exit : BOOLEAN]

ASSUME VaultAssumption ==
    /\ Amount \subseteq Nat \ {0} /\ Price \subseteq Nat \ {0}
    /\ TokenUnit \in Nat \ {0} /\ Bps \in Nat \ {0} /\ SlippageBps \in 0 .. Bps
    /\ Settings \in Seq(Setting)
    /\ Limits # {}
    /\ LET Positive == Nat \ {0}
       IN  Limits \subseteq [gross : Positive, active : Positive, turnover : Positive, window : Positive]
    /\ OrderLimit \in Nat \ {0} /\ InventoryLimit \in Nat \ {0}
    /\ Funding \in Nat \ {0} /\ MaxFunding \in Nat /\ MaxNow \in Nat

VARIABLES
    mode, limits,            \* MandateRiskManagerV1: mode and limits,
    markets,                 \*   market configuration,
    inventory, inventoryCost,\*   the books,
    activeMarkets,           \*   the list of markets with inventory,
    activeMarketIndexPlusOne,\*   and the position of each in it,
    usedIntent, turnoverWindowStart, windowTurnover,
    routes,                  \* UniswapV4SpotAdapter
    agent, recoveryFinalized,\* RwaStrategyVault
    cash, held,              \* balances of the vault: settlement asset, stock tokens
    now,                     \* block.timestamp
    bought                   \* history: notional of the entries at each time

configuration == <<mode, limits, markets, routes>>
books == <<inventory, inventoryCost, activeMarkets, activeMarketIndexPlusOne>>
turnover == <<usedIntent, turnoverWindowStart, windowTurnover, bought>>
custody == <<agent, recoveryFinalized, cash, held>>
vars == <<configuration, books, turnover, custody, now>>

Unset == [version |-> 0, entry |-> FALSE, exit |-> FALSE]

(* RwaDeploymentFactory leaves the system bound, halted, unfunded and       *)
(* without market; the first agent is optional.                             *)
Init ==
    /\ mode = "Halted" /\ limits \in Limits
    /\ markets = [t \in Token |-> Unset] /\ routes = [t \in Token |-> Unset]
    /\ inventory = [t \in Token |-> 0] /\ inventoryCost = [t \in Token |-> 0]
    /\ activeMarkets = <<>> /\ activeMarketIndexPlusOne = [t \in Token |-> 0]
    /\ usedIntent = {} /\ turnoverWindowStart = 0 /\ windowTurnover = 0 /\ bought = [i \in 1 .. MaxNow |-> 0]
    /\ agent \in BOOLEAN /\ recoveryFinalized = FALSE
    /\ cash = 0 /\ held = [t \in Token |-> 0]
    /\ now = 1

----------------------------------------------------------------------------
(* Reading the market. *)

Unreadable == 0

Feed == [Token -> Price \cup {Unreadable}]

(* Math.mulDiv(amount, price, 10 ** tokenDecimals): truncates.              *)
tokenNotional(price, amount) == (amount * price) \div TokenUnit

mulDivCeil(a, b, c) == (a * b + c - 1) \div c

Listed == {activeMarkets[i] : i \in DOMAIN activeMarkets}

(* Every active market is read, so one unreadable market reverts the sum.   *)
Markable(feed) == \A t \in Listed : feed[t] # Unreadable

currentGross(feed) == MapThenSumSet(LAMBDA m : tokenNotional(feed[m], inventory[m]), Listed)

(* The override of _currentGrossNotional: t is valued at the given          *)
(* inventory whether or not it is in the list yet.                          *)
grossWith(feed, t, amount) ==
    MapThenSumSet(LAMBDA m : tokenNotional(feed[m], inventory[m]), Listed \ {t})
        + tokenNotional(feed[t], amount)

----------------------------------------------------------------------------
(* Authorising and settling one execution. *)

Enabled(setting, side) == IF side = "BuySpot" THEN setting.entry ELSE setting.exit

minimumOutput(intent, feed) ==
    LET retained == Bps - SlippageBps
    IN  IF intent.side = "BuySpot"
        THEN mulDivCeil(intent.amountIn, retained, Bps)
               <= tokenNotional(feed[intent.stockToken], intent.minAmountOut)
        ELSE mulDivCeil(tokenNotional(feed[intent.stockToken], intent.amountIn), retained, Bps)
               <= intent.minAmountOut

WindowOver == now >= turnoverWindowStart + limits.window

nextTurnover(notional) == notional + IF WindowOver THEN 0 ELSE windowTurnover

entryAllowed(intent, feed) ==
    LET t == intent.stockToken IN
    /\ inventory[t] # 0 \/ Len(activeMarkets) < limits.active
    /\ Markable(feed)
    /\ currentGross(feed) + intent.amountIn <= limits.gross
    /\ nextTurnover(intent.amountIn) <= limits.turnover
    /\ intent.amountIn <= OrderLimit


(* A sale is bounded by what is held and by the order limit; it reads only  *)
(* its own market and takes no part in turnover, gross or market counts.    *)
exitAllowed(intent, feed) ==
    /\ intent.amountIn <= inventory[intent.stockToken]
    /\ tokenNotional(feed[intent.stockToken], intent.amountIn) <= OrderLimit

authorized(intent, feed) ==
    LET t == intent.stockToken IN
    /\ mode # "Halted"
    /\ intent.side = "BuySpot" => mode = "Active"
    /\ intent.id \notin usedIntent
    /\ Enabled(markets[t], intent.side) /\ intent.configVersion = markets[t].version
    /\ feed[t] # Unreadable
    /\ IF intent.side = "BuySpot" THEN entryAllowed(intent, feed) ELSE exitAllowed(intent, feed)
    /\ minimumOutput(intent, feed)

(* Mutant of routed: the adapter does not compare versions.                 *)
AnyVersion(intent) == Enabled(routes[intent.stockToken], intent.side)

(* The adapter checks its own route before it swaps.                        *)
routed(intent) ==
    /\ Enabled(routes[intent.stockToken], intent.side)
    /\ intent.configVersion = routes[intent.stockToken].version

(* Mutant of consumeTurnover: a window that is over is not restarted.       *)
SameWindowStart(notional) ==
    /\ turnoverWindowStart' = turnoverWindowStart
    /\ windowTurnover' = nextTurnover(notional)
    /\ bought' = [bought EXCEPT ![now] = @ + notional]

consumeTurnover(notional) ==
    /\ turnoverWindowStart' = IF WindowOver THEN now ELSE turnoverWindowStart
    /\ windowTurnover' = nextTurnover(notional)
    /\ bought' = [bought EXCEPT ![now] = @ + notional]

addActiveMarket(t) ==
    IF activeMarketIndexPlusOne[t] # 0
    THEN UNCHANGED <<activeMarkets, activeMarketIndexPlusOne>>
    ELSE /\ Len(activeMarkets) + 1 <= limits.active
         /\ activeMarkets' = Append(activeMarkets, t)
         /\ activeMarketIndexPlusOne' =
                [activeMarketIndexPlusOne EXCEPT ![t] = Len(activeMarkets) + 1]

(* Mutant of removeActiveMarket: the index of the moved market is kept.     *)
StaleIndex(t) ==
    LET at == activeMarketIndexPlusOne[t]
        last == activeMarkets[Len(activeMarkets)]
    IN  /\ activeMarkets' = SubSeq([activeMarkets EXCEPT ![at] = last], 1, Len(activeMarkets) - 1)
        /\ activeMarketIndexPlusOne' = [activeMarketIndexPlusOne EXCEPT ![t] = 0]

(* The last market moves into the freed position and the list is popped.    *)
removeActiveMarket(t) ==
    LET at == activeMarketIndexPlusOne[t]
        last == activeMarkets[Len(activeMarkets)]
    IN  IF at = 0
        THEN UNCHANGED <<activeMarkets, activeMarketIndexPlusOne>>
        ELSE /\ activeMarkets' = SubSeq([activeMarkets EXCEPT ![at] = last], 1, Len(activeMarkets) - 1)
             /\ activeMarketIndexPlusOne' = [activeMarketIndexPlusOne EXCEPT ![last] = at, ![t] = 0]

costRemoved(t, amount) ==
    IF amount = inventory[t] THEN inventoryCost[t]
    ELSE (inventoryCost[t] * amount) \div inventory[t]

settleBuy(feed, t, actualIn, actualOut) ==
    LET nextInventory == inventory[t] + actualOut
    IN  /\ nextInventory <= InventoryLimit
        /\ grossWith(feed, t, nextInventory) <= limits.gross
        /\ IF inventory[t] = 0 THEN addActiveMarket(t)
           ELSE UNCHANGED <<activeMarkets, activeMarketIndexPlusOne>>
        /\ inventory' = [inventory EXCEPT ![t] = nextInventory]
        /\ inventoryCost' = [inventoryCost EXCEPT ![t] = @ + actualIn]

settleSell(t, actualIn) ==
    /\ inventory' = [inventory EXCEPT ![t] = @ - actualIn]
    /\ inventoryCost' = [inventoryCost EXCEPT ![t] = @ - costRemoved(t, actualIn)]
    /\ IF actualIn = inventory[t] THEN removeActiveMarket(t)
       ELSE UNCHANGED <<activeMarkets, activeMarketIndexPlusOne>>

(* One executeSpot transaction: authorize, swap, measure the balances,      *)
(* settle.  The pool gives any amount from the minimum upwards.             *)
executeSpot(intent, feed) ==
    LET t == intent.stockToken IN
    /\ agent /\ ~recoveryFinalized
    /\ authorized(intent, feed) /\ routed(intent)
    /\ usedIntent' = usedIntent \cup {intent.id}
    /\ \E amountOut \in {n \in Amount : n >= intent.minAmountOut} :
       \/ /\ intent.side = "BuySpot"
          /\ cash >= intent.amountIn
          /\ consumeTurnover(intent.amountIn)
          /\ settleBuy(feed, t, intent.amountIn, amountOut)
          /\ cash' = cash - intent.amountIn
          /\ held' = [held EXCEPT ![t] = @ + amountOut]
       \/ /\ intent.side = "SellSpot"
          /\ held[t] >= intent.amountIn
          /\ settleSell(t, intent.amountIn)
          /\ cash' = cash + amountOut
          /\ held' = [held EXCEPT ![t] = @ - intent.amountIn]
          /\ UNCHANGED <<turnoverWindowStart, windowTurnover, bought>>
    /\ UNCHANGED <<configuration, now, agent, recoveryFinalized>>

----------------------------------------------------------------------------
(* Governance: configAdmin, guardian and treasury. *)

setMode(m) ==
    /\ mode' = m
    /\ UNCHANGED <<limits, markets, routes, books, turnover, custody, now>>

Severity == [Active |-> 0, ReduceOnly |-> 1, Halted |-> 2]

restrictMode(m) ==
    /\ m # "Active" /\ Severity[m] >= Severity[mode]
    /\ mode' = m
    /\ UNCHANGED <<limits, markets, routes, books, turnover, custody, now>>

setLimits(l) ==
    /\ l.active >= Len(activeMarkets)
    /\ limits' = l
    /\ UNCHANGED <<mode, markets, routes, books, turnover, custody, now>>

(* The version only grows; each contract has its own and its own call.      *)
Versioned(t, version) == [version |-> version, entry |-> Settings[version].entry,
                          exit |-> Settings[version].exit]

setMarket(t, version) ==
    /\ version > markets[t].version
    /\ markets' = [markets EXCEPT ![t] = Versioned(t, version)]
    /\ UNCHANGED <<mode, limits, routes, books, turnover, custody, now>>

setRoute(t, version) ==
    /\ version > routes[t].version
    /\ routes' = [routes EXCEPT ![t] = Versioned(t, version)]
    /\ UNCHANGED <<mode, limits, markets, books, turnover, custody, now>>

setAgent ==
    /\ ~recoveryFinalized
    /\ agent' = TRUE
    /\ UNCHANGED <<configuration, books, turnover, recoveryFinalized, cash, held, now>>

revokeAgent ==
    /\ agent' = FALSE
    /\ UNCHANGED <<configuration, books, turnover, recoveryFinalized, cash, held, now>>

deposit ==
    /\ ~recoveryFinalized
    /\ cash + Funding <= MaxFunding
    /\ cash' = cash + Funding
    /\ UNCHANGED <<configuration, books, turnover, agent, recoveryFinalized, held, now>>

finalizeRecovery ==
    /\ mode = "Halted" /\ ~recoveryFinalized
    /\ recoveryFinalized' = TRUE /\ agent' = FALSE
    /\ UNCHANGED <<configuration, books, turnover, cash, held, now>>

(* Mutant of recoverStock: a halt is enough to take stock out.              *)
RecoverWhenHalted(t) ==
    /\ mode = "Halted"
    /\ \E amount \in 1 .. held[t] : held' = [held EXCEPT ![t] = @ - amount]
    /\ UNCHANGED <<configuration, books, turnover, agent, recoveryFinalized, cash, now>>

recoverStock(t) ==
    /\ mode = "Halted" /\ recoveryFinalized
    /\ \E amount \in 1 .. held[t] : held' = [held EXCEPT ![t] = @ - amount]
    /\ UNCHANGED <<configuration, books, turnover, agent, recoveryFinalized, cash, now>>

recoverSettlement ==
    /\ mode = "Halted" /\ recoveryFinalized
    /\ \E amount \in 1 .. cash : cash' = cash - amount
    /\ UNCHANGED <<configuration, books, turnover, agent, recoveryFinalized, held, now>>

----------------------------------------------------------------------------
(* Time and the specification. *)

Block ==
    /\ now < MaxNow
    /\ now' = now + 1
    /\ UNCHANGED <<configuration, books, turnover, custody>>

Execute ==
    \E id \in Id, t \in Token, side \in {"BuySpot", "SellSpot"},
       amountIn \in Amount, minAmountOut \in Amount,
       version \in DOMAIN Settings, feed \in Feed :
        executeSpot([id |-> id, stockToken |-> t, side |-> side, amountIn |-> amountIn,
                     minAmountOut |-> minAmountOut, configVersion |-> version], feed)

Govern ==
    \/ \E m \in {"Active", "ReduceOnly", "Halted"} : setMode(m) \/ restrictMode(m)
    \/ \E l \in Limits : setLimits(l)
    \/ \E t \in Token, v \in DOMAIN Settings : setMarket(t, v) \/ setRoute(t, v)
    \/ setAgent \/ revokeAgent \/ deposit \/ finalizeRecovery
    \/ recoverSettlement \/ \E t \in Token : recoverStock(t)

Next == Execute \/ Govern \/ Block

Spec == Init /\ [][Next]_vars

----------------------------------------------------------------------------
MaxTurnover == Max({l.turnover : l \in Limits})
MinWindow == Min({l.window : l \in Limits})

(* The type of every variable, with the turnover of a window inside its     *)
(* limit.                                                                   *)
TypeOK ==
    /\ mode \in DOMAIN Severity /\ limits \in Limits
    /\ markets \in [Token -> [version : 0 .. Len(Settings), entry : BOOLEAN, exit : BOOLEAN]]
    /\ routes \in [Token -> [version : 0 .. Len(Settings), entry : BOOLEAN, exit : BOOLEAN]]
    /\ inventory \in [Token -> 0 .. InventoryLimit] /\ inventoryCost \in [Token -> Nat]
    /\ activeMarkets \in Seq(Token) /\ activeMarketIndexPlusOne \in [Token -> Nat]
    /\ usedIntent \subseteq Id /\ turnoverWindowStart \in 0 .. now
    /\ windowTurnover \in 0 .. MaxTurnover /\ bought \in [1 .. MaxNow -> Nat]
    /\ agent \in BOOLEAN /\ recoveryFinalized \in BOOLEAN
    /\ cash \in Nat /\ held \in [Token -> Nat]
    /\ now \in 1 .. MaxNow

(* The list of active markets and the index beside it always describe the   *)
(* same thing: exactly the tokens with inventory, each once, each at the    *)
(* position its index names.  _removeActiveMarket moves the last market     *)
(* into the hole, so the two can drift apart after an interleaving of       *)
(* entries and exits on different markets.  Nor is the list ever longer     *)
(* than the limit in force, however setLimits calls fall between entries.   *)
ActiveListExact ==
    /\ Len(activeMarkets) <= limits.active
    /\ \A t \in Token : inventory[t] > 0 <=> activeMarketIndexPlusOne[t] # 0
    /\ \A i \in DOMAIN activeMarkets : activeMarketIndexPlusOne[activeMarkets[i]] = i
    /\ \A t \in Token : activeMarketIndexPlusOne[t] # 0 =>
           /\ activeMarketIndexPlusOne[t] \in DOMAIN activeMarkets
           /\ activeMarkets[activeMarketIndexPlusOne[t]] = t

(* Until the treasury finalises recovery, every unit the risk manager has   *)
(* on its books is really in the vault.                                     *)
BooksCovered == ~recoveryFinalized => \A t \in Token : inventory[t] <= held[t]

(* The turnover window is fixed, not sliding, so an interval as long as the *)
(* shortest window may see the tail of one window and the head of the next, *)
(* but never more: whatever setLimits calls intervene, its entries add up   *)
(* to at most twice the largest limit.                                      *)
RollingTurnover ==
    \A from \in 1 .. now :
        MapThenSumSet(LAMBDA i : bought[i], {i \in 1 .. now : i \in from .. from + MinWindow - 1})
            <= 2 * MaxTurnover


(* The books change only while the limits of the risk manager and the route *)
(* of the adapter carry the same version: an update of the two contracts,   *)
(* which takes two transactions, is never executed against half-way.        *)
RouteMatchesLimits ==
    [][\A t \in Token : inventory'[t] # inventory[t] => markets[t].version = routes[t].version]_vars
=============================================================================

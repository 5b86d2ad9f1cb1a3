----------------------------- MODULE ProductApp -----------------------------
(***************************************************************************)
(* The product application around the personal vaults: the onboarding page *)
(* of the browser (web), the prepare and confirm handlers with the product *)
(* store, and the activity indexer (app).                                  *)
(*                                                                         *)
(* Tabs of one browser share the saved call id.  A handler reads, verifies *)
(* on chain and writes in separate steps.  The indexer reads its cursor,   *)
(* the tip, the list of contracts and the logs of each in separate steps.  *)
(* Wallet links, preferences and the faucet's balance are left out; what   *)
(* stands for the wallet service (bundler, sponsor) is external.           *)
(***************************************************************************)
EXTENDS PersonalVault

CONSTANTS
  Tab,             \* pages that may be open
  UserOf,          \* [Tab -> User]
  BlockRange,      \* PRODUCT_INDEXER_BLOCK_RANGE
  Lookback,        \* PRODUCT_INDEXER_LOOKBACK_BLOCKS
  Scenarios        \* the budgets a behaviour may start with

ASSUME ProductAppAssumption ==
  UserOf \in [Tab -> User] /\ BlockRange \in Nat \ {0} /\ Lookback \in Nat

VARIABLES
  tab,             \* the pages: phase, call id, and whether activate is running
  saved,           \* localStorage: the pending call id, by user
  calls,           \* what wallet_sendCalls took: [user, claims, failed]
  onboarding,      \* users.onboarding_state; smart_accounts has a row unless "account"
  vaults,          \* the call id of a user's row of vaults, or 0
  activity,        \* rows of activity: [tx, index, user]
  cursor,          \* app_cursors, or NoCursor
  indexer,         \* the sync in progress
  since,           \* history: the last block read without the user's contracts
  floor            \* history: the first block ever read

NoCursor == -1

page == <<tab, saved, calls>>
store == <<onboarding, vaults, activity, since>>
indexing == <<cursor, indexer, floor>>
vars == <<chain, settled, budget, tab, saved, calls, onboarding, vaults, activity, cursor,
          indexer, since, floor>>

Spend(what) == budget[what] > 0 /\ budget' = [budget EXCEPT ![what] = @ - 1]

\* The block that holds a call, 0 when there is none.
Receipt(c) ==
  IF \E k \in DOMAIN chain : chain[k].tx = <<"call", c>>
  THEN CHOOSE k \in DOMAIN chain : chain[k].tx = <<"call", c>> ELSE 0

Failed(c) == c # 0 /\ calls[c].failed

-----------------------------------------------------------------------------
(***************************************************************************)
(* The onboarding page                                                     *)
(***************************************************************************)
Closed == [phase |-> "closed", call |-> 0, activating |-> FALSE]

At(t, phase) == tab[t].phase = phase

Phase(t, phase) == tab' = [tab EXCEPT ![t].phase = phase]

Confirming(t, c, activating) ==
  tab' = [tab EXCEPT ![t] = [phase |-> "confirming", call |-> c, activating |-> activating]]

\* sync_identity: complete stays, otherwise the state says whether Privy knows a
\* way to recover the account.
Synced(u) ==
  \E has_recovery \in BOOLEAN :
    onboarding' = [onboarding EXCEPT ![u] =
      IF @ = "complete" THEN @ ELSE IF has_recovery THEN "vault" ELSE "recovery"]

\* The page loads, or an idle one syncs again: syncWallets, then it is complete,
\* resumes the saved call or waits for the user.
load(t) ==
  LET u == UserOf[t]
  IN  /\ tab[t].phase \in {"closed", "idle"} /\ t \in budget.tabs
      /\ Synced(u)
      /\ IF vaults[u] # 0 THEN Phase(t, "complete")
         ELSE IF saved[u] # 0 THEN Confirming(t, saved[u], FALSE) ELSE Phase(t, "idle")
      /\ UNCHANGED <<chain, settled, budget, saved, calls, vaults, activity, since, indexing>>

\* A page is closed or reloaded; a request it waits for is dropped.
close(t) ==
  /\ ~At(t, "closed") /\ Spend("closes")
  /\ tab' = [tab EXCEPT ![t] = Closed]
  /\ UNCHANGED <<chain, settled, saved, calls, store, indexing>>

\* The request of activate or of a retry fails.
Fails(t) ==
  tab' = [tab EXCEPT ![t].phase =
            IF tab[t].activating /\ saved[UserOf[t]] = 0 THEN "idle" ELSE "delayed"]

\* activate, up to the answer of prepare_vault: no vault recorded, recovery known,
\* and vaultOf(owner) zero.  The plan claims from the faucet unless it was claimed.
prepare_vault(t) ==
  LET u == UserOf[t]
      plan == IF Vault(u).claimed THEN "deposit plan" ELSE "claim plan"
  IN  /\ At(t, "idle")
      /\ IF vaults[u] = 0 /\ onboarding[u] = "vault" /\ ~Vault(u).created
         THEN tab' = [tab EXCEPT ![t] = [phase |-> plan, call |-> 0, activating |-> TRUE]]
         ELSE saved[u] # 0 /\ Phase(t, "delayed")
      /\ UNCHANGED <<chain, settled, budget, saved, calls, store, indexing>>

\* executeCalls: sendCalls returns the call id ...
sendCalls(t) ==
  /\ tab[t].phase \in {"claim plan", "deposit plan"} /\ Spend("calls")
  /\ calls' = Append(calls, [user |-> UserOf[t], claims |-> At(t, "claim plan"), failed |-> FALSE])
  /\ tab' = [tab EXCEPT ![t].phase = "sent", ![t].call = Len(calls')]
  /\ UNCHANGED <<chain, settled, saved, store, indexing>>

\* Mutant of onSubmitted: the call id is kept in the page only.
NotSaved(t) ==
  /\ At(t, "sent") /\ Phase(t, "waiting")
  /\ UNCHANGED <<chain, settled, budget, saved, calls, store, indexing>>

\* ... and onSubmitted saves it.
onSubmitted(t) ==
  /\ At(t, "sent") /\ Phase(t, "waiting")
  /\ saved' = [saved EXCEPT ![UserOf[t]] = tab[t].call]
  /\ UNCHANGED <<chain, settled, budget, calls, store, indexing>>

\* waitForCallsStatus answers.
waitForCallsStatus(t) ==
  /\ At(t, "waiting")
  /\ \/ Receipt(tab[t].call) # 0 /\ Phase(t, "confirming")
     \/ Failed(tab[t].call) /\ Fails(t)
  /\ UNCHANGED <<chain, settled, budget, saved, calls, store, indexing>>

retryConfirmation(t) ==
  /\ At(t, "delayed") /\ saved[UserOf[t]] # 0
  /\ Confirming(t, saved[UserOf[t]], FALSE)
  /\ UNCHANGED <<chain, settled, budget, saved, calls, store, indexing>>

-----------------------------------------------------------------------------
(***************************************************************************)
(* confirm_vault                                                           *)
(***************************************************************************)
\* The answer of a confirmation that succeeded reaches the page, which forgets the
\* saved id, or is lost.
Answered(t) ==
  \/ /\ Phase(t, "complete") /\ saved' = [saved EXCEPT ![UserOf[t]] = 0]
     /\ UNCHANGED budget
  \/ Fails(t) /\ Spend("faults") /\ UNCHANGED saved

\* The recorded vault answers a repeated confirmation of the same call.
confirm_vault(t) ==
  LET u == UserOf[t]
  IN  /\ At(t, "confirming")
      /\ \/ vaults[u] = 0 /\ Phase(t, "verify") /\ UNCHANGED <<saved, budget>>
         \/ vaults[u] = tab[t].call /\ Answered(t)
         \/ vaults[u] \notin {0, tab[t].call} /\ Fails(t) /\ UNCHANGED <<saved, budget>>
      /\ UNCHANGED <<chain, settled, calls, store, indexing>>

\* verify_vault_creation: the receipt of the call holds the factory's log for the
\* owner, and the vault's getters agree with it.
verify_vault_creation(t) ==
  /\ At(t, "verify")
  /\ IF Receipt(tab[t].call) # 0 THEN Phase(t, "record") ELSE Fails(t)
  /\ UNCHANGED <<chain, settled, budget, saved, calls, store, indexing>>

\* The unique index on the chain, the transaction and the log.
Indexed(tx, index) == \E a \in activity : a.tx = tx /\ a.index = index

\* The last block the indexer has read, or will read with the list it has.
Reading ==
  IF indexer.phase \in {"factory", "contracts"} THEN indexer.target
  ELSE IF cursor = NoCursor THEN 0 ELSE cursor

\* The store's confirm_vault: the row, the state of the user and the activity.
record_vault(t) ==
  LET u  == UserOf[t]
      tx == <<"call", tab[t].call>>
  IN  /\ At(t, "record")
      /\ vaults' = [vaults EXCEPT ![u] = tab[t].call]
      /\ onboarding' = [onboarding EXCEPT ![u] = "complete"]
      /\ activity' = IF Indexed(tx, 1) THEN activity
                     ELSE activity \cup {[tx |-> tx, index |-> 1, user |-> u]}
      /\ since' = [since EXCEPT ![u] = IF vaults[u] = 0 THEN Reading ELSE @]
      /\ Answered(t)
      /\ UNCHANGED <<chain, settled, calls, indexing>>

-----------------------------------------------------------------------------
(***************************************************************************)
(* The wallet service and the chain                                        *)
(***************************************************************************)
\* A batch is all or nothing: claim, approve, createVault and deposit.
Succeeds(c) ==
  LET v == Vault(calls[c].user)
  IN  ~v.created /\ (calls[c].claims => ~v.claimed)

include_call(c) ==
  LET u == calls[c].user
  IN  /\ ~calls[c].failed /\ Receipt(c) = 0 /\ Succeeds(c)
      /\ \E t \in Times :
           Mine(<<"call", c>>, u, Deployed([Vault(u) EXCEPT !.claimed = TRUE], t),
                <<Log(u, "factory"), Log(u, "vault")>>, t)
      /\ UNCHANGED <<budget, page, store, indexing>>

\* A batch reverts, or is given up for another reason.
fail_call(c) ==
  /\ ~calls[c].failed /\ Receipt(c) = 0
  /\ IF Succeeds(c) THEN Spend("faults") ELSE UNCHANGED budget
  /\ calls' = [calls EXCEPT ![c].failed = TRUE]
  /\ UNCHANGED <<chain, settled, tab, saved, store, indexing>>

\* A block of others.
mine_block ==
  /\ Spend("blocks")
  /\ \E u \in User, t \in Times : Mine(Others, u, Vault(u), <<>>, t)
  /\ UNCHANGED <<page, store, indexing>>

\* Blocks that are not settled may be replaced.
reorg ==
  /\ Spend("reorgs")
  /\ \E k \in settled..(Len(chain) - 1) : chain' = SubSeq(chain, 1, k)
  /\ UNCHANGED <<settled, page, store, indexing>>

-----------------------------------------------------------------------------
(***************************************************************************)
(* The activity indexer                                                    *)
(***************************************************************************)
Sleeping == [phase |-> "sleeping", from |-> 0, to |-> 0, target |-> 0, watched |-> {}, left |-> {}]

\* Mutant of Target: unconfirmed blocks are read.
Latest == Len(chain)

Target == Max({Len(chain) - Confirmations, 0})

\* The last block of the range that starts at from.
RangeEnd(from, target) == Min({from + BlockRange - 1, target})

\* Mutant of Due: the last block waits for another one.
DueLate(from) == from < Target

Due(from) == from <= Target

\* sync, where spawn has started the loop: the tip, then the cursor.
sync_begin ==
  LET from == IF cursor = NoCursor THEN Max({Target - Lookback, 0}) ELSE cursor + 1
  IN  /\ budget.indexes /\ indexer.phase = "sleeping" /\ Due(from)
      /\ indexer' = [Sleeping EXCEPT !.phase = "watch", !.from = from, !.target = Target,
                                      !.to = RangeEnd(from, Target)]
      /\ floor' = IF cursor = NoCursor THEN from ELSE floor
      /\ UNCHANGED <<chain, settled, budget, page, store, cursor>>

\* watched_contracts: every recorded vault with its guard and its anchor.
watched_contracts ==
  /\ indexer.phase = "watch"
  /\ indexer' = [indexer EXCEPT !.phase = "factory", !.watched = {u \in User : vaults[u] # 0}]
  /\ UNCHANGED <<chain, settled, budget, page, store, cursor, floor>>

\* What eth_get_logs returns for the contracts of some owners in the range, as the
\* rows that persist inserts.
Rows(contract, owners) ==
  UNION {{[tx |-> chain[k].tx, index |-> i, user |-> chain[k].logs[i].owner] :
            i \in {j \in DOMAIN chain[k].logs :
                     chain[k].logs[j].contract = contract /\ chain[k].logs[j].owner \in owners}} :
          k \in {b \in indexer.from..indexer.to : b \in DOMAIN chain}}

\* ON CONFLICT DO NOTHING.
Persist(rows) == activity' = activity \cup {r \in rows : ~Indexed(r.tx, r.index)}

\* user_for_smart_account: an owner who never synced is passed over.
Known == {u \in User : onboarding[u] # "account"}

index_factory ==
  /\ indexer.phase = "factory" /\ Persist(Rows("factory", Known))
  /\ indexer' = [indexer EXCEPT !.phase = "contracts", !.left = {"vault", "guard", "anchor"}]
  /\ UNCHANGED <<chain, settled, budget, page, onboarding, vaults, since, cursor, floor>>

index_contracts ==
  /\ indexer.phase = "contracts"
  /\ \E c \in indexer.left :
       /\ Persist(Rows(c, indexer.watched))
       /\ indexer' = [indexer EXCEPT !.left = @ \ {c}]
  /\ UNCHANGED <<chain, settled, budget, page, onboarding, vaults, since, cursor, floor>>

\* Mutant of RangeRead: the cursor moves once the vaults' logs are in.
VaultsRead == "vault" \notin indexer.left

RangeRead == indexer.left = {}

set_activity_cursor ==
  /\ indexer.phase = "contracts" /\ RangeRead
  /\ cursor' = indexer.to
  /\ indexer' = IF indexer.to = indexer.target THEN Sleeping
                ELSE [indexer EXCEPT !.phase = "factory", !.left = {}, !.from = indexer.to + 1,
                                      !.to = RangeEnd(indexer.to + 1, indexer.target)]
  /\ UNCHANGED <<chain, settled, budget, page, store, floor>>

\* A read or a write fails, or the process stops, perhaps after some of the rows.
sync_fails ==
  /\ indexer.phase # "sleeping" /\ Spend("faults")
  /\ \E rows \in SUBSET (CASE indexer.phase = "factory" -> Rows("factory", Known)
                           [] indexer.phase = "contracts" ->
                                UNION {Rows(c, indexer.watched) : c \in indexer.left}
                           [] OTHER -> {}) : Persist(rows)
  /\ indexer' = Sleeping
  /\ UNCHANGED <<chain, settled, page, onboarding, vaults, since, cursor, floor>>

-----------------------------------------------------------------------------
\* Some smart accounts may have created their vaults before.
Init ==
  /\ budget \in Scenarios /\ settled = 0
  /\ chain = IF budget.deployed = {} THEN <<>>
             ELSE <<[Genesis EXCEPT !.vaults =
                       [u \in User |-> IF u \in budget.deployed
                                       THEN Deployed(Undeployed, 0) ELSE Undeployed]]>>
  /\ tab = [t \in Tab |-> Closed] /\ saved = [u \in User |-> 0] /\ calls = <<>>
  /\ onboarding = [u \in User |-> "account"] /\ vaults = [u \in User |-> 0]
  /\ activity = {} /\ cursor = NoCursor /\ indexer = Sleeping
  /\ since = [u \in User |-> 0] /\ floor = 0

Confirmation(t) == confirm_vault(t) \/ verify_vault_creation(t) \/ record_vault(t)

Page(t) ==
  \/ load(t) \/ close(t) \/ prepare_vault(t) \/ sendCalls(t) \/ onSubmitted(t)
  \/ waitForCallsStatus(t) \/ retryConfirmation(t) \/ Confirmation(t)

Sync == sync_begin \/ watched_contracts \/ index_factory \/ index_contracts \/ set_activity_cursor

Next ==
  \/ Contracts /\ UNCHANGED <<page, store, indexing>>
  \/ \E t \in Tab : Page(t)
  \/ \E c \in DOMAIN calls : include_call(c) \/ fail_call(c)
  \/ mine_block \/ reorg \/ Sync \/ sync_fails

Spec == Init /\ [][Next]_vars

-----------------------------------------------------------------------------
(***************************************************************************)
(* Properties                                                              *)
(***************************************************************************)
\* The rows of activity a log of block k makes for user u.
Events(u, k) ==
  {[tx |-> chain[k].tx, index |-> i, user |-> u] :
     i \in {j \in DOMAIN chain[k].logs : chain[k].logs[j].owner = u}}

\* Behind the cursor nothing is missing: of a block read after the user's vault was
\* recorded, every log of the vault, the guard and the anchor is in the user's
\* activity, although passes stop anywhere and read the list of contracts once.
NothingMissed ==
  \A u \in User : \A k \in (Max({since[u] + 1, floor, 1}))..cursor :
    vaults[u] # 0 => Events(u, k) \subseteq activity

\* Activity is exact: every row is the log of a settled block and belongs to the
\* owner of the contract, or it is the creation by a call of the user's, which
\* confirm_vault records without waiting for confirmations.
ActivityExact ==
  \A a \in activity :
    \/ \E k \in 1..settled : a \in Events(a.user, k)
    \/ a.index = 1 /\ a.tx[1] = "call" /\ calls[a.tx[2]].user = a.user

-----------------------------------------------------------------------------
(***************************************************************************)
(* Liveness.  The indexer sleeps and starts again for ever, handlers and   *)
(* the wallet service answer, and users come back to the page and retry.   *)
(***************************************************************************)
Fairness ==
  /\ WF_vars(Sync)
  /\ \A t \in Tab :
       /\ WF_vars(load(t)) /\ WF_vars(onSubmitted(t) \/ waitForCallsStatus(t))
       /\ WF_vars(retryConfirmation(t)) /\ WF_vars(Confirmation(t))
  /\ WF_vars(\E c \in DOMAIN calls : include_call(c) \/ fail_call(c))

FairSpec == Spec /\ Fairness

\* The indexer catches up: once the chain of the model stops growing the cursor is
\* at the last confirmed block, whatever failed or stopped before.
IndexerCatchesUp == []<>(budget.indexes => cursor >= Target)

\* Onboarding resumes: of a user who submitted a call, the vault is recorded in the
\* end, from the saved call id, after a reload, a lost answer or a reorganisation,
\* unless the id that is saved is that of a call that failed.
OnboardingResumes ==
  \A t \in Tab :
    At(t, "waiting") ~> vaults[UserOf[t]] # 0 \/ Failed(saved[UserOf[t]])
=============================================================================

---------------------------- MODULE PersonalVault ----------------------------
(***************************************************************************)
(* The personal-vault contracts on the application's chain: the factory,   *)
(* PersonalStrategyVault, its MandateGuard and its AttestationAnchor.      *)
(*                                                                         *)
(* A transaction is one block, and a call that reverts is no step, so each *)
(* action is a call by the one caller its modifier admits.  A block keeps  *)
(* the contracts as it leaves them, so that a reorganisation goes back to  *)
(* them.  Token balances are left out: an amount that cannot be moved is a *)
(* revert.  A log is told by its transaction and its place in it.          *)
(***************************************************************************)
EXTENDS Integers, Sequences, FiniteSetsExt

CONSTANTS
  User,            \* accounts; a user's smart account owns their vault
  DefaultCap, DefaultWindow,
  Mandate,         \* the <<cap, window>> pairs setCap may set
  Notional,        \* the notional of an execution
  Confirmations    \* blocks on top of one that is never reorganised

ASSUME PersonalVaultAssumption ==
  /\ {DefaultCap, DefaultWindow} \subseteq Nat \ {0} /\ Notional \subseteq Nat
  /\ Mandate \subseteq Nat \X (Nat \ {0}) /\ Confirmations \in Nat

VARIABLES
  chain,           \* the canonical blocks
  settled,         \* how many of them have had Confirmations blocks on top
  budget           \* bounds that are left: which calls are made (ops), how many (txs),
                   \* by how much time may move between two (delay), and the users' own

\* The transaction of a block that holds none of ours.
Others == <<"others", 0>>

\* vaultOf, the vault, its guard and its anchor, and the owner's faucet claim.
Undeployed ==
  [created |-> FALSE, claimed |-> FALSE, agent |-> "default", executor |-> "vault",
   cap |-> DefaultCap, window |-> DefaultWindow, halted |-> TRUE, allowed |-> FALSE,
   start |-> 0, spent |-> 0, head |-> 0]

Genesis == [tx |-> Others, time |-> 0, logs |-> <<>>, vaults |-> [u \in User |-> Undeployed]]

Tip == IF chain = <<>> THEN Genesis ELSE chain[Len(chain)]

Vault(u) == Tip.vaults[u]

Log(u, contract) == [owner |-> u, contract |-> contract, checked |-> 0]

\* The timestamps the next block may have.
Times == Tip.time..(Tip.time + budget.delay)

\* A new block with transaction tx, which changes the contracts of u.
Mine(tx, u, vault, logs, t) ==
  /\ chain' = Append(chain, [tx |-> tx, time |-> t, logs |-> logs,
                             vaults |-> [Tip.vaults EXCEPT ![u] = vault]])
  /\ settled' = Max({settled, Len(chain') - Confirmations})

\* One call of an owner, an agent or an executor.
Transact(op, u, vault, logs, t) ==
  /\ Vault(u).created /\ op \in budget.ops /\ budget.txs > 0
  /\ Mine(<<op, budget.txs>>, u, vault, logs, t)
  /\ budget' = [budget EXCEPT !.txs = @ - 1]

-----------------------------------------------------------------------------
(***************************************************************************)
(* MandateGuard                                                            *)
(***************************************************************************)
setExecutor(u, t) ==
  \E e \in {"vault", "other"} :
    Transact("setExecutor", u, [Vault(u) EXCEPT !.executor = e], <<Log(u, "guard")>>, t)

setAllowed(u, t) ==
  \E ok \in BOOLEAN :
    Transact("setAllowed", u, [Vault(u) EXCEPT !.allowed = ok], <<Log(u, "guard")>>, t)

setCap(u, t) ==
  \E m \in Mandate :
    Transact("setCap", u, [Vault(u) EXCEPT !.cap = m[1], !.window = m[2]], <<Log(u, "guard")>>, t)

setHalted(u, t) ==
  \E h \in BOOLEAN :
    Transact("setHalted", u, [Vault(u) EXCEPT !.halted = h], <<Log(u, "guard")>>, t)


\* The window rolls lazily.
Rolled(v, t) ==
  IF t >= v.start + v.window THEN [v EXCEPT !.start = t, !.spent = 0] ELSE v

\* check by the given caller does not revert.
Checks(v, caller, n, t) ==
  /\ caller = v.executor /\ ~v.halted /\ v.allowed
  /\ Rolled(v, t).spent + n <= v.cap

Checked(v, n, t) == [Rolled(v, t) EXCEPT !.spent = @ + n]

CheckedLog(u, n) == [Log(u, "guard") EXCEPT !.checked = n]

\* An executor that is not the vault calls check itself.
check(u, t) ==
  \E n \in Notional :
    /\ Checks(Vault(u), "other", n, t)
    /\ Transact("check", u, Checked(Vault(u), n, t), <<CheckedLog(u, n)>>, t)

-----------------------------------------------------------------------------
(***************************************************************************)
(* PersonalStrategyVault and AttestationAnchor.  The agent that runs is    *)
(* the default one.                                                        *)
(***************************************************************************)
setAgent(u, t) ==
  \E a \in {"default", "other"} :
    Transact("setAgent", u, [Vault(u) EXCEPT !.agent = a], <<Log(u, "vault")>>, t)

deposit(u, t) == Transact("deposit", u, Vault(u), <<Log(u, "vault")>>, t)

withdraw(u, t) == Transact("withdraw", u, Vault(u), <<Log(u, "vault")>>, t)

execute(u, t) ==
  /\ Vault(u).agent = "default"
  /\ \E n \in Notional :
       /\ Checks(Vault(u), "vault", n, t)
       /\ Transact("execute", u, Checked(Vault(u), n, t),
                   <<CheckedLog(u, n), Log(u, "vault")>>, t)

\* anchor takes the next sequence number only.
Anchored(v) == [v EXCEPT !.head = @ + 1]

anchorBatch(u, t) ==
  /\ Vault(u).agent = "default"
  /\ Transact("anchorBatch", u, Anchored(Vault(u)),
              <<Log(u, "anchor"), Log(u, "vault")>>, t)

\* The vault createVault deploys at time t, with its guard halted.
Deployed(v, t) == [v EXCEPT !.created = TRUE, !.start = t]

Contracts ==
  \E u \in User : \E t \in Times :
    \/ setExecutor(u, t) \/ setAllowed(u, t) \/ setCap(u, t) \/ setHalted(u, t) \/ check(u, t)
    \/ setAgent(u, t) \/ deposit(u, t) \/ withdraw(u, t) \/ execute(u, t) \/ anchorBatch(u, t)

-----------------------------------------------------------------------------
=============================================================================

--------------------------- MODULE RobinhoodWriter ---------------------------
(***************************************************************************)
(* The Robinhood Chain writer (signer/robinhood/writer.go and journal.go): *)
(* it signs one transaction per typed spot intent, journals it together    *)
(* with its nonce before it is broadcast, replaces it at a higher fee, and *)
(* follows every candidate to finality.                                    *)
(*                                                                         *)
(* A process holds its mutex over a whole Submit or Reconcile, so it is at *)
(* one place at a time; the journal, the node and other instances move     *)
(* between its steps.  Each request id stands for its body: its intent and *)
(* the request it replaces are constants.  Fees only make the transaction  *)
(* of every row distinct, so the row's request id names the transaction.   *)
(* The chain is the sequence of the signer's own transactions; which rows  *)
(* are due (next_reconcile_at, LIMIT) is a free choice at every pass.      *)
(***************************************************************************)
EXTENDS Naturals, Sequences, FiniteSets

CONSTANTS
  Process,              \* instances of the service
  Request,              \* request ids
  Intent,               \* [Request -> typed intent ids]
  Replaces,             \* [Request -> Request \cup {None}]
  None,
  MaxReplacementCount,  \* config.MaxReplacementCount
  Faults,               \* the kinds of faults that may happen
  MaxFaults             \* bound: how many faults happen, of all kinds together

ASSUME WriterAssumption ==
  /\ None \notin Request
  /\ Replaces \in [Request -> Request \cup {None}]
  /\ \A r \in Request : Replaces[r] # None =>
       Replaces[r] # r /\ Intent[Replaces[r]] = Intent[r]
  /\ Faults \subseteq {"crash", "lost answer", "dropped", "damaged", "reorg"}
  /\ {MaxReplacementCount, MaxFaults} \subseteq Nat

VARIABLES
  rows,        \* robinhood_signer_transactions by request id
  next_nonce,  \* robinhood_signer_nonces.next_nonce
  proc,        \* the processes
  ready,       \* writer.ready of each process
  mempool,     \* transactions the network holds, included or not
  chain,       \* the signer's transactions in canonical order, with their status
  safe,        \* the safe and finalized heads
  final,
  faults       \* how many faults have happened

journal == <<rows, next_nonce>>
network == <<mempool, chain, safe, final>>
vars == <<rows, next_nonce, proc, ready, mempool, chain, safe, final, faults>>

Strikes(kind) == kind \in Faults /\ faults < MaxFaults /\ faults' = faults + 1

-----------------------------------------------------------------------------
Status ==
  {"signed", "submitted", "soft_confirmed", "l1_posted", "ethereum_final",
   "reverted", "ambiguous", "replaced", "superseded", "quarantined"}

\* Mutant of Pending: a replaced candidate is no longer followed.
PendingHeads == {"signed", "submitted", "soft_confirmed", "l1_posted", "ambiguous"}

\* The statuses Journal.Pending selects.
Pending ==
  {"signed", "submitted", "soft_confirmed", "l1_posted", "ambiguous", "replaced"}

Replaceable == {"signed", "submitted", "ambiguous"}

Absent == [status |-> None, nonce |-> 0, depth |-> 0, by |-> None]

Journaled == {r \in Request : rows[r] # Absent}

Root(r) == Replaces[r] = None

Idle ==
  [pc |-> "idle", req |-> None, nonce |-> 0, todo |-> {}, safe |-> 0, final |-> 0,
   block |-> 0, ok |-> FALSE]

At(p, pc) == proc[p].pc = pc

Goto(p, pc) == proc' = [proc EXCEPT ![p].pc = pc]

Return(p) == proc' = [proc EXCEPT ![p] = Idle]

Unready(p) == ready' = [ready EXCEPT ![p] = FALSE]

\* Journal.Ready: a quarantined record keeps the writer from verifying.
JournalReady == \A r \in Request : rows[r].status # "quarantined"

\* The position of a transaction in the canonical chain; 0 when it has none.
Receipt(r) ==
  IF \E k \in DOMAIN chain : chain[k].tx = r
  THEN CHOOSE k \in DOMAIN chain : chain[k].tx = r ELSE 0

\* The nonces a node may report as pending: it counts the transactions it holds.
Observed ==
  {Len(chain) + n : n \in {m \in 0..Cardinality(mempool) :
     \A k \in 1..m : \E r \in mempool : rows[r].nonce = Len(chain) + k - 1}}

Update(r, from, to) ==
  IF rows[r].status \in from THEN [rows EXCEPT ![r].status = to] ELSE rows

-----------------------------------------------------------------------------
(***************************************************************************)
(* Submit                                                                  *)
(***************************************************************************)
\* Existing answers a journaled request at once; a writer that is not ready,
\* does not verify or may not replace the target refuses.
Submit(p, r) ==
  /\ At(p, "idle") /\ ready[p] /\ rows[r] = Absent
  /\ \/ Unready(p) /\ UNCHANGED proc
     \/ /\ JournalReady
        /\ ~Root(r) => /\ rows[Replaces[r]].status \in Replaceable
                       /\ rows[Replaces[r]].depth < MaxReplacementCount
        /\ proc' = [proc EXCEPT ![p].pc = "prepare", ![p].req = r]
        /\ UNCHANGED ready
  /\ UNCHANGED <<journal, network, faults>>

\* BeginNonce holds its row lock until Commit or Rollback.
Locked == \E p \in Process : At(p, "sign") /\ Root(proc[p].req)

\* Mutant of Reserve: the node's count alone decides.
ObservedNonce(observed) == observed

Reserve(observed) == IF next_nonce >= observed THEN next_nonce ELSE observed

BeginNonce(p) ==
  LET r == proc[p].req
  IN  /\ At(p, "prepare")
      /\ \E observed \in Observed :
           proc' = [proc EXCEPT ![p].pc = "sign", ![p].nonce =
             IF Root(r) THEN Reserve(observed) ELSE rows[Replaces[r]].nonce]
      /\ Root(r) => ~Locked
      /\ UNCHANGED <<journal, ready, network, faults>>

\* Simulation, gas, fee, balance or signing fails: Rollback, nothing journaled.
Reject(p) ==
  /\ proc[p].pc \in {"prepare", "sign"}
  /\ Return(p)
  /\ UNCHANGED <<journal, ready, network, faults>>

\* The primary key, the unique root of an intent, and InsertReplacement's update
\* of a target that nothing replaced meanwhile.
Insertable(r) ==
  /\ rows[r] = Absent
  /\ IF Root(r) THEN \A q \in Journaled : ~(Root(q) /\ Intent[q] = Intent[r])
     ELSE rows[Replaces[r]].by = None /\ rows[Replaces[r]].status \in Replaceable

Inserted(p) ==
  LET r   == proc[p].req
      row == [status |-> "signed", nonce |-> proc[p].nonce, by |-> None,
              depth |-> IF Root(r) THEN 0 ELSE rows[Replaces[r]].depth + 1]
  IN  IF Root(r) THEN [rows EXCEPT ![r] = row]
      ELSE [rows EXCEPT ![r] = row, ![Replaces[r]].status = "replaced", ![Replaces[r]].by = r]

Advanced(nonce) == nonce + 1

\* Commit or InsertReplacement: the row and the nonce in one transaction.  A
\* refused insert leaves the writer unready; so does a commit, or a later update
\* of the row, whose answer is lost: to the process that is a Crash.
Commit(p) ==
  LET r == proc[p].req
  IN  /\ At(p, "sign")
      /\ IF Insertable(r)
         THEN /\ rows' = Inserted(p)
              /\ next_nonce' = IF Root(r) THEN Advanced(proc[p].nonce) ELSE next_nonce
              /\ Goto(p, "send") /\ UNCHANGED ready
         ELSE Return(p) /\ Unready(p) /\ UNCHANGED journal
      /\ UNCHANGED <<network, faults>>

\* The node takes a transaction whose nonce is not used up.
Accepts(r) == rows[r].nonce >= Len(chain)

Known(r) == mempool \cup (IF Accepts(r) THEN {r} ELSE {})

\* An error answer does not say whether the node took the transaction.
SendTransaction(p) ==
  LET r == proc[p].req
  IN  /\ At(p, "send")
      /\ \/ Accepts(r) /\ mempool' = Known(r) /\ Goto(p, "sent") /\ UNCHANGED faults
         \/ /\ ~Accepts(r) /\ mempool' = mempool
            /\ Goto(p, "failed") /\ UNCHANGED faults
         \/ /\ Strikes("lost answer")
            /\ mempool' \in {mempool, Known(r)}
            /\ Goto(p, "failed")
      /\ UNCHANGED <<journal, ready, chain, safe, final>>

SetSubmitted(p) ==
  LET r == proc[p].req
  IN  /\ At(p, "sent")
      /\ rows' = Update(r, Replaceable, "submitted")
      /\ IF rows[r].status \in Replaceable THEN UNCHANGED ready ELSE Unready(p)
      /\ Return(p)
      /\ UNCHANGED <<next_nonce, network, faults>>

SetAmbiguous(p) ==
  /\ At(p, "failed")
  /\ rows' = Update(proc[p].req, {"signed", "soft_confirmed", "l1_posted"}, "ambiguous")
  /\ Return(p) /\ Unready(p)
  /\ UNCHANGED <<next_nonce, network, faults>>

-----------------------------------------------------------------------------
(***************************************************************************)
(* reconcileLocked, for Reconcile (ready) and Recover (not ready)          *)
(***************************************************************************)
\* Verify, then the due records with the statuses just read, and both heads.
ReconcileBegin(p, due) ==
  /\ At(p, "idle") /\ due \subseteq {r \in Request : rows[r].status \in Pending}
  /\ IF JournalReady
     THEN /\ proc' = [proc EXCEPT ![p] =
               [Idle EXCEPT !.pc = "scan", !.safe = safe, !.final = final,
                             !.todo = {<<r, rows[r].status>> : r \in due}]]
          /\ UNCHANGED ready
     ELSE Unready(p) /\ UNCHANGED proc
  /\ UNCHANGED <<journal, network, faults>>

\* A read or a write fails, or the providers disagree: the pass is abandoned.
ReconcileFails(p) ==
  /\ proc[p].pc \in {"scan", "receipt", "winner"}
  /\ Return(p) /\ Unready(p)
  /\ UNCHANGED <<journal, network, faults>>

ReconcileDone(p) ==
  /\ At(p, "scan") /\ proc[p].todo = {}
  /\ Return(p) /\ ready' = [ready EXCEPT ![p] = TRUE]
  /\ UNCHANGED <<journal, network, faults>>

\* validateRecord rejects a record, under a policy stricter than the one it was
\* signed under or because it is damaged.
Quarantine(p) ==
  /\ At(p, "scan") /\ Strikes("damaged")
  /\ \E t \in proc[p].todo : rows' = [rows EXCEPT ![t[1]].status = "quarantined"]
  /\ Return(p) /\ Unready(p)
  /\ UNCHANGED <<next_nonce, network>>

\* No receipt: a confirmed record becomes ambiguous again, and everything but a
\* replaced candidate is broadcast again, unless its nonce is consumed.  The pass
\* decides on the status it read at its start; the updates test the stored one.
Rebroadcast(p, r, read) ==
  LET confirmed  == read \in {"soft_confirmed", "l1_posted"}
      overtaken  == confirmed /\ rows[r].status \notin {"signed", "soft_confirmed", "l1_posted"}
      lost       == IF confirmed THEN [rows EXCEPT ![r].status = "ambiguous"] ELSE rows
      continues  == proc' = [proc EXCEPT ![p].todo = @ \ {<<r, read>>}] /\ UNCHANGED ready
      fails      == Return(p) /\ Unready(p)
  IN  /\ Receipt(r) = 0
      /\ \/ overtaken /\ fails /\ UNCHANGED <<rows, mempool>>
         \/ /\ ~overtaken /\ (read = "replaced" \/ ~Accepts(r))
            /\ rows' = lost /\ continues /\ UNCHANGED mempool
         \/ /\ ~overtaken /\ read # "replaced" /\ Accepts(r)
            /\ mempool' = Known(r)
            /\ IF lost[r].status \in Replaceable
               THEN rows' = [lost EXCEPT ![r].status = "submitted"] /\ continues
               ELSE rows' = lost /\ fails
         \/ /\ ~overtaken /\ read # "replaced"
            /\ rows' = lost /\ fails /\ UNCHANGED mempool
      /\ UNCHANGED <<next_nonce, chain, safe, final, faults>>

TransactionReceipt(p, r, read) ==
  /\ Receipt(r) # 0
  /\ proc' = [proc EXCEPT ![p].pc = "receipt", ![p].req = r, ![p].todo = @ \ {<<r, read>>},
                          ![p].block = Receipt(r), ![p].ok = chain[Receipt(r)].ok]
  /\ UNCHANGED <<journal, ready, network, faults>>

ReconcileRecord(p, r) ==
  /\ At(p, "scan")
  /\ \E t \in proc[p].todo :
       t[1] = r /\ (Rebroadcast(p, r, t[2]) \/ TransactionReceipt(p, r, t[2]))

\* SetReceipt updates the row whatever its status has become.
SetReceipt(p) ==
  /\ At(p, "receipt")
  /\ rows' = [rows EXCEPT ![proc[p].req].status =
                IF proc[p].ok THEN "soft_confirmed" ELSE "reverted"]
  /\ Goto(p, "winner")
  /\ UNCHANGED <<next_nonce, ready, network, faults>>

\* Mutant of FinalAt: the safe head is enough.
SafeAt(p) == proc[p].safe >= proc[p].block

FinalAt(p) == proc[p].final >= proc[p].block


\* The candidates SetSuperseded gives up: the pending ones of the winner's nonce.
Siblings(r) ==
  {q \in Journaled : /\ Intent[q] = Intent[r] /\ rows[q].nonce = rows[r].nonce
                     /\ q # r /\ rows[q].status \in Pending}

\* SetSuperseded, then SetFinality for the safe and for the finalized head.  They
\* are three updates; a pass that stops between them leaves the row in a status
\* that a pass with older heads leaves it in too, and that is reconciled again.
SetSuperseded(p) ==
  LET r    == proc[p].req
      lost == Siblings(r)
      posted == proc[p].ok /\ SafeAt(p)
      status == IF ~proc[p].ok THEN rows[r].status
                ELSE IF FinalAt(p) THEN "ethereum_final"
                ELSE IF posted THEN "l1_posted" ELSE rows[r].status
      refused == posted /\ rows[r].status \notin {"soft_confirmed", "l1_posted"}
  IN  /\ At(p, "winner")
      /\ rows' = [q \in Request |->
                    IF q \in lost THEN [rows[q] EXCEPT !.status = "superseded"]
                    ELSE IF q = r /\ ~refused THEN [rows[q] EXCEPT !.status = status]
                    ELSE rows[q]]
      /\ IF refused THEN Return(p) /\ Unready(p)
         ELSE proc' = [proc EXCEPT ![p].pc = "scan", ![p].req = None, ![p].block = 0,
                                   ![p].ok = FALSE] /\ UNCHANGED ready
      /\ UNCHANGED <<next_nonce, network, faults>>

Crash(p) ==
  /\ Strikes("crash")
  /\ Return(p) /\ Unready(p)
  /\ UNCHANGED <<journal, network>>

-----------------------------------------------------------------------------
(***************************************************************************)
(* Robinhood Chain: a sequencer that includes transactions in nonce order, *)
(* a vault that executes an intent once, and heads that become final.      *)
(***************************************************************************)
Executed(i) == \E k \in DOMAIN chain : chain[k].ok /\ Intent[chain[k].tx] = i

Include(r) ==
  /\ r \in mempool /\ rows[r].nonce = Len(chain)
  /\ \E ok \in BOOLEAN :
       /\ ok => ~Executed(Intent[r])
       /\ chain' = Append(chain, [tx |-> r, ok |-> ok])
  /\ UNCHANGED <<journal, proc, ready, mempool, safe, final, faults>>

DropFromMempool(r) ==
  /\ r \in mempool /\ Strikes("dropped")
  /\ mempool' = mempool \ {r}
  /\ UNCHANGED <<journal, proc, ready, chain, safe, final>>

AdvanceSafe ==
  /\ safe < Len(chain) /\ safe' = safe + 1
  /\ UNCHANGED <<journal, proc, ready, mempool, chain, final, faults>>

AdvanceFinal ==
  /\ final < safe /\ final' = final + 1
  /\ UNCHANGED <<journal, proc, ready, mempool, chain, safe, faults>>

\* Everything above the finalized head may be reorganised away; the network still
\* holds the transactions, and those that lost to them.
Reorg ==
  /\ Strikes("reorg")
  /\ \E k \in final..(Len(chain) - 1) :
       chain' = SubSeq(chain, 1, k) /\ safe' = IF safe > k THEN k ELSE safe
  /\ UNCHANGED <<journal, proc, ready, mempool, final>>

-----------------------------------------------------------------------------
Init ==
  /\ rows = [r \in Request |-> Absent] /\ next_nonce = 0
  /\ proc = [p \in Process |-> Idle] /\ ready = [p \in Process |-> FALSE]
  /\ mempool = {} /\ chain = <<>> /\ safe = 0 /\ final = 0
  /\ faults = 0

Reconcile(p) ==
  \/ \E due \in SUBSET Request : ReconcileBegin(p, due)
  \/ ReconcileFails(p) \/ ReconcileDone(p) \/ Quarantine(p)
  \/ \E r \in Request : ReconcileRecord(p, r)
  \/ SetReceipt(p) \/ SetSuperseded(p)

Step(p) ==
  \/ \E r \in Request : Submit(p, r)
  \/ BeginNonce(p) \/ Reject(p) \/ Commit(p)
  \/ SendTransaction(p) \/ SetSubmitted(p) \/ SetAmbiguous(p)
  \/ Reconcile(p)
  \/ Crash(p)

Chain ==
  \/ \E r \in Request : Include(r) \/ DropFromMempool(r)
  \/ AdvanceSafe \/ AdvanceFinal \/ Reorg

Next == (\E p \in Process : Step(p)) \/ Chain

Spec == Init /\ [][Next]_vars
-----------------------------------------------------------------------------
(***************************************************************************)
(* Properties                                                              *)
(***************************************************************************)
\* The journal, the processes and the chain keep their types, and the stored
\* nonce lies above every journaled one.
TypeOK ==
  /\ \A r \in Request :
       /\ rows[r].status \in Status \cup {None} /\ rows[r].nonce \in Nat
       /\ rows[r].depth \in 0..MaxReplacementCount /\ rows[r].by \in Request \cup {None}
  /\ next_nonce \in Nat /\ \A r \in Journaled : rows[r].nonce < next_nonce
  /\ \A p \in Process :
       /\ proc[p].pc \in {"idle", "prepare", "sign", "send", "sent", "failed", "scan",
                          "receipt", "winner"}
       /\ proc[p].req \in Request \cup {None} /\ proc[p].todo \subseteq Request \X Pending
  /\ final <= safe /\ safe <= Len(chain)

\* A nonce belongs to one intent and an intent to one nonce: fee replacements
\* share it, nothing else does, however the node's pending count lags behind the
\* journal, two roots compete or a process dies between signing and sending.
OneNoncePerIntent ==
  \A r, q \in Journaled : rows[r].nonce = rows[q].nonce <=> Intent[r] = Intent[q]

\* ethereum_final is final: the transaction executed below the finalized head,
\* although the heads and the receipt were read at different times and anything
\* above that head may have been reorganised in between.
FinalIsFinal ==
  \A r \in Request : rows[r].status = "ethereum_final" =>
    \E k \in 1..final : chain[k] = [tx |-> r, ok |-> TRUE]


-----------------------------------------------------------------------------
(***************************************************************************)
(* Liveness.  RunReconciler's ticker starts passes for ever, every row is  *)
(* due again and again, and a provider that keeps failing is assumed to    *)
(* answer again and again.  The sequencer and the heads make progress.     *)
(***************************************************************************)
Fairness ==
  /\ \A p \in Process :
       /\ WF_vars(BeginNonce(p)) /\ SF_vars(Commit(p))
       /\ WF_vars(SendTransaction(p) \/ SetSubmitted(p) \/ SetAmbiguous(p))
       /\ SF_vars(SetReceipt(p)) /\ SF_vars(SetSuperseded(p)) /\ WF_vars(ReconcileDone(p))
       /\ \A r \in Request :
            /\ SF_vars(\E due \in SUBSET Request : r \in due /\ ReconcileBegin(p, due))
            /\ SF_vars(ReconcileRecord(p, r) /\ proc'[p].pc # "idle")
  /\ WF_vars(\E r \in Request : Include(r))
  /\ WF_vars(AdvanceSafe) /\ WF_vars(AdvanceFinal)

FairSpec == Spec /\ Fairness

\* Every journaled intent gets its answer: in the end some candidate of its family
\* is recorded as final or reverted, across lost answers, dropped transactions,
\* crashes and restarts.
IntentSettles ==
  \A r \in Request :
    rows[r] # Absent ~>
      \E q \in Request : Intent[q] = Intent[r] /\ rows[q].status \in {"ethereum_final", "reverted"}
=============================================================================

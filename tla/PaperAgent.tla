----------------------------- MODULE PaperAgent -----------------------------
(***************************************************************************)
(* The paper agent: it follows the Lighter tickers with a durable cursor    *)
(* per market, evaluates the latest one and keeps at most one open paper    *)
(* position per market.  A deployment may overlap the one it replaces, so   *)
(* there is a set of agents of one strategy version on one database.        *)
(*                                                                          *)
(* Tickers are numbered by (received_at, id), the order of the cursor.  A   *)
(* ticker is received first and visible once its transaction commits; two   *)
(* collectors may commit out of order.  What the quotes say is reduced to   *)
(* the verdict of evaluate.                                                 *)
(***************************************************************************)
EXTENDS Integers, FiniteSets, Sequences, FiniteSetsExt, SequencesExt

CONSTANTS
    Agent,      \* paper agent processes
    Symbol,     \* configured markets
    MaxTicks,   \* bound on the tickers received, per market
    MaxFaults   \* bound on crashes and deferred passes

ASSUME PaperAssumption == MaxTicks \in [Symbol -> Nat] /\ MaxFaults \in Nat

VARIABLES
    received,    \* the market of every ticker received so far
    visible,     \* tickers in raw_market_events
    cursor,      \* paper_agent_cursors, Nil before the first start
    evaluated,   \* paper_evaluations: per market, the tickers in commit order
    episodes,    \* paper_opportunity_episodes
    position,    \* paper_market_state.active_episode_id, 0 for NULL
    agent,       \* per agent: program counter and locals of process_next
    superseded,  \* history: tickers a committed evaluation counted as superseded
    late,        \* history: tickers that became visible behind a ticker already picked
    start,       \* history: where the cursors started
    faults

market == <<received, visible, late>>
records == <<cursor, evaluated, episodes, position, superseded>>
vars == <<market, records, agent, start, faults>>

Nil == -1
Tick == 1 .. MapThenSumSet(LAMBDA s : MaxTicks[s], Symbol)
Down == [pc |-> "down", tick |-> 0, counted |-> {}, basis |-> 0]
Ready == [Down EXCEPT !.pc = "ready"]

Init ==
    /\ received = <<>> /\ visible = {} /\ late = {}
    /\ cursor = [s \in Symbol |-> Nil] /\ start = [s \in Symbol |-> Nil]
    /\ evaluated = [s \in Symbol |-> <<>>]
    /\ episodes = <<>> /\ position = [s \in Symbol |-> 0]
    /\ agent = [a \in Agent |-> Down]
    /\ superseded = {} /\ faults = 0

Fault == faults < MaxFaults /\ faults' = faults + 1

----------------------------------------------------------------------------
(* The collectors. *)

Receive(s) ==
    /\ Cardinality({t \in DOMAIN received : received[t] = s}) < MaxTicks[s]
    /\ received' = Append(received, s)
    /\ UNCHANGED <<visible, late, records, agent, start, faults>>

Picked(t) == \E a \in Agent : agent[a].tick > t /\ received[agent[a].tick] = received[t]

Commit(t) ==
    /\ t \in DOMAIN received \ visible
    /\ visible' = visible \cup {t}
    /\ late' = IF t <= cursor[received[t]] \/ Picked(t) THEN late \cup {t} ELSE late
    /\ UNCHANGED <<received, records, agent, start, faults>>

----------------------------------------------------------------------------
(* One pass of process_next. *)

(* Mutant of initialize_cursor: a restart moves the cursor to the present.  *)
CursorReset(a) ==
    /\ agent[a].pc = "down"
    /\ cursor' = [s \in Symbol |-> Len(received)]
    /\ start' = [s \in Symbol |-> IF start[s] = Nil THEN Len(received) ELSE start[s]]
    /\ agent' = [agent EXCEPT ![a] = Ready]
    /\ UNCHANGED <<market, evaluated, episodes, position, superseded, faults>>

(* A cursor starts at the current time, unless there is one already.        *)
initialize_cursor(a) ==
    /\ agent[a].pc = "down"
    /\ cursor' = [s \in Symbol |-> IF cursor[s] = Nil THEN Len(received) ELSE cursor[s]]
    /\ start' = [s \in Symbol |-> IF start[s] = Nil THEN Len(received) ELSE start[s]]
    /\ agent' = [agent EXCEPT ![a] = Ready]
    /\ UNCHANGED <<market, evaluated, episodes, position, superseded, faults>>

Beyond(s) == {t \in visible : received[t] = s /\ t > cursor[s]}

(* The latest ticker of every market beyond its cursor; of these, the       *)
(* oldest.  The ones it passes over are counted.                            *)
next_ticker(a) ==
    LET latest == {Max(Beyond(s)) : s \in {m \in Symbol : Beyond(m) # {}}}
    IN  /\ agent[a].pc = "ready" /\ latest # {}
        /\ LET t == Min(latest)
           IN  agent' = [agent EXCEPT ![a] = [Ready EXCEPT !.pc = "picked", !.tick = t,
                                                 !.counted = Beyond(received[t]) \ {t}]]
        /\ UNCHANGED <<market, records, start, faults>>

Active(s) == {x \in DOMAIN episodes : episodes[x].symbol = s /\ episodes[x].active}

active_position(a) ==
    /\ agent[a].pc = "picked"
    /\ agent' = [agent EXCEPT ![a].pc = "read",
                              ![a].basis = IF Active(received[agent[a].tick]) = {} THEN 0
                                           ELSE Max(Active(received[agent[a].tick]))]
    /\ UNCHANGED <<market, records, start, faults>>

(* A decline closes the position, or leaves it when there is no exit quote  *)
(* or depth.                                                                *)
close_position(basis) == IF basis = 0 THEN {"decline"} ELSE {"close", "decline"}

(* What evaluate makes of the quotes, given the position read: a candidate, *)
(* with an entry or with a mark of the position, or a decline.              *)
evaluate(basis) == close_position(basis) \cup (IF basis = 0 THEN {"entry"} ELSE {"mark"})

(* A query, the chain snapshot or the transaction fails, or the report of   *)
(* the minute interrupts the pass: the ticker is taken up again later.      *)
deferred(a) ==
    /\ agent[a].pc \in {"picked", "read"} /\ Fault
    /\ agent' = [agent EXCEPT ![a] = Ready]
    /\ UNCHANGED <<market, records, start>>

(* Mutant of Passed: the transaction does not look at the cursor again.     *)
NeverPassed(t) == FALSE

Passed(t) == t <= cursor[received[t]]

(* Mutant of Recordable: an open position must be marked or closed.         *)
MarkRequired(v, active) == IF active = 0 THEN v # "mark" ELSE v \in {"mark", "close"}

(* A candidate that lacks the mark or the entry the transaction finds it    *)
(* needs is an error, and the transaction rolls back.                       *)
Recordable(v, active) ==
    /\ v = "entry" => active = 0
    /\ v = "mark" => active # 0

Opened(s, t, basis) == [symbol |-> s, first |-> t, latest |-> t, active |-> TRUE, basis |-> basis]

insert_paper_episode(s, t) ==
    /\ episodes' = Append(episodes, Opened(s, t, Len(episodes) + 1))
    /\ position' = [position EXCEPT ![s] = Len(episodes) + 1]

(* Both updates touch the row only while it is active.                      *)
Touched(x, t, basis, open) ==
    IF episodes[x].active
    THEN [episodes EXCEPT ![x].latest = t, ![x].active = open, ![x].basis = basis]
    ELSE episodes

update_paper_mark(x, t, basis) ==
    /\ episodes' = Touched(x, t, basis, TRUE)
    /\ UNCHANGED position

close_episode(x, s, t, basis) ==
    /\ episodes' = Touched(x, t, basis, FALSE)
    /\ position' = [position EXCEPT ![s] = 0]

advance_paper_cursor(s, t, counted) ==
    /\ cursor' = [cursor EXCEPT ![s] = t]
    /\ superseded' = superseded \cup counted

(* One transaction behind the locks of the cursor and of the market state.  *)
(* Nothing sees the verdict before it, so it is chosen here.                *)
record_paper_evaluation(a, v) ==
    LET t == agent[a].tick
        s == received[t]
        basis == agent[a].basis
        active == position[s]
    IN  /\ agent[a].pc = "read" /\ v \in evaluate(basis)
        /\ IF Passed(t) \/ (~Contains(evaluated[s], t) /\ ~Recordable(v, active))
           THEN UNCHANGED records
           ELSE /\ advance_paper_cursor(s, t, agent[a].counted)
                /\ IF Contains(evaluated[s], t)
                   THEN UNCHANGED <<evaluated, episodes, position>>
                   ELSE /\ evaluated' = [evaluated EXCEPT ![s] = Append(@, t)]
                        /\ CASE v = "entry" -> insert_paper_episode(s, t)
                             [] v = "mark" -> update_paper_mark(active, t, basis)
                             [] v = "close" /\ active # 0 -> close_episode(active, s, t, basis)
                             [] OTHER -> UNCHANGED <<episodes, position>>
        /\ agent' = [agent EXCEPT ![a] = Ready]
        /\ UNCHANGED <<market, start, faults>>

Crash(a) ==
    /\ agent[a].pc # "down" /\ Fault
    /\ agent' = [agent EXCEPT ![a] = Down]
    /\ UNCHANGED <<market, records, start>>

process_next(a) ==
    \/ next_ticker(a) \/ active_position(a) \/ deferred(a)
    \/ \E v \in {"entry", "mark", "close", "decline"} : record_paper_evaluation(a, v)

Next ==
    \/ \E s \in Symbol : Receive(s)
    \/ \E t \in DOMAIN received : Commit(t)
    \/ \E a \in Agent : initialize_cursor(a) \/ process_next(a) \/ Crash(a)

(* An agent that is down is started again, one that runs takes its steps.   *)
Spec ==
    /\ Init /\ [][Next]_vars
    /\ \A a \in Agent : WF_vars(initialize_cursor(a) \/ process_next(a))

----------------------------------------------------------------------------
(* The type of every variable; tickers that are evaluated, counted or late  *)
(* are visible ones.                                                        *)
TypeOK ==
    /\ received \in Seq(Symbol) /\ visible \subseteq DOMAIN received
    /\ superseded \cup late \subseteq visible
    /\ cursor \in [Symbol -> {Nil, 0} \cup Tick] /\ start \in [Symbol -> {Nil, 0} \cup Tick]
    /\ \A s \in Symbol : Range(evaluated[s]) \subseteq visible
    /\ Range(episodes) \subseteq [symbol : Symbol, first : Tick, latest : Tick, active : BOOLEAN,
                                  basis : DOMAIN episodes]
    /\ position \in [Symbol -> 0 .. Len(episodes)]
    /\ agent \in [Agent -> [pc : {"down", "ready", "picked", "read"},
                            tick : {0} \cup visible, counted : SUBSET visible,
                            basis : 0 .. Len(episodes)]]
    /\ faults \in 0 .. MaxFaults

(* A mark, and the profit it closes with, was computed for the very episode *)
(* it is written to, although the position is read long before the          *)
(* transaction and the transaction takes whatever episode is active then.   *)
MarkMatchesEpisode == \A x \in DOMAIN episodes : episodes[x].basis = x

(* Tickers of a market are evaluated at most once and in order, whichever   *)
(* agent picked them first, and the cursor is the last one evaluated.       *)
EvaluatedInOrder ==
    \A s \in Symbol :
        /\ \A i, j \in DOMAIN evaluated[s] : i < j => evaluated[s][i] < evaluated[s][j]
        /\ evaluated[s] # <<>> => cursor[s] = Last(evaluated[s])

(* A ticker the cursor has passed was evaluated or counted as superseded,   *)
(* across crashes and restarts, unless it became visible only after an      *)
(* agent had picked a later one.                                            *)
TicksAccounted ==
    \A t \in visible :
        start[received[t]] # Nil /\ t > start[received[t]] /\ t <= cursor[received[t]]
        => t \in late \cup superseded \cup Range(evaluated[received[t]])

(* Every visible ticker is passed by the cursor of its market in the end,   *)
(* whatever the other agent does to the position in between: a rolled back  *)
(* transaction is not repeated for ever.                                    *)
TicksPassed ==
    \A t \in Tick : (t \in visible) ~> (t \in visible /\ cursor[received[t]] >= t)
=============================================================================

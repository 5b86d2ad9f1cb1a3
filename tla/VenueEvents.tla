----------------------------- MODULE VenueEvents -----------------------------
(***************************************************************************)
(* Venue-event ingestion (coordinator/src/store.rs): record_venue_event    *)
(* stores authenticated observations append-only and keeps one frontier    *)
(* per source session; next_venue_event and apply_venue_event hand the     *)
(* observations of one leg to the reconciliation that waits for them.      *)
(*                                                                         *)
(* Any message may be delivered at any time, any number of times or never: *)
(* publishers retry, and streams reconnect and backfill.  An event's body  *)
(* stands for its intent, kind, payload digest and timestamps.  Events of  *)
(* other legs and intents take sequence numbers, but no reconciliation     *)
(* here selects them.  Order across sessions is by publisher timestamps,   *)
(* hence arbitrary.                                                        *)
(***************************************************************************)
EXTENDS Naturals, Sequences, FiniteSets

CONSTANTS
  Message   \* deliverable messages: [session, id, seq, body, mine]

ASSUME MessageAssumption ==
  /\ IsFiniteSet(Message)
  /\ \A m \in Message : m.seq \in Nat /\ m.mine \in BOOLEAN
  \* the identity of an event fixes its place and leg; a conflict is in the body
  /\ \A m, n \in Message : m.session = n.session /\ (m.id = n.id \/ m.seq = n.seq) =>
       m.id = n.id /\ m.seq = n.seq /\ m.mine = n.mine

VARIABLES
  mode,      \* execution_control.mode
  sessions,  \* execution_venue_source_sessions: [session -> [first, last]]
  events,    \* execution_venue_events with their route, by order of insertion
  applied,   \* execution_applied_venue_events, in order of insertion
  claimed    \* the event the reconciliation has been given; 0 when none

vars == <<mode, sessions, events, applied, claimed>>

Session == {m.session : m \in Message}

Mine == [s \in Session |-> {m.seq : m \in {n \in Message : n.session = s /\ n.mine}}]

Unknown == [first |-> 0, last |-> 0, open |-> FALSE]

-----------------------------------------------------------------------------
(***************************************************************************)
(* record_venue_event                                                      *)
(***************************************************************************)
Stored(s) == {events[i].seq : i \in {j \in DOMAIN events : events[j].session = s}}

\* Mutant of Frontier: a healed gap moves the frontier by the new event only.
NextOnly(seqs, last) == IF last + 1 \in seqs THEN last + 1 ELSE last

\* advance_venue_session: the frontier crosses every number that is now contiguous.
Frontier(seqs, last) ==
  CHOOSE f \in seqs \cup {last} :
    /\ f >= last /\ (last + 1)..f \subseteq seqs
    /\ f + 1 \notin seqs

Duplicate(m) ==
  {i \in DOMAIN events : events[i].session = m.session /\ events[i].id = m.id}

\* A repeated event must be identical; anything else halts and changes nothing.
RecordDuplicate(m) ==
  /\ Duplicate(m) # {}
  /\ mode' = IF \A i \in Duplicate(m) : events[i].body = m.body THEN mode ELSE "HALTED"
  /\ UNCHANGED <<sessions, events, applied, claimed>>

\* The first event of a session opens it at its own number.  A later one is
\* eligible when it is contiguous; otherwise it is quarantined as late or as
\* being past a gap.
RecordNew(m) ==
  LET s     == m.session
      fresh == ~sessions[s].open
      last  == IF fresh THEN m.seq ELSE sessions[s].last
      route == IF fresh \/ m.seq = last + 1 THEN "none"
               ELSE IF m.seq <= last THEN "late" ELSE "gap"
  IN  /\ Duplicate(m) = {}
      /\ events' = Append(events, [session |-> s, id |-> m.id, seq |-> m.seq,
                                   body |-> m.body, mine |-> m.mine, route |-> route])
      /\ sessions' = [sessions EXCEPT ![s] =
           [first |-> IF fresh THEN m.seq ELSE @.first, open |-> TRUE,
            last |-> IF route = "none" THEN Frontier(Stored(s) \cup {m.seq}, last) ELSE last]]
      /\ UNCHANGED <<mode, applied, claimed>>

record_venue_event(m) == RecordDuplicate(m) \/ RecordNew(m)

-----------------------------------------------------------------------------
(***************************************************************************)
(* next_venue_event and apply_venue_event                                  *)
(***************************************************************************)
Applied(i) == \E k \in DOMAIN applied : applied[k] = i

\* Mutant of Healed: any quarantined event behind the frontier is eligible.
Behind(e) == e.route \in {"gap", "late"} /\ e.seq <= sessions[e.session].last

\* A gap that closed: quarantined for it, and now at or behind the frontier.
Healed(e) == e.route = "gap" /\ e.seq <= sessions[e.session].last

Eligible ==
  {i \in DOMAIN events : /\ events[i].mine /\ ~Applied(i)
                         /\ events[i].route = "none" \/ Healed(events[i])}

Routed == {i \in DOMAIN events : events[i].route = "matched" /\ ~Applied(i)}

\* The lowest eligible number of its session.
First(i) ==
  \A j \in Eligible : events[j].session = events[i].session => events[i].seq <= events[j].seq

\* An event routed before comes first; an eligible one is routed now, unless it
\* healed, in which case its quarantine row stays.
next_venue_event ==
  /\ claimed = 0
  /\ \E i \in IF Routed # {} THEN Routed ELSE Eligible :
       /\ Routed = {} => First(i)
       /\ claimed' = i
       /\ events' = IF events[i].route = "none"
                    THEN [events EXCEPT ![i].route = "matched"] ELSE events
  /\ UNCHANGED <<mode, sessions, applied>>

apply_venue_event ==
  /\ claimed # 0 /\ ~Applied(claimed)
  /\ events[claimed].route = "matched" \/ Healed(events[claimed])
  /\ applied' = Append(applied, claimed)
  /\ claimed' = 0
  /\ UNCHANGED <<mode, sessions, events>>

\* The worker that was given the event dies or loses its lease.
Abandon ==
  /\ claimed # 0 /\ claimed' = 0
  /\ UNCHANGED <<mode, sessions, events, applied>>

-----------------------------------------------------------------------------
Init ==
  /\ mode = "ACTIVE" /\ sessions = [s \in Session |-> Unknown]
  /\ events = <<>> /\ applied = <<>> /\ claimed = 0

Next ==
  \/ \E m \in Message : record_venue_event(m)
  \/ next_venue_event \/ apply_venue_event \/ Abandon

Spec == Init /\ [][Next]_vars

-----------------------------------------------------------------------------
(***************************************************************************)
(* Properties                                                              *)
(***************************************************************************)
\* Sessions, events and the claim keep their types; no identity is stored twice.
TypeOK ==
  /\ mode \in {"ACTIVE", "HALTED"}
  /\ \A i \in DOMAIN events :
       /\ events[i].route \in {"none", "gap", "late", "matched"}
       /\ sessions[events[i].session].open
       /\ \A j \in DOMAIN events : events[i].session = events[j].session
                                   /\ events[i].id = events[j].id => i = j
  /\ \A k \in DOMAIN applied : applied[k] \in DOMAIN events
  /\ claimed \in 0..Len(events)

\* The frontier of a session is exact: everything from its first number up to it
\* is stored and the next number is not, so a stored event waits behind a gap
\* only as long as there is one.
FrontierExact ==
  \A s \in Session : sessions[s].open =>
    /\ sessions[s].first..sessions[s].last \subseteq Stored(s)
    /\ sessions[s].last + 1 \notin Stored(s)

\* The reconciliation sees its leg in order, once each and without holes,
\* however messages were lost, repeated, reordered or backfilled and wherever
\* the worker died: ingestion implements OrderedDelivery.
Stream ==
  INSTANCE OrderedDelivery WITH
    used <- [s \in Session |->
               LET here(i) == events[i].session = s
                   picked  == SelectSeq(applied, here)
               IN  [k \in DOMAIN picked |-> events[picked[k]].seq]]

DeliversInOrder == Stream!Spec

-----------------------------------------------------------------------------
\* The worker loop keeps polling, and a publisher repeats a message until it is
\* stored; only a bounded number of workers die in a row.
Fairness ==
  /\ WF_vars(next_venue_event) /\ SF_vars(apply_venue_event)
  /\ \A m \in Message : WF_vars(RecordNew(m))

FairSpec == Spec /\ Fairness

\* A gap heals: every event of the leg from the session's first number on is in
\* the end applied, in whatever order the messages came.
GapsHeal ==
  \A m \in Message : m.mine =>
    <>(sessions[m.session].open /\
         (m.seq < sessions[m.session].first \/
          \E k \in DOMAIN applied :
            events[applied[k]].session = m.session /\ events[applied[k]].seq = m.seq))
=============================================================================

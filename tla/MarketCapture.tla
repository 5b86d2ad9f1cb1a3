---------------------------- MODULE MarketCapture ----------------------------
(***************************************************************************)
(* The collector: the Lighter feed that accepts market events, and the      *)
(* archive loop that moves accepted events into immutable R2 segments.  A   *)
(* deployment may overlap the one it replaces, so there is a set of         *)
(* collectors on one database and one bucket.                               *)
(*                                                                          *)
(* An event's identifier is its position in raw.  A segment is the set of   *)
(* the identifiers in it: its bytes, hence its content hash and its key,    *)
(* are a function of that set.  The clock counts periods longer than the    *)
(* thirty seconds one segment may span; a manifest covers one period.       *)
(***************************************************************************)
EXTENDS Integers, FiniteSets, Sequences, FiniteSetsExt

CONSTANTS
    Collector,   \* collector processes
    Nonce,       \* order book nonces
    BatchLimit,  \* rows one claim may take
    MaxEvents, MaxSession, MaxNow,
    MaxFaults    \* crashes, failed calls, cancelled archivals and overrun leases

ASSUME CaptureAssumption ==
    /\ Nonce \subseteq Nat
    /\ BatchLimit \in Nat \ {0} /\ MaxFaults \in Nat
    /\ {MaxEvents, MaxSession, MaxNow} \subseteq Nat \ {0}

VARIABLES
    feed,       \* per session: whether its websocket is open, and the book's nonce
    session,    \* sessions opened so far
    raw,        \* raw_market_events: the accepted events
    staging,    \* event_staging.state per accepted event
    expired,    \* leased events whose leased_until has passed
    objects,    \* segments stored in R2
    segments,   \* archive_segments
    owner,      \* archive_segment_events: the segment an event is bound to
    key,        \* raw_market_events.raw_object_key
    manifests,  \* archive_manifests: the segments the last manifest of each day lists
    archiver,   \* per collector: program counter and locals of archive_pending
    now, faults

capture == <<feed, session, raw>>
archived == <<objects, segments, owner, key>>
vars == <<capture, staging, expired, archived, manifests, archiver, now, faults>>

Nil == -1
Closed == [open |-> FALSE, nonce |-> Nil]
Session == 1 .. MaxSession
Idle == [pc |-> "idle", anchor |-> 0, seen |-> {}, batch |-> {}]
Event == 1 .. MaxEvents
Accepted == DOMAIN raw

Init ==
    /\ feed = [s \in Session |-> Closed] /\ session = 0
    /\ raw = <<>> /\ staging = <<>> /\ expired = {}
    /\ objects = {} /\ segments = {}
    /\ owner = [e \in Event |-> {}] /\ key = [e \in Event |-> {}]
    /\ manifests = [day \in 0 .. MaxNow |-> {}]
    /\ archiver = [c \in Collector |-> Idle]
    /\ now = 1 /\ faults = 0

Fault == faults < MaxFaults /\ faults' = faults + 1

----------------------------------------------------------------------------
(* Accepting events. *)

Frame(s, kind, begin, nonce) ==
    [session |-> s, kind |-> kind, begin |-> begin, nonce |-> nonce, at |-> now]

(* The raw row and the staging row are inserted in one transaction.  The    *)
(* identity of a frame, its session and its number in it, is always new.    *)
persist_event(event) ==
    /\ Len(raw) < MaxEvents
    /\ raw' = Append(raw, event) /\ staging' = Append(staging, "pending")

(* A connection has a session of its own and empty books.                   *)
connect ==
    /\ session < MaxSession
    /\ session' = session + 1
    /\ feed' = [feed EXCEPT ![session + 1].open = TRUE]
    /\ UNCHANGED <<raw, staging, expired, archived, manifests, archiver, now, faults>>

(* OrderBook::apply: the first update sets the book, the others must start  *)
(* where it stands.                                                         *)
applies(s, begin, nonce) == nonce >= begin /\ feed[s].nonce \in {Nil, begin}

(* A routed order book update moves the book and is then persisted; one     *)
(* that cannot be applied is kept as a health event and ends the session.   *)
order_book_frame(s, begin, nonce) ==
    /\ feed[s].open
    /\ IF applies(s, begin, nonce)
       THEN /\ persist_event(Frame(s, "book", begin, nonce))
            /\ feed' = [feed EXCEPT ![s].nonce = nonce]
       ELSE /\ persist_event(Frame(s, "other", Nil, Nil))
            /\ feed' = [feed EXCEPT ![s] = Closed]
    /\ UNCHANGED <<session, expired, archived, manifests, archiver, now, faults>>

(* Tickers, trades, statistics and heights are persisted as they come.      *)
data_frame(s) ==
    /\ feed[s].open
    /\ persist_event(Frame(s, "other", Nil, Nil))
    /\ UNCHANGED <<feed, session, expired, archived, manifests, archiver, now, faults>>

(* A frame that does not parse, a channel nobody asked for, a second        *)
(* acknowledgement or a server error: kept as health, then reconnect.       *)
refused_frame(s) ==
    /\ feed[s].open
    /\ persist_event(Frame(s, "other", Nil, Nil))
    /\ feed' = [feed EXCEPT ![s] = Closed]
    /\ UNCHANGED <<session, expired, archived, manifests, archiver, now, faults>>

(* Mutant of stream_fails: the session goes on after a write that failed.   *)
BookAdvances(s) ==
    /\ feed[s].open
    /\ \E begin, nonce \in Nonce :
           applies(s, begin, nonce) /\ feed' = [feed EXCEPT ![s].nonce = nonce]
    /\ UNCHANGED <<session, raw, staging, expired, archived, manifests, archiver, now, faults>>

(* The event cannot be persisted: the error ends the session, and with it   *)
(* the book that had already moved.  A closed or broken socket ends it too. *)
stream_fails(s) ==
    /\ feed[s].open
    /\ feed' = [feed EXCEPT ![s] = Closed]
    /\ UNCHANGED <<session, raw, staging, expired, archived, manifests, archiver, now, faults>>

----------------------------------------------------------------------------
(* Archiving. *)

(* Mutant of Claimable: an expired lease is never taken over.               *)
NewPending(e) == staging[e] = "pending"

Claimable(e) == staging[e] = "pending" \/ (staging[e] = "leased" /\ e \in expired)

(* FOR UPDATE SKIP LOCKED: the rows another claim has locked are passed by. *)
Locked(c) == {archiver[d].anchor : d \in Collector \ {c}}

Older(e, f) == raw[e].at < raw[f].at \/ (raw[e].at = raw[f].at /\ e <= f)

Enter(c, pc, batch) == archiver' = [archiver EXCEPT ![c] = [Idle EXCEPT !.pc = pc, !.batch = batch]]

(* An update of rows waits for the claim that has locked one of them.       *)
Unlocked(batch) == \A c \in Collector : archiver[c].anchor \notin batch

(* First statement of the claim: the oldest row to archive is locked.       *)
claim_anchor(c) ==
    LET rows == {e \in Accepted : Claimable(e)} \ Locked(c)
    IN  /\ archiver[c].pc = "idle"
        /\ \E e \in rows :
               /\ \A f \in rows : Older(e, f)
               /\ archiver' = [archiver EXCEPT ![c] = [pc |-> "anchored", anchor |-> e,
                                                      seen |-> expired, batch |-> {}]]
        /\ UNCHANGED <<capture, staging, expired, archived, manifests, now, faults>>

(* Second statement: rows of the anchor's session, not younger than its     *)
(* window, are leased.  Rows freed since the first statement take part,     *)
(* however old they are; an expiry counts only if it came before the        *)
(* transaction, whose now() stands still.                                   *)
claim_archive_batch(c) ==
    LET a == archiver[c].anchor
        rows == {e \in Accepted :
                    /\ Claimable(e) /\ (staging[e] = "leased" => e \in archiver[c].seen)
                    /\ raw[e].session = raw[a].session /\ raw[e].at <= raw[a].at} \ Locked(c)
        batch == {e \in rows : Cardinality({f \in rows : Older(f, e)}) <= BatchLimit}
    IN  /\ archiver[c].pc = "anchored"
        /\ staging' = [e \in Accepted |-> IF e \in batch THEN "leased" ELSE staging[e]]
        /\ expired' = expired \ batch
        /\ Enter(c, "claimed", batch)
        /\ UNCHANGED <<capture, archived, manifests, now, faults>>

(* ArchiveSegment::build refuses a batch that spans more than one window.   *)
Buildable(batch) == \A e, f \in batch : raw[e].at = raw[f].at /\ raw[e].session = raw[f].session

(* Mutant of upload: the put is not awaited.                                *)
AckWithoutPut(c) ==
    /\ archiver[c].pc = "claimed"
    /\ Buildable(archiver[c].batch)
    /\ Enter(c, "uploaded", archiver[c].batch)
    /\ UNCHANGED <<capture, staging, expired, archived, manifests, now, faults>>

upload(c) ==
    /\ archiver[c].pc = "claimed"
    /\ Buildable(archiver[c].batch)
    /\ objects' = objects \cup {archiver[c].batch}
    /\ Enter(c, "uploaded", archiver[c].batch)
    /\ UNCHANGED <<capture, staging, expired, segments, owner, key, manifests, now, faults>>

(* A failed build, or a put that fails with or without an effect.           *)
upload_fails(c) ==
    /\ archiver[c].pc = "claimed"
    /\ \/ /\ ~Buildable(archiver[c].batch)
          /\ UNCHANGED <<objects, faults>>
       \/ /\ Buildable(archiver[c].batch) /\ Fault
          /\ objects' \in {objects, objects \cup {archiver[c].batch}}
    /\ Enter(c, "releasing", archiver[c].batch)
    /\ UNCHANGED <<capture, staging, expired, segments, owner, key, manifests, now>>

(* Whoever leased them: the row does not say.                               *)
release_archive_lease(c) ==
    LET freed == {e \in archiver[c].batch : staging[e] = "leased"}
    IN  /\ archiver[c].pc = "releasing" /\ Unlocked(archiver[c].batch)
        /\ staging' = [e \in Accepted |-> IF e \in freed THEN "pending" ELSE staging[e]]
        /\ expired' = expired \ freed
        /\ Enter(c, "idle", {})
        /\ UNCHANGED <<capture, archived, manifests, now, faults>>

(* Mutant of StillLeased: the rows that were moved are not counted.         *)
LeasedAny(batch) == \E e \in batch : staging[e] = "leased"

(* The count of rows the acknowledgement moved must be the batch's.         *)
StillLeased(batch) == \A e \in batch : staging[e] = "leased"

acknowledge_archive(c) ==
    LET batch == archiver[c].batch
        moved == {e \in batch : staging[e] = "leased"}
    IN  /\ archiver[c].pc = "uploaded" /\ Unlocked(batch)
        /\ IF StillLeased(batch)
           THEN /\ segments' = segments \cup {batch}
                /\ owner' = [e \in Event |-> IF e \in batch /\ owner[e] = {} THEN batch ELSE owner[e]]
                /\ key' = [e \in Event |-> IF e \in batch THEN batch ELSE key[e]]
                /\ staging' = [e \in Accepted |-> IF e \in moved THEN "archived" ELSE staging[e]]
                /\ expired' = expired \ moved
           ELSE UNCHANGED <<segments, owner, key, staging, expired>>
        /\ Enter(c, "idle", {})
        /\ UNCHANGED <<capture, objects, manifests, now, faults>>

----------------------------------------------------------------------------
(* Maintenance, failures and time. *)

(* Only the payloads of archived rows older than a week are dropped.        *)
Purgeable(e) == staging[e] = "archived"

publish_daily_manifest ==
    LET day == now - 1
        listed == {s \in segments : \E e \in s : raw[e].at = day}
    IN  manifests' = [manifests EXCEPT ![day] = listed]

(* The hourly tick of the archive loop.  It drops an archival that is in    *)
(* flight at whatever point it waits; open transactions roll back.          *)
maintain(c) ==
    /\ IF archiver[c] = Idle THEN UNCHANGED faults ELSE Fault
    /\ publish_daily_manifest
    /\ \E gone \in SUBSET {e \in Accepted : Purgeable(e)} :
           staging' = [e \in Accepted |-> IF e \in gone THEN "purged" ELSE staging[e]]
    /\ Enter(c, "idle", {})
    /\ UNCHANGED <<capture, expired, archived, now>>

(* The process is replaced: its locals and its transaction are gone.  Its   *)
(* sessions end too, as they may at any time; an idle one loses nothing.    *)
crash(c) ==
    /\ archiver[c] # Idle /\ Fault
    /\ Enter(c, "idle", {})
    /\ UNCHANGED <<capture, staging, expired, archived, manifests, now>>

(* leased_until passes: at no cost when the collector that leased the event *)
(* is gone, as a fault when it is still at work.                            *)
lease_expires(e) ==
    /\ staging[e] = "leased" /\ e \notin expired
    /\ IF \E c \in Collector : e \in archiver[c].batch THEN Fault ELSE UNCHANGED faults
    /\ expired' = expired \cup {e}
    /\ UNCHANGED <<capture, staging, archived, manifests, archiver, now>>

Tick ==
    /\ now < MaxNow
    /\ now' = now + 1
    /\ UNCHANGED <<capture, staging, expired, archived, manifests, archiver, faults>>

archive_pending(c) ==
    \/ claim_anchor(c) \/ claim_archive_batch(c) \/ upload(c) \/ upload_fails(c)
    \/ release_archive_lease(c) \/ acknowledge_archive(c)

stream_once(s) ==
    \/ data_frame(s) \/ refused_frame(s) \/ stream_fails(s)
    \/ \E begin, nonce \in Nonce : order_book_frame(s, begin, nonce)

Next ==
    \/ connect \/ \E s \in Session : stream_once(s)
    \/ \E c \in Collector : archive_pending(c) \/ maintain(c) \/ crash(c)
    \/ \E e \in Accepted : lease_expires(e)
    \/ Tick

(* The archive loop of every collector keeps running, and time passes for   *)
(* the leases.                                                              *)
Spec ==
    /\ Init /\ [][Next]_vars
    /\ \A c \in Collector : WF_vars(archive_pending(c))
    /\ WF_vars(\E e \in Accepted : lease_expires(e))

----------------------------------------------------------------------------
(* The type of every variable; only leased rows have a lease to expire.     *)
TypeOK ==
    /\ feed \in [Session -> [open : BOOLEAN, nonce : Nonce \cup {Nil}]]
    /\ session \in 0 .. MaxSession
    /\ Len(raw) <= MaxEvents /\ DOMAIN staging = Accepted
    /\ \A e \in Accepted : staging[e] \in {"pending", "leased", "archived", "purged"}
    /\ expired \subseteq {e \in Accepted : staging[e] = "leased"}
    /\ objects \subseteq SUBSET Event /\ segments \subseteq SUBSET Event
    /\ manifests \in [0 .. MaxNow -> SUBSET SUBSET Event]
    /\ owner \in [Event -> SUBSET Event] /\ key \in [Event -> SUBSET Event]
    /\ archiver \in [Collector -> [pc : {"idle", "anchored", "claimed", "releasing", "uploaded"},
                                   anchor : {0} \cup Accepted, seen : SUBSET Accepted,
                                   batch : SUBSET Accepted]]
    /\ now \in 1 .. MaxNow /\ faults \in 0 .. MaxFaults

(* Nothing is lost: an event whose payload left the staging queue, whether  *)
(* archived or already purged, is in a segment that the database records    *)
(* and R2 holds, and so is every segment a manifest lists.  Leases carry no *)
(* owner, so this rests on the count check of acknowledge_archive.          *)
ArchivedIsDurable ==
    /\ \A e \in Accepted : staging[e] \in {"archived", "purged"} =>
           e \in owner[e] /\ owner[e] \in segments \cap objects
    /\ \A day \in DOMAIN manifests : manifests[day] \subseteq segments \cap objects

(* An accepted event is bound to one immutable segment: the recorded        *)
(* segments are disjoint, and the binding and the object key of every event *)
(* name the same one, although two collectors may upload overlapping        *)
(* batches.  A segment holds events of one session and one window, although *)
(* the claim picks its anchor and its rows in two statements.               *)
OneSegmentPerEvent ==
    /\ \A s, t \in segments : s # t => s \cap t = {}
    /\ \A e \in Event : owner[e] = key[e]
    /\ \A s \in segments : \A e, f \in s :
           raw[e].at = raw[f].at /\ raw[e].session = raw[f].session

(* The order book updates accepted under one session form a chain: each     *)
(* starts at the nonce where the one before ended, so a book rebuilt from   *)
(* the archive has no hole, whatever frame was lost and whatever write      *)
(* failed.                                                                  *)
BooksContinuous ==
    \A e, f \in Accepted :
        /\ e < f /\ raw[e].kind = "book" /\ raw[f].kind = "book" /\ raw[e].session = raw[f].session
        /\ \A g \in e + 1 .. f - 1 : raw[g].kind # "book" \/ raw[g].session # raw[e].session
        => raw[f].begin = raw[e].nonce

(* Every accepted event is archived in the end: an archival that is         *)
(* dropped, fails or outlives its lease leaves nothing stuck.  Acceptance   *)
(* and binding are permanent, so this says that the one leads to the other. *)
EverythingArchived == \A e \in Event : []<>(e \in Accepted => owner[e] # {})
=============================================================================

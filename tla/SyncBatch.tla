----------------------------- MODULE SyncBatch -----------------------------
(***************************************************************************)
(* The day-aggregate batches of the desktop agent: what a queued row is,   *)
(* which days a chunk of rows spans, how a chunk is cut on a day boundary, *)
(* and what the server's ingest transaction does to a connector's rows.    *)
(*                                                                         *)
(* An event is content addressed: [conn, day, ver] stands for its          *)
(* event_id, ver for the digest of the day's payload.  NoDay marks a row   *)
(* this build cannot decode (it carries no window and no records).         *)
(***************************************************************************)
EXTENDS Integers, FiniteSets, Sequences

CONSTANTS Day,      \* calendar days, as positive integers
          Conn,     \* connector ids sharing the device connection
          Live      \* the claude_code connector

NoDay  == 0
NoRows == 0         \* version of a day the server holds no rows for

ASSUME DayAssumption  == IsFiniteSet(Day) /\ Day \subseteq Nat \ {NoDay}
ASSUME LiveAssumption == Live \in Conn

Event == [conn : Conn, day : Day \cup {NoDay}, ver : Nat]

\* pending_events: AUTOINCREMENT row id, UNIQUE event_id.
Row == [id : Nat, ev : Event]

EventsOf(rows) == {r.ev : r \in rows}

\* event_day over a chunk, dayless rows left out.
DaysOf(chunk) == {r.ev.day : r \in chunk} \ {NoDay}

distinct_day_count(chunk) == Cardinality(DaysOf(chunk))

\* min..max of the days a chunk carries: the range the server will delete.
Window(chunk) ==
    {d \in Day : \E a, b \in DaysOf(chunk) : a <= d /\ d <= b}

\* days[len / 2] of the sorted distinct days.
MedianDay(days) ==
    CHOOSE b \in days : Cardinality({d \in days : d < b}) = Cardinality(days) \div 2

LeftOf(chunk, b) == {r \in chunk : r.ev.day # NoDay /\ r.ev.day < b}

\* Mistaken: cut by row count, which may put a day's versions in both halves.
SplitByCount(chunk) ==
    LET left == {r \in chunk :
                    2 * Cardinality({q \in chunk : q.id < r.id}) + 1 < Cardinality(chunk)}
    IN  <<left, chunk \ left>>

\* <<left, right>>: days strictly before the median day, and everything else.
split_events_by_day(chunk) ==
    LET left == LeftOf(chunk, MedianDay(DaysOf(chunk)))
    IN  <<left, chunk \ left>>

\* Mistaken: keyed on the rows, ids included.
BatchIdOfRows(chunk) == chunk

\* The content-addressed batch id is a hash of the event ids alone.
deterministic_batch_id(chunk) == EventsOf(chunk)

Oldest(rows) == CHOOSE r \in rows : \A q \in rows : r.id <= q.id

\* Mistaken: sources mixed in one batch.
MixedGroup(rows) == rows

\* The rows of the connector seen first: one single-source group.
NextGroup(rows) == {r \in rows : r.ev.conn = Oldest(rows).ev.conn}

\* The `limit` oldest rows by row id.
dequeue_batch(queue, limit) ==
    {r \in queue : Cardinality({q \in queue : q.id < r.id}) < limit}

(***************************************************************************)
(* INSERT OR IGNORE, in day order, with ids from `next` on: an event that  *)
(* is still pending keeps its row and consumes no id.                      *)
(***************************************************************************)
FreshEvents(queue, evs) == evs \ EventsOf(queue)

\* Mistaken: without AUTOINCREMENT a row id is the largest one present plus one.
FreshRowsReusingIds(queue, evs, next) ==
    LET fresh == FreshEvents(queue, evs)
        base  == IF queue = {} THEN 1
                 ELSE 1 + (CHOOSE m \in {r.id : r \in queue} : \A r \in queue : r.id <= m)
    IN  {[id |-> base + Cardinality({f \in fresh : f.day < e.day}), ev |-> e] : e \in fresh}

FreshRows(queue, evs, next) ==
    LET fresh == FreshEvents(queue, evs)
    IN  {[id |-> next + Cardinality({f \in fresh : f.day < e.day}), ev |-> e] : e \in fresh}

(***************************************************************************)
(* The server's ingest transaction on one source family's rows: delete the *)
(* whole window, then upsert the batch, the last entry for a key winning.  *)
(***************************************************************************)
\* Mistaken: the first entry for a key wins.
EarliestVersion(chunk, d) ==
    (CHOOSE r \in chunk :
        /\ r.ev.day = d
        /\ \A q \in chunk : q.ev.day = d => r.id <= q.id).ev.ver

LatestVersion(chunk, d) ==
    (CHOOSE r \in chunk :
        /\ r.ev.day = d
        /\ \A q \in chunk : q.ev.day = d => q.id <= r.id).ev.ver

\* Mistaken: the delete has no upper bound.
IngestFromStart(rows, chunk) ==
    [d \in Day |-> CASE d \in DaysOf(chunk) -> LatestVersion(chunk, d)
                     [] \E a \in DaysOf(chunk) : a < d -> NoRows
                     [] OTHER -> rows[d]]

IngestWindow(rows, chunk) ==
    [d \in Day |-> CASE d \in DaysOf(chunk) -> LatestVersion(chunk, d)
                     [] d \in Window(chunk) \ DaysOf(chunk) -> NoRows
                     [] OTHER -> rows[d]]
=============================================================================

-------------------------- MODULE AgentSyncProofs --------------------------
(***************************************************************************)
(* Proofs about AgentSync, for any number of cycles, days, connectors,     *)
(* edits, imports and faults.                                              *)
(***************************************************************************)
EXTENDS AgentSync, FiniteSetTheorems, WellFoundedInduction, TLAPS

(***************************************************************************)
(* Rows below the AUTOINCREMENT counter whose id no other pending row has: *)
(* purging such a row by id removes that row or nothing.                   *)
(***************************************************************************)
GoodRow(rows, next) ==
    {r \in Row : r.id < next /\ \A t \in rows : t.id = r.id => t = r}

\* At most one version of a day, as one collection pass or import emits.
OnePerDay(evs) == \A e, f \in evs : e.day = f.day => e = f
-----------------------------------------------------------------------------
(* The operators on rows.                                                  *)

\* There are finitely many days.
LEMMA OnePerDayFinite ==
    ASSUME NEW evs \in SUBSET Event, OnePerDay(evs)
    PROVE  IsFiniteSet(evs)
<1> DEFINE day == [e \in evs |-> e.day]
<1>1. IsFiniteSet(Day \cup {NoDay})
  <2>1. IsFiniteSet({NoDay})
    BY FS_Singleton
  <2> QED
    BY <2>1, DayAssumption, FS_Union
<1>2. day \in Injection(evs, Day \cup {NoDay})
  BY DEF Injection, IsInjective, Event, OnePerDay
<1> QED
  BY <1>1, <1>2, FS_Injection

\* enqueue_events hands out fresh ids and leaves exactly the given events
\* pending next to the old ones.
LEMMA FreshRowsFacts ==
    ASSUME NEW rows \in SUBSET Row, NEW next \in Nat,
           NEW evs \in SUBSET Event, IsFiniteSet(evs), OnePerDay(evs)
    PROVE  /\ FreshRows(rows, evs, next) \subseteq Row
           /\ Cardinality(FreshEvents(rows, evs)) \in Nat
           /\ \A r \in FreshRows(rows, evs, next) :
                /\ next <= r.id
                /\ r.id < next + Cardinality(FreshEvents(rows, evs))
           /\ \A r, q \in FreshRows(rows, evs, next) : r.id = q.id => r = q
           /\ EventsOf(rows \cup FreshRows(rows, evs, next)) = EventsOf(rows) \cup evs
<1> DEFINE fresh == FreshEvents(rows, evs)
           before(e) == {f \in fresh : f.day < e.day}
           pos(e) == Cardinality(before(e))
           row(e) == [id |-> next + pos(e), ev |-> e]
<1>1. /\ fresh \in SUBSET Event
      /\ IsFiniteSet(fresh)
      /\ OnePerDay(fresh)
  BY FS_Subset DEF FreshEvents, OnePerDay
<1>2. Cardinality(fresh) \in Nat
  BY <1>1, FS_CardinalityType
<1>3. \A e \in Event : e.day \in Nat
  BY DayAssumption DEF Event, NoDay
<1>4. FreshRows(rows, evs, next) = {row(e) : e \in fresh}
  BY DEF FreshRows
<1>5. ASSUME NEW e \in fresh
      PROVE  /\ IsFiniteSet(before(e))
             /\ pos(e) \in Nat
             /\ pos(e) < Cardinality(fresh)
  <2>1. before(e) \in SUBSET fresh
    OBVIOUS
  <2>2. e \notin before(e)
    BY <1>1, <1>3
  <2>3. before(e) # fresh
    BY <2>2
  <2>4. IsFiniteSet(before(e)) /\ Cardinality(before(e)) <= Cardinality(fresh)
    BY <1>1, <2>1, FS_Subset
  <2>5. Cardinality(before(e)) # Cardinality(fresh)
    BY <1>1, <2>1, <2>3, FS_Subset
  <2>6. Cardinality(before(e)) \in Nat
    BY <2>4, FS_CardinalityType
  <2> QED
    BY <1>2, <2>4, <2>5, <2>6
<1>6. ASSUME NEW e \in fresh, NEW f \in fresh, e.day < f.day
      PROVE  pos(e) # pos(f)
  <2>1. before(e) \in SUBSET before(f)
    BY <1>1, <1>3, <1>6
  <2>2. e \in before(f) /\ e \notin before(e)
    BY <1>1, <1>3, <1>6
  <2>3. before(e) # before(f)
    BY <2>2
  <2> QED
    BY <1>5, <2>1, <2>3, FS_Subset
<1>7. /\ \A e \in fresh : pos(e) \in Nat /\ pos(e) < Cardinality(fresh)
      /\ \A e, f \in fresh : e.day < f.day => pos(e) # pos(f)
  BY <1>5, <1>6
<1> HIDE DEF pos
<1>8. /\ \A e \in fresh : /\ row(e) \in Row
                         /\ next <= row(e).id
                         /\ row(e).id < next + Cardinality(fresh)
      /\ \A e, f \in fresh : row(e).id = row(f).id => row(e) = row(f)
  <2> HIDE DEF fresh
  <2>1. ASSUME NEW e \in fresh
        PROVE  /\ row(e) \in Row
               /\ next <= row(e).id
               /\ row(e).id < next + Cardinality(fresh)
    BY <1>1, <1>2, <1>7 DEF Row
  <2>2. ASSUME NEW e \in fresh, NEW f \in fresh, row(e).id = row(f).id
        PROVE  row(e) = row(f)
    <3>1. pos(e) = pos(f)
      BY <1>7, <2>2
    <3>2. ~(e.day < f.day) /\ ~(f.day < e.day)
      BY <1>7, <3>1
    <3>3. e.day = f.day
      BY <1>1, <1>3, <3>2
    <3> QED
      BY <1>1, <3>3 DEF OnePerDay
  <2> QED
    BY <2>1, <2>2
<1>9. EventsOf(rows \cup {row(e) : e \in fresh}) = EventsOf(rows) \cup evs
  <2> HIDE DEF fresh
  <2>0. \A e \in fresh : row(e).ev = e
    OBVIOUS
  <2> HIDE DEF row
  <2>1. EventsOf({row(e) : e \in fresh}) = fresh
    BY <2>0 DEF EventsOf
  <2>2. EventsOf(rows) \cup fresh = EventsOf(rows) \cup evs
    BY DEF FreshEvents, fresh
  <2> QED
    BY <2>1, <2>2 DEF EventsOf
<1> HIDE DEF row, fresh
<1>10. /\ {row(e) : e \in fresh} \subseteq Row
       /\ \A r \in {row(e) : e \in fresh} :
             next <= r.id /\ r.id < next + Cardinality(fresh)
       /\ \A r, q \in {row(e) : e \in fresh} : r.id = q.id => r = q
  BY <1>8
<1> QED
  BY <1>2, <1>4, <1>9, <1>10 DEF fresh

\* Held rows stay good when rows leave the queue, and when rows with ids
\* from the counter on join it.
LEMMA GoodRowsShrink ==
    ASSUME NEW rows, NEW less \in SUBSET rows, NEW next
    PROVE  GoodRow(rows, next) \subseteq GoodRow(less, next)
BY DEF GoodRow

LEMMA GoodRowsGrow ==
    ASSUME NEW rows \in SUBSET Row, NEW next \in Nat, rows \subseteq GoodRow(rows, next),
           NEW evs \in SUBSET Event, IsFiniteSet(evs), OnePerDay(evs)
    PROVE  LET more  == rows \cup FreshRows(rows, evs, next)
               next2 == next + Cardinality(FreshEvents(rows, evs))
           IN  /\ more \subseteq GoodRow(more, next2)
               /\ GoodRow(rows, next) \subseteq GoodRow(more, next2)
               /\ next2 \in Nat
<1> DEFINE new == FreshRows(rows, evs, next)
           next2 == next + Cardinality(FreshEvents(rows, evs))
<1>1. /\ new \subseteq Row
      /\ Cardinality(FreshEvents(rows, evs)) \in Nat
      /\ \A r \in new : next <= r.id /\ r.id < next2
      /\ \A r, q \in new : r.id = q.id => r = q
  BY FreshRowsFacts
<1>2. next2 \in Nat /\ next <= next2
  BY <1>1
<1>0. \A r \in Row : r.id \in Nat
  BY DEF Row
<1> HIDE DEF new, next2
<1>3. GoodRow(rows, next) \subseteq GoodRow(rows \cup new, next2)
  BY <1>0, <1>1, <1>2 DEF GoodRow
<1>4. new \subseteq GoodRow(rows \cup new, next2)
  BY <1>0, <1>1, <1>2 DEF GoodRow
<1> QED
  BY <1>2, <1>3, <1>4 DEF new, next2

LEMMA LeastNatural ==
    ASSUME NEW S \in SUBSET Nat, S # {}
    PROVE  \E m \in S : \A n \in S : m <= n
<1>1. PICK m \in S : \A n \in S : ~(<<n, m>> \in OpToRel(<, Nat))
  BY NatLessThanWellFounded, WFMin
<1>2. \A n \in S : ~(n < m)
  BY <1>1 DEF OpToRel
<1> QED
  BY <1>2

\* The server keeps the version of the day's last row, whatever batch it is sent.
LEMMA LatestRow ==
    ASSUME NEW next \in Nat, NEW chunk \in SUBSET Row,
           \A r \in chunk : r.id < next,
           NEW d \in DaysOf(chunk)
    PROVE  \E r \in chunk : /\ r.ev.day = d /\ LatestVersion(chunk, d) = r.ev.ver
                            /\ \A q \in chunk : q.ev.day = d => q.id <= r.id
<1> DEFINE onDay == {r \in chunk : r.ev.day = d}
           gaps  == {next - r.id : r \in onDay}
<1>1. onDay # {}
  BY DEF DaysOf
<1>2. gaps \in SUBSET Nat /\ gaps # {}
  BY <1>1 DEF Row
<1>3. PICK r \in onDay : \A h \in gaps : next - r.id <= h
  BY <1>2, LeastNatural
<1>4. \A q \in onDay : q.id <= r.id
  BY <1>3 DEF Row
<1> QED
  BY <1>4 DEF LatestVersion

LEMMA LatestVersionType ==
    ASSUME NEW next \in Nat, NEW chunk \in SUBSET Row,
           \A r \in chunk : r.id < next,
           NEW d \in DaysOf(chunk)
    PROVE  LatestVersion(chunk, d) \in Nat
BY LatestRow DEF Row, Event

LEMMA IngestWindowType ==
    ASSUME NEW next \in Nat, NEW chunk \in SUBSET Row,
           \A r \in chunk : r.id < next,
           NEW rows \in [Day -> Nat]
    PROVE  IngestWindow(rows, chunk) \in [Day -> Nat]
<1>1. \A d \in DaysOf(chunk) : LatestVersion(chunk, d) \in Nat
  BY LatestVersionType
<1> QED
  BY <1>1 DEF IngestWindow, NoRows

LEMMA PopType ==
    ASSUME NEW S, NEW s \in Seq(S), s # <<>>
    PROVE  Head(s) \in S /\ Tail(s) \in Seq(S)
OBVIOUS

LEMMA PushType ==
    ASSUME NEW S, NEW s \in Seq(S), NEW a \in S, NEW b \in S
    PROVE  <<a, b>> \o s \in Seq(S) /\ <<a>> \in Seq(S) /\ <<a, b>> \o s # <<>>
OBVIOUS

\* Halving a chunk keeps its rows.
LEMMA HalvesType ==
    ASSUME NEW S, NEW chunk \in SUBSET S
    PROVE  /\ split_events_by_day(chunk)[1] \in SUBSET S
           /\ split_events_by_day(chunk)[2] \in SUBSET S
BY DEF split_events_by_day, LeftOf
-----------------------------------------------------------------------------
(* Type correctness.                                                       *)

Good == GoodRow(queue, nextId)

RowsGood ==
    /\ queue \subseteq Good
    /\ rest \in [Proc -> SUBSET Good]
    /\ stack \in [Proc -> Seq(SUBSET Good)]
    /\ net \subseteq SUBSET Good

FramesWellFormed ==
    \A p \in Proc :
        /\ OnePerDay(snap[p])
        /\ pc[p] \in {"upload", "receipt", "purge"} => stack[p] # <<>>

TypeInv == TypeOK /\ RowsGood /\ FramesWellFormed

LEMMA GoodInRow == Good \subseteq Row /\ \A r \in Good : r.id < nextId
BY DEF Good, GoodRow

LEMMA TypeInit == Init => TypeInv
<1> SUFFICES ASSUME Init PROVE TypeInv
  OBVIOUS
<1> USE DayAssumption, LiveAssumption
<1>1. UndecodableRow \in Row /\ UndecodableRow.id = 0
  BY DEF UndecodableRow, Row, Event
<1>2. queue \in {{}, {UndecodableRow}}
  BY DEF Init
<1>3. TypeOK
  <2>1. log \in [Day -> Nat] /\ manifest \in Nat
    BY DEF Init, NoRows
  <2>2. queue \subseteq Row
    BY <1>1, <1>2
  <2>3. stack \in [Proc -> Seq(SUBSET Row)]
    BY DEF Init
  <2> QED
    BY <2>1, <2>2, <2>3 DEF Init, TypeOK, PC, UploadPC, NoRows
<1>4. queue \subseteq Good
  BY <1>1, <1>2 DEF Init, Good, GoodRow
<1>5. RowsGood
  BY <1>4 DEF Init, RowsGood
<1>6. FramesWellFormed
  BY DEF Init, FramesWellFormed, OnePerDay
<1> QED
  BY <1>3, <1>5, <1>6 DEF TypeInv

\* Steps that leave the queue alone leave every row as good as it was.
LEMMA RowsUntouched ==
    ASSUME RowsGood, UNCHANGED <<queue, nextId, rest, stack, net>>
    PROVE  RowsGood'
BY DEF RowsGood, Good

\* So do steps that only take rows out of the queue, or only put new ones in.
LEMMA RowsPurged ==
    ASSUME RowsGood, queue' \subseteq queue, UNCHANGED nextId
    PROVE  Good \subseteq Good' /\ queue' \subseteq Good'
<1>1. Good \subseteq Good'
  BY GoodRowsShrink DEF Good
<1> QED
  BY <1>1 DEF RowsGood

LEMMA HeldStaysGood ==
    ASSUME RowsGood, Good \subseteq Good', queue' \subseteq Good',
           UNCHANGED <<rest, stack, net>>
    PROVE  RowsGood'
<1>1. Seq(SUBSET Good) \subseteq Seq(SUBSET Good')
  OBVIOUS
<1> QED
  BY <1>1 DEF RowsGood

LEMMA Enqueued ==
    ASSUME TypeInv, NEW evs \in SUBSET Event, OnePerDay(evs),
           queue' = queue \cup FreshRows(queue, evs, nextId),
           nextId' = nextId + Cardinality(FreshEvents(queue, evs)),
           UNCHANGED <<rest, stack, net>>
    PROVE  /\ queue' \subseteq Row
           /\ nextId' \in Nat
           /\ RowsGood'
<1>1. /\ queue \in SUBSET Row
      /\ nextId \in Nat
      /\ queue \subseteq GoodRow(queue, nextId)
  BY DEF TypeInv, TypeOK, RowsGood, Good
<1>2. /\ queue' \subseteq Good'
      /\ Good \subseteq Good'
      /\ nextId' \in Nat
  BY <1>1, GoodRowsGrow, OnePerDayFinite DEF Good
<1>3. queue' \subseteq Row
  BY <1>2 DEF Good, GoodRow
<1> QED
  BY <1>2, <1>3, HeldStaysGood DEF TypeInv

LEMMA CommitType ==
    ASSUME TypeInv, NEW chunk \in SUBSET Good, Commit(chunk)
    PROVE  /\ server' \in [Conn -> [Day -> Nat]]
           /\ accepted' \subseteq Event
<1> DEFINE c == (CHOOSE r \in chunk : TRUE).ev.conn
<1>1. /\ nextId \in Nat
      /\ server \in [Conn -> [Day -> Nat]]
      /\ accepted \subseteq Event
  BY DEF TypeInv, TypeOK
<1>2. chunk \in SUBSET Row /\ \A r \in chunk : r.id < nextId
  BY GoodInRow
<1>3. \A rows \in [Day -> Nat] : IngestWindow(rows, chunk) \in [Day -> Nat]
  BY <1>1, <1>2, IngestWindowType
<1>4. /\ server' = [server EXCEPT ![c] = IngestWindow(server[c], chunk)]
      /\ accepted' = accepted \cup EventsOf(chunk)
  BY DEF Commit
<1>5. EventsOf(chunk) \subseteq Event
  BY <1>2 DEF EventsOf, Row
<1> HIDE DEF c
<1> QED
  BY <1>1, <1>3, <1>4, <1>5

LEMMA TypeEnvironment == TypeInv /\ Environment => TypeInv'
<1> SUFFICES ASSUME TypeInv, Environment PROVE TypeInv'
  OBVIOUS
<1> USE DEF TypeInv
<1>1. ASSUME NEW d \in Day, LogActivity(d) \/ LogErased(d) PROVE TypeInv'
  <2>1. TypeOK'
    BY <1>1 DEF TypeOK, LogActivity, LogErased, Edit, NoRows, store, collects, flushes,
                remote, bounds
  <2>2. RowsGood'
    BY <1>1, RowsUntouched DEF LogActivity, LogErased, Edit, store, flushes, remote
  <2>3. FramesWellFormed'
    BY <1>1 DEF FramesWellFormed, LogActivity, LogErased, Edit, collects, flushes
  <2> QED
    BY <2>1, <2>2, <2>3
<1>2. ASSUME NEW days \in SUBSET Day, ImportExport(days) PROVE TypeInv'
  <2> DEFINE evs == {[conn |-> Export, day |-> d, ver |-> imports + 1] : d \in days}
  <2>1. Export \in Conn /\ imports \in Nat
    BY <1>2, BoundsAssumption DEF ImportExport, TypeOK
  <2>2. evs \in SUBSET Event /\ OnePerDay(evs)
    BY <2>1 DEF Event, OnePerDay
  <2> HIDE DEF evs
  <2>3. /\ queue' = queue \cup FreshRows(queue, evs, nextId)
        /\ nextId' = nextId + Cardinality(FreshEvents(queue, evs))
        /\ UNCHANGED <<rest, stack, net>>
    BY <1>2 DEF ImportExport, flushes, remote, evs
  <2>4. queue' \subseteq Row /\ nextId' \in Nat /\ RowsGood'
    BY <2>2, <2>3, Enqueued
  <2>5. TypeOK'
    BY <1>2, <2>4 DEF TypeOK, ImportExport, disk, collects, flushes, remote
  <2>6. FramesWellFormed'
    BY <1>2 DEF FramesWellFormed, ImportExport, collects, flushes
  <2> QED
    BY <2>4, <2>5, <2>6
<1>3. ASSUME NEW chunk \in net, LateDelivery(chunk) PROVE TypeInv'
  <2>0. Commit(chunk) /\ chunk \in SUBSET Good
    BY <1>3 DEF LateDelivery, RowsGood
  <2>1. TypeOK'
    BY <1>3, <2>0, CommitType DEF TypeOK, LateDelivery, disk, store, collects, flushes, bounds
  <2>2. RowsGood'
    BY <1>3 DEF LateDelivery, RowsGood, Good, store, flushes
  <2>3. FramesWellFormed'
    BY <1>3 DEF FramesWellFormed, LateDelivery, collects, flushes
  <2> QED
    BY <2>1, <2>2, <2>3
<1>4. CASE DeletePending
  <2>1. TypeOK'
    BY <1>4 DEF TypeOK, DeletePending, disk, collects, flushes, remote, bounds, EventsOf, Row
  <2>2. RowsGood'
    BY <1>4, RowsPurged, HeldStaysGood DEF DeletePending, flushes, remote
  <2>3. FramesWellFormed'
    BY <1>4 DEF FramesWellFormed, DeletePending, collects, flushes
  <2> QED
    BY <2>1, <2>2, <2>3
<1>5. CASE Crash
  <2>1. /\ stack' \in [Proc -> Seq(SUBSET Row)]
        /\ stack' \in [Proc -> Seq(SUBSET Good)]
    BY <1>5 DEF Crash
  <2>2. TypeOK'
    <3>1. /\ pc' \in [Proc -> PC] /\ listed' \in [Proc -> Nat] /\ attempt' \in [Proc -> Nat]
          /\ snap' \in [Proc -> SUBSET Event] /\ rest' \in [Proc -> SUBSET Row]
          /\ inFlight' \in BOOLEAN
      BY <1>5 DEF Crash, PC
    <3> QED
      BY <1>5, <2>1, <3>1 DEF TypeOK, Crash, Fault, disk, store, remote
  <2>3. RowsGood'
    BY <1>5, <2>1 DEF RowsGood, Good, Crash, store, remote
  <2>4. FramesWellFormed'
    BY <1>5 DEF FramesWellFormed, OnePerDay, Crash
  <2> QED
    BY <2>2, <2>3, <2>4
<1> QED
  BY <1>1, <1>2, <1>3, <1>4, <1>5 DEF Environment

LEMMA GotoType ==
    ASSUME TypeOK, NEW p \in Proc, NEW label \in PC, Goto(p, label)
    PROVE  pc' \in [Proc -> PC] /\ pc'[p] = label /\ \A q \in Proc \ {p} : pc'[q] = pc[q]
BY DEF TypeOK, Goto

LEMMA Labels ==
    /\ {"idle", "list", "read", "enqueue", "checkpoint", "sync"} \subseteq PC
    /\ {"flush", "upload", "receipt", "purge"} \subseteq PC
BY DEF PC, UploadPC

LEMMA TypeCollect ==
    ASSUME TypeInv, NEW p \in Proc, Collect(p)
    PROVE  TypeInv'
<1> USE Labels DEF TypeInv, store, disk, collects, flushes, remote, bounds
<1>1. CASE LoadCheckpoint(p)
  <2>1. TypeOK'
    BY <1>1, GotoType DEF TypeOK, LoadCheckpoint
  <2>2. RowsGood'
    BY <1>1, RowsUntouched DEF LoadCheckpoint
  <2>3. FramesWellFormed'
    BY <1>1, GotoType DEF FramesWellFormed, LoadCheckpoint
  <2> QED
    BY <2>1, <2>2, <2>3
<1>2. CASE NothingToCollect(p)
  <2>1. TypeOK'
    BY <1>2, GotoType DEF TypeOK, NothingToCollect
  <2>2. RowsGood'
    BY <1>2, RowsUntouched DEF NothingToCollect
  <2>3. FramesWellFormed'
    BY <1>2, GotoType DEF FramesWellFormed, NothingToCollect
  <2> QED
    BY <2>1, <2>2, <2>3
<1>3. CASE ComputeManifest(p)
  <2>1. TypeOK'
    BY <1>3, GotoType DEF TypeOK, ComputeManifest
  <2>2. RowsGood'
    BY <1>3, RowsUntouched DEF ComputeManifest
  <2>3. FramesWellFormed'
    BY <1>3, GotoType DEF FramesWellFormed, ComputeManifest
  <2> QED
    BY <2>1, <2>2, <2>3
<1>4. ASSUME NEW unreadable \in SUBSET Day, ParseFiles(p, unreadable) PROVE TypeInv'
  <2> DEFINE emitted == {LiveEvent(d) : d \in {d \in Day : log[d] # NoRows} \ unreadable}
             skipped == {LiveEvent(d) : d \in unreadable}
  <2>1. /\ emitted \subseteq Event
        /\ skipped \subseteq Event
        /\ OnePerDay(emitted)
    BY LiveAssumption DEF TypeOK, LiveEvent, Event, OnePerDay
  <2>2. /\ snap' = [snap EXCEPT ![p] = emitted]
        /\ excused' = excused \cup skipped
        /\ Goto(p, "enqueue")
        /\ imports' = imports /\ faults' \in Nat
        /\ UNCHANGED <<disk, store, listed, flushes, remote>>
    BY <1>4 DEF ParseFiles, Fault, TypeOK
  <2> HIDE DEF emitted, skipped
  <2>3. TypeOK'
    BY <2>1, <2>2, GotoType DEF TypeOK
  <2>4. RowsGood'
    BY <2>2, RowsUntouched
  <2>5. FramesWellFormed'
    BY <2>1, <2>2, GotoType DEF FramesWellFormed, TypeOK
  <2> QED
    BY <2>3, <2>4, <2>5
<1>5. CASE enqueue_events(p)
  <2>1. snap[p] \in SUBSET Event /\ OnePerDay(snap[p])
    BY DEF TypeOK, FramesWellFormed
  <2>2. queue' \subseteq Row /\ nextId' \in Nat /\ RowsGood'
    BY <1>5, <2>1, Enqueued DEF enqueue_events
  <2>3. TypeOK'
    BY <1>5, <2>2, GotoType DEF TypeOK, enqueue_events
  <2>4. FramesWellFormed'
    BY <1>5, GotoType DEF FramesWellFormed, enqueue_events
  <2> QED
    BY <2>2, <2>3, <2>4
<1>6. CASE set_checkpoint(p)
  <2>1. TypeOK'
    BY <1>6, GotoType DEF TypeOK, set_checkpoint, EndCollect
  <2>2. RowsGood'
    BY <1>6, RowsUntouched DEF set_checkpoint
  <2>3. FramesWellFormed'
    BY <1>6, GotoType DEF FramesWellFormed, set_checkpoint, EndCollect, OnePerDay, TypeOK
  <2> QED
    BY <2>1, <2>2, <2>3
<1>7. CASE CollectHeld(p)
  <2>1. TypeOK'
    BY <1>7, GotoType DEF TypeOK, CollectHeld, EndCollect, Fault
  <2>2. RowsGood'
    BY <1>7, RowsUntouched DEF CollectHeld
  <2>3. FramesWellFormed'
    BY <1>7, GotoType DEF FramesWellFormed, CollectHeld, EndCollect, OnePerDay, TypeOK
  <2> QED
    BY <2>1, <2>2, <2>3
<1> QED
  BY <1>1, <1>2, <1>3, <1>4, <1>5, <1>6, <1>7 DEF Collect

\* Ending a cycle drops its frame.
LEMMA ReleaseType ==
    ASSUME TypeInv, NEW p \in Proc, Release(p), UNCHANGED <<disk, store, collects>>,
           net' \subseteq SUBSET Good,
           net' \subseteq SUBSET Row, server' \in [Conn -> [Day -> Nat]],
           accepted' \subseteq Event, excused' \subseteq Event,
           imports' \in Nat, faults' \in Nat
    PROVE  TypeInv'
<1> USE Labels DEF TypeInv, store, disk, collects
<1>1. /\ stack' \in [Proc -> Seq(SUBSET Row)]
      /\ stack' \in [Proc -> Seq(SUBSET Good)]
  BY DEF Release, TypeOK, RowsGood
<1>2. TypeOK'
  BY <1>1, GotoType DEF TypeOK, Release
<1>3. RowsGood'
  BY <1>1 DEF RowsGood, Release, Good
<1>4. FramesWellFormed'
  BY GotoType DEF FramesWellFormed, Release, TypeOK
<1> QED
  BY <1>2, <1>3, <1>4

\* The chunk on top of the stack, and the stack without it.
LEMMA TopChunk ==
    ASSUME TypeInv, NEW p \in Proc, stack[p] # <<>>
    PROVE  /\ Chunk(p) \in SUBSET Good
           /\ Chunk(p) \in SUBSET Row
           /\ EventsOf(Chunk(p)) \in SUBSET Event
           /\ Tail(stack[p]) \in Seq(SUBSET Good)
           /\ Tail(stack[p]) \in Seq(SUBSET Row)
<1>1. stack[p] \in Seq(SUBSET Good) /\ stack[p] \in Seq(SUBSET Row)
  BY DEF TypeInv, TypeOK, RowsGood
<1>2. /\ Chunk(p) \in SUBSET Good /\ Chunk(p) \in SUBSET Row
      /\ Tail(stack[p]) \in Seq(SUBSET Good)
      /\ Tail(stack[p]) \in Seq(SUBSET Row)
  BY <1>1, PopType DEF Chunk
<1> QED
  BY <1>2 DEF EventsOf, Row

\* A chunk done with: its rows purged or left queued, the next one on top.
LEMMA PopChunkType ==
    ASSUME TypeInv, NEW p \in Proc, stack[p] # <<>>, Pop(p),
           queue' \subseteq queue,
           pc' \in [Proc -> PC], pc'[p] = "flush", \A q \in Proc \ {p} : pc'[q] = pc[q],
           UNCHANGED <<disk, checkpoint, nextId, receipts, collects, inFlight, rest>>,
           attempt' \in [Proc -> Nat],
           net' \subseteq SUBSET Good,
           net' \subseteq SUBSET Row, server' \in [Conn -> [Day -> Nat]],
           accepted' \subseteq Event, excused' \subseteq Event,
           imports' \in Nat, faults' \in Nat
    PROVE  TypeInv'
<1> USE DEF TypeInv, disk, collects
<1>1. /\ stack' \in [Proc -> Seq(SUBSET Row)]
      /\ stack' \in [Proc -> Seq(SUBSET Good)]
  BY TopChunk DEF Pop, TypeOK, RowsGood
<1>2. TypeOK'
  BY <1>1 DEF TypeOK
<1>3. Good \subseteq Good' /\ queue' \subseteq Good'
  BY RowsPurged
<1>4. Seq(SUBSET Good) \subseteq Seq(SUBSET Good')
  BY <1>3
<1>5. RowsGood'
  BY <1>1, <1>3, <1>4 DEF RowsGood
<1>6. FramesWellFormed'
  BY DEF FramesWellFormed, Pop, TypeOK
<1> QED
  BY <1>2, <1>5, <1>6

\* A chunk replaced by its two halves.
LEMMA PushHalvesType ==
    ASSUME TypeInv, NEW p \in Proc, stack[p] # <<>>, PushHalves(p),
           pc' \in [Proc -> PC], pc'[p] = "flush", \A q \in Proc \ {p} : pc'[q] = pc[q],
           UNCHANGED <<disk, store, collects, inFlight, rest, remote, excused, bounds>>,
           attempt' \in [Proc -> Nat]
    PROVE  TypeInv'
<1> USE DEF TypeInv, disk, store, collects, remote, bounds
<1> DEFINE halves == split_events_by_day(Chunk(p))
           pushed == <<halves[2], halves[1]>> \o Tail(stack[p])
<1>1. /\ halves[1] \in SUBSET Good /\ halves[2] \in SUBSET Good
      /\ halves[1] \in SUBSET Row /\ halves[2] \in SUBSET Row
  BY TopChunk, HalvesType
<1>2. stack' = [stack EXCEPT ![p] = pushed]
  BY DEF PushHalves
<1> HIDE DEF halves
<1>3. pushed \in Seq(SUBSET Row) /\ pushed \in Seq(SUBSET Good)
  BY <1>1, TopChunk, PushType
<1> HIDE DEF pushed
<1>4. TypeOK'
  BY <1>2, <1>3 DEF TypeOK
<1>5. RowsGood'
  BY <1>2, <1>3 DEF RowsGood, Good
<1>6. FramesWellFormed'
  BY <1>2 DEF FramesWellFormed, TypeOK
<1> QED
  BY <1>4, <1>5, <1>6

LEMMA TypeFlush ==
    ASSUME TypeInv, NEW p \in Proc, Flush(p)
    PROVE  TypeInv'
<1> USE Labels DEF TypeInv, store, disk, collects, flushes, remote, bounds
<1>0. /\ net \subseteq SUBSET Good /\ net \subseteq SUBSET Row
      /\ server \in [Conn -> [Day -> Nat]]
      /\ accepted \subseteq Event /\ excused \subseteq Event
      /\ imports \in Nat /\ faults \in Nat /\ attempt \in [Proc -> Nat]
      /\ pc \in [Proc -> PC]
  BY DEF TypeOK, RowsGood
<1>1. CASE StartSync(p)
  <2>1. dequeue_batch(queue, Limit) \subseteq queue
    BY DEF dequeue_batch
  <2>2. rest' \in [Proc -> SUBSET Row] /\ rest' \in [Proc -> SUBSET Good]
    BY <1>1, <2>1 DEF StartSync, TypeOK, RowsGood
  <2>3. TypeOK'
    BY <1>1, <2>2, GotoType DEF TypeOK, StartSync
  <2>4. RowsGood'
    BY <1>1, <2>2 DEF RowsGood, StartSync, Good
  <2>5. FramesWellFormed'
    BY <1>1, GotoType DEF FramesWellFormed, StartSync
  <2> QED
    BY <2>3, <2>4, <2>5
<1>2. CASE NothingToSync(p)
  <2>1. TypeOK'
    BY <1>2, GotoType DEF TypeOK, NothingToSync
  <2>2. RowsGood'
    BY <1>2, RowsUntouched DEF NothingToSync
  <2>3. FramesWellFormed'
    BY <1>2, GotoType DEF FramesWellFormed, NothingToSync
  <2> QED
    BY <2>1, <2>2, <2>3
<1>3. CASE NoToken(p)
  <2>1. TypeOK'
    BY <1>3, GotoType DEF TypeOK, NoToken, Fault
  <2>2. RowsGood'
    BY <1>3, RowsUntouched DEF NoToken
  <2>3. FramesWellFormed'
    BY <1>3, GotoType DEF FramesWellFormed, NoToken
  <2> QED
    BY <2>1, <2>2, <2>3
<1>4. CASE FinishSync(p)
  BY <1>0, <1>4, ReleaseType DEF FinishSync
<1>5. CASE TakeGroup(p)
  <2> DEFINE group == NextGroup(rest[p])
  <2>1. /\ rest[p] \in SUBSET Row /\ rest[p] \in SUBSET Good
        /\ group \subseteq rest[p]
    BY DEF TypeOK, RowsGood, NextGroup
  <2>2. /\ stack' = [stack EXCEPT ![p] = <<group>>]
        /\ rest' = [rest EXCEPT ![p] = rest[p] \ group]
        /\ UNCHANGED <<disk, store, collects, inFlight, attempt, pc, remote, excused, bounds>>
    BY <1>5 DEF TakeGroup
  <2> HIDE DEF group
  <2>3. /\ rest' \in [Proc -> SUBSET Row] /\ rest' \in [Proc -> SUBSET Good]
    BY <2>1, <2>2 DEF TypeOK, RowsGood
  <2>4. /\ stack' \in [Proc -> Seq(SUBSET Row)] /\ stack' \in [Proc -> Seq(SUBSET Good)]
    BY <2>1, <2>2 DEF TypeOK, RowsGood
  <2>5. TypeOK'
    BY <2>2, <2>3, <2>4 DEF TypeOK
  <2>6. RowsGood'
    BY <2>2, <2>3, <2>4 DEF RowsGood, Good
  <2>7. FramesWellFormed'
    BY <2>2 DEF FramesWellFormed, TypeOK
  <2> QED
    BY <2>5, <2>6, <2>7
<1>6. CASE DropEmptyBatch(p)
  <2>1. stack[p] # <<>> /\ pc[p] = "flush"
    BY <1>6 DEF DropEmptyBatch, HasChunk
  <2>2. excused' \subseteq Event
    BY <1>0, <1>6, <2>1, TopChunk DEF DropEmptyBatch
  <2> QED
    BY <1>0, <1>6, <2>1, <2>2, PopChunkType DEF DropEmptyBatch, PurgeChunk
<1>7. CASE SplitOversize(p)
  <2>1. stack[p] # <<>> /\ pc[p] = "flush"
    BY <1>7 DEF SplitOversize, HasChunk
  <2> QED
    BY <1>0, <1>7, <2>1, PushHalvesType DEF SplitOversize
<1>8. CASE SkipReceipted(p)
  <2>1. stack[p] # <<>> /\ pc[p] = "flush"
    BY <1>8 DEF SkipReceipted, HasChunk
  <2> QED
    BY <1>0, <1>8, <2>1, PopChunkType DEF SkipReceipted, PurgeChunk
<1>9. CASE StartUpload(p)
  <2>1. TypeOK'
    BY <1>9, GotoType DEF TypeOK, StartUpload
  <2>2. RowsGood'
    BY <1>9, RowsUntouched DEF StartUpload
  <2>3. FramesWellFormed'
    BY <1>9, GotoType DEF FramesWellFormed, StartUpload, HasChunk
  <2> QED
    BY <2>1, <2>2, <2>3
<1>10. CASE record_receipt(p)
  <2>1. stack[p] # <<>>
    BY <1>10 DEF record_receipt, FramesWellFormed
  <2>2. receipts' \subseteq SUBSET Event
    BY <1>10, <2>1, TopChunk DEF record_receipt, deterministic_batch_id, TypeOK
  <2>3. TypeOK'
    BY <1>10, <2>2, GotoType DEF TypeOK, record_receipt
  <2>4. RowsGood'
    BY <1>10, RowsUntouched DEF record_receipt
  <2>5. FramesWellFormed'
    BY <1>10, GotoType DEF FramesWellFormed, record_receipt
  <2> QED
    BY <2>3, <2>4, <2>5
<1>11. CASE PurgeUploaded(p)
  <2>1. stack[p] # <<>>
    BY <1>11 DEF PurgeUploaded, FramesWellFormed
  <2>2. /\ pc' \in [Proc -> PC] /\ pc'[p] = "flush"
        /\ \A q \in Proc \ {p} : pc'[q] = pc[q]
    BY <1>11, GotoType DEF PurgeUploaded
  <2> QED
    BY <1>0, <1>11, <2>1, <2>2, PopChunkType DEF PurgeUploaded, PurgeChunk
<1>12. CASE SyncStoreError(p)
  BY <1>0, <1>12, ReleaseType DEF SyncStoreError, Fault
<1> QED
  BY <1>1, <1>2, <1>3, <1>4, <1>5, <1>6, <1>7, <1>8, <1>9, <1>10, <1>11, <1>12 DEF Flush

\* What the server may have done to a request nobody waits for any more.
LEMMA UnansweredType ==
    ASSUME TypeInv, NEW chunk \in SUBSET Good, Unanswered(chunk)
    PROVE  /\ server' \in [Conn -> [Day -> Nat]]
           /\ accepted' \subseteq Event
           /\ net' \subseteq SUBSET Good
           /\ net' \subseteq SUBSET Row
<1>1. /\ net \subseteq SUBSET Good
      /\ server \in [Conn -> [Day -> Nat]]
      /\ accepted \subseteq Event
      /\ Good \subseteq Row
  BY GoodInRow DEF TypeInv, TypeOK, RowsGood
<1>2. CASE UNCHANGED remote
  BY <1>1, <1>2 DEF remote
<1>3. CASE Commit(chunk) /\ UNCHANGED net
  BY <1>1, <1>3, CommitType
<1>4. CASE net' = net \cup {chunk} /\ UNCHANGED <<server, accepted>>
  BY <1>1, <1>4
<1> QED
  BY <1>2, <1>3, <1>4 DEF Unanswered

LEMMA TypeUpload ==
    ASSUME TypeInv, NEW p \in Proc, Upload(p)
    PROVE  TypeInv'
<1> USE Labels DEF TypeInv, store, disk, collects, flushes, bounds
<1>0. /\ net \subseteq SUBSET Good /\ net \subseteq SUBSET Row
      /\ server \in [Conn -> [Day -> Nat]]
      /\ accepted \subseteq Event /\ excused \subseteq Event
      /\ imports \in Nat /\ faults \in Nat /\ attempt \in [Proc -> Nat]
      /\ pc \in [Proc -> PC]
  BY DEF TypeOK, RowsGood
<1>1. pc[p] = "upload" /\ stack[p] # <<>>
  BY DEF Upload, UploadAccepted, RetryUpload, UploadOffline, UploadUnauthorized,
         UploadDegraded, UploadSplit, Quarantine, FramesWellFormed
<1>2. Chunk(p) \in SUBSET Good /\ EventsOf(Chunk(p)) \in SUBSET Event
  BY <1>1, TopChunk
<1>3. CASE UploadAccepted(p)
  <2>1. server' \in [Conn -> [Day -> Nat]] /\ accepted' \subseteq Event
    BY <1>2, <1>3, CommitType DEF UploadAccepted
  <2>2. TypeOK'
    BY <1>3, <2>1, GotoType DEF TypeOK, UploadAccepted
  <2>3. RowsGood'
    BY <1>3, RowsUntouched DEF UploadAccepted
  <2>4. FramesWellFormed'
    BY <1>1, <1>3, GotoType DEF FramesWellFormed, UploadAccepted
  <2> QED
    BY <2>2, <2>3, <2>4
<1>4. CASE RetryUpload(p)
  <2>1. /\ server' \in [Conn -> [Day -> Nat]] /\ accepted' \subseteq Event
        /\ net' \subseteq SUBSET Good /\ net' \subseteq SUBSET Row
    BY <1>2, <1>4, UnansweredType DEF RetryUpload
  <2>2. TypeOK'
    BY <1>4, <2>1 DEF TypeOK, RetryUpload, Fault
  <2>3. RowsGood'
    BY <1>4, <2>1 DEF RowsGood, Good, RetryUpload
  <2>4. FramesWellFormed'
    BY <1>4 DEF FramesWellFormed, RetryUpload
  <2> QED
    BY <2>2, <2>3, <2>4
<1>5. CASE UploadOffline(p)
  <2>1. /\ server' \in [Conn -> [Day -> Nat]] /\ accepted' \subseteq Event
        /\ net' \subseteq SUBSET Good /\ net' \subseteq SUBSET Row
    BY <1>2, <1>5, UnansweredType DEF UploadOffline
  <2> QED
    BY <1>0, <1>5, <2>1, ReleaseType DEF UploadOffline, Fault
<1>6. CASE UploadUnauthorized(p)
  BY <1>0, <1>6, ReleaseType DEF UploadUnauthorized, Fault, remote
<1>7. CASE UploadDegraded(p)
  <2>1. /\ server' \in [Conn -> [Day -> Nat]] /\ accepted' \subseteq Event
        /\ net' \subseteq SUBSET Good /\ net' \subseteq SUBSET Row
    BY <1>0, <1>2, <1>7, UnansweredType DEF UploadDegraded, remote
  <2>2. /\ pc' \in [Proc -> PC] /\ pc'[p] = "flush"
        /\ \A q \in Proc \ {p} : pc'[q] = pc[q]
    BY <1>7, GotoType DEF UploadDegraded
  <2> QED
    <3>1. /\ Pop(p)
          /\ attempt' \in [Proc -> Nat]
          /\ imports' \in Nat /\ faults' \in Nat /\ excused' \subseteq Event
          /\ UNCHANGED <<disk, store, collects, inFlight, rest>>
      BY <1>0, <1>7 DEF UploadDegraded, Fault
    <3> QED
      BY <1>1, <2>1, <2>2, <3>1, PopChunkType
<1>8. CASE UploadSplit(p)
  <2>1. /\ pc' \in [Proc -> PC] /\ pc'[p] = "flush"
        /\ \A q \in Proc \ {p} : pc'[q] = pc[q]
    BY <1>8, GotoType DEF UploadSplit
  <2> QED
    BY <1>0, <1>1, <1>8, <2>1, PushHalvesType DEF UploadSplit
<1>9. CASE Quarantine(p)
  <2>1. /\ pc' \in [Proc -> PC] /\ pc'[p] = "flush"
        /\ \A q \in Proc \ {p} : pc'[q] = pc[q]
    BY <1>9, GotoType DEF Quarantine
  <2> QED
    BY <1>0, <1>1, <1>2, <1>9, <2>1, PopChunkType DEF Quarantine, PurgeChunk, remote
<1> QED
  BY <1>3, <1>4, <1>5, <1>6, <1>7, <1>8, <1>9 DEF Upload

LEMMA TypeStep == TypeInv /\ [Next]_vars => TypeInv'
<1>1. TypeInv /\ UNCHANGED vars => TypeInv'
  BY DEF TypeInv, TypeOK, RowsGood, Good, FramesWellFormed, vars, store, disk, collects,
         flushes, remote, bounds
<1> QED
  BY <1>1, TypeEnvironment, TypeCollect, TypeFlush, TypeUpload DEF Next

THEOREM TypeInvariance == Spec => []TypeInv
BY TypeInit, TypeStep, PTL DEF Spec

(***************************************************************************)
(* Every variable keeps its type; in particular the row ids handed out are *)
(* naturals below the counter and a batch never holds anything but rows.   *)
(***************************************************************************)
THEOREM TypeCorrect == Spec => []TypeOK
BY TypeInvariance, PTL DEF TypeInv
-----------------------------------------------------------------------------
(* Purging.                                                                *)

(***************************************************************************)
(* What a receipt, or a chunk past its 2xx, says about the server.         *)
(***************************************************************************)
AckInv ==
    /\ \A b \in receipts : b \subseteq accepted
    /\ \A p \in Proc : pc[p] \in {"receipt", "purge"} => EventsOf(Chunk(p)) \subseteq accepted

\* What no step takes back, and what a row that leaves the queue must show.
Keeps ==
    /\ accepted \subseteq accepted'
    /\ excused \subseteq excused'
    /\ \A r \in queue : r \notin queue' => r.ev \in accepted' \cup excused'

\* A purge by row id takes rows of the chunk and no others, though the queue
\* may have changed since the chunk was dequeued.
LEMMA PurgeTakesChunk ==
    ASSUME TypeInv, NEW p \in Proc, stack[p] # <<>>, PurgeChunk(p),
           NEW r \in queue, r \notin queue'
    PROVE  r.ev \in EventsOf(Chunk(p))
<1>1. PICK q \in Chunk(p) : r.id = q.id
  BY DEF PurgeChunk
<1>2. q \in Good
  BY TopChunk
<1>3. r = q
  BY <1>1, <1>2 DEF Good, GoodRow
<1> QED
  BY <1>3 DEF EventsOf

LEMMA CommitKeeps ==
    ASSUME NEW chunk, Unanswered(chunk) \/ Commit(chunk)
    PROVE  accepted \subseteq accepted'
BY DEF Unanswered, Commit, remote

LEMMA KeepsEnvironment == TypeInv /\ Environment => Keeps
<1> SUFFICES ASSUME TypeInv, Environment PROVE Keeps
  OBVIOUS
<1> USE DEF Keeps, remote, store
<1>1. ASSUME NEW d \in Day, LogActivity(d) \/ LogErased(d) PROVE Keeps
  BY <1>1 DEF LogActivity, LogErased, Edit
<1>2. ASSUME NEW days \in SUBSET Day, ImportExport(days) PROVE Keeps
  BY <1>2 DEF ImportExport
<1>3. ASSUME NEW chunk \in net, LateDelivery(chunk) PROVE Keeps
  BY <1>3, CommitKeeps DEF LateDelivery
<1>4. CASE DeletePending
  BY <1>4 DEF DeletePending, EventsOf
<1>5. CASE Crash
  BY <1>5 DEF Crash
<1> QED
  BY <1>1, <1>2, <1>3, <1>4, <1>5 DEF Environment

LEMMA KeepsCollect ==
    ASSUME NEW p \in Proc, Collect(p)
    PROVE  Keeps
<1> USE DEF Keeps, remote, store
<1>1. CASE LoadCheckpoint(p) \/ NothingToCollect(p) \/ ComputeManifest(p)
  BY <1>1 DEF LoadCheckpoint, NothingToCollect, ComputeManifest
<1>2. ASSUME NEW unreadable \in SUBSET Day, ParseFiles(p, unreadable) PROVE Keeps
  BY <1>2 DEF ParseFiles
<1>3. CASE enqueue_events(p)
  BY <1>3 DEF enqueue_events
<1>4. CASE set_checkpoint(p) \/ CollectHeld(p)
  BY <1>4 DEF set_checkpoint, CollectHeld
<1> QED
  BY <1>1, <1>2, <1>3, <1>4 DEF Collect

LEMMA KeepsFlush ==
    ASSUME TypeInv, AckInv, NEW p \in Proc, Flush(p)
    PROVE  Keeps
<1> USE DEF Keeps, remote, store
<1>1. CASE StartSync(p) \/ NothingToSync(p) \/ NoToken(p) \/ FinishSync(p) \/ TakeGroup(p)
  BY <1>1 DEF StartSync, NothingToSync, NoToken, FinishSync, TakeGroup
<1>2. CASE SplitOversize(p) \/ StartUpload(p) \/ record_receipt(p) \/ SyncStoreError(p)
  BY <1>2 DEF SplitOversize, StartUpload, record_receipt, SyncStoreError
<1>3. CASE DropEmptyBatch(p)
  BY <1>3, PurgeTakesChunk DEF DropEmptyBatch, HasChunk
<1>4. CASE SkipReceipted(p)
  <2>1. EventsOf(Chunk(p)) \subseteq accepted
    BY <1>4 DEF SkipReceipted, deterministic_batch_id, AckInv
  <2> QED
    BY <1>4, <2>1, PurgeTakesChunk DEF SkipReceipted, HasChunk
<1>5. CASE PurgeUploaded(p)
  <2>1. pc[p] = "purge" /\ stack[p] # <<>>
    BY <1>5 DEF PurgeUploaded, TypeInv, FramesWellFormed
  <2>2. EventsOf(Chunk(p)) \subseteq accepted
    BY <2>1 DEF AckInv
  <2> QED
    BY <1>5, <2>1, <2>2, PurgeTakesChunk DEF PurgeUploaded
<1> QED
  BY <1>1, <1>2, <1>3, <1>4, <1>5 DEF Flush

LEMMA KeepsUpload ==
    ASSUME TypeInv, NEW p \in Proc, Upload(p)
    PROVE  Keeps
<1> USE DEF Keeps, store
<1>1. CASE UploadAccepted(p)
  BY <1>1, CommitKeeps DEF UploadAccepted
<1>2. CASE RetryUpload(p) \/ UploadOffline(p)
  BY <1>2, CommitKeeps DEF RetryUpload, UploadOffline
<1>3. CASE UploadDegraded(p)
  BY <1>3, CommitKeeps DEF UploadDegraded, remote
<1>4. CASE UploadUnauthorized(p) \/ UploadSplit(p)
  BY <1>4 DEF UploadUnauthorized, UploadSplit, remote
<1>5. CASE Quarantine(p)
  <2>1. stack[p] # <<>>
    BY <1>5 DEF Quarantine, TypeInv, FramesWellFormed
  <2> QED
    BY <1>5, <2>1, PurgeTakesChunk DEF Quarantine, remote
<1> QED
  BY <1>1, <1>2, <1>3, <1>4, <1>5 DEF Upload

LEMMA KeepsStep == TypeInv /\ AckInv /\ [Next]_vars => Keeps
<1>1. UNCHANGED vars => Keeps
  BY DEF Keeps, vars, store, remote
<1> QED
  BY <1>1, KeepsEnvironment, KeepsCollect, KeepsFlush, KeepsUpload DEF Next

\* Nothing is newly claimed about the server.
LEMMA AckStable ==
    ASSUME AckInv, accepted \subseteq accepted', receipts' = receipts,
           \A p \in Proc : pc'[p] \in {"receipt", "purge"} =>
               pc[p] \in {"receipt", "purge"} /\ stack'[p] = stack[p]
    PROVE  AckInv'
BY DEF AckInv, Chunk

LEMMA AckCollect ==
    ASSUME TypeInv, AckInv, NEW p \in Proc, Collect(p)
    PROVE  AckInv'
<1>1. PICK label \in PC \ UploadPC : Goto(p, label)
  BY DEF Collect, LoadCheckpoint, NothingToCollect, ComputeManifest, ParseFiles,
         enqueue_events, set_checkpoint, CollectHeld, EndCollect, PC, UploadPC
<1>2. UNCHANGED <<receipts, stack, accepted>>
  BY DEF Collect, LoadCheckpoint, NothingToCollect, ComputeManifest, ParseFiles,
         enqueue_events, set_checkpoint, CollectHeld, store, flushes, remote
<1>3. label \notin {"receipt", "purge"} /\ label \in PC
  BY DEF UploadPC
<1>4. pc'[p] = label /\ \A q \in Proc \ {p} : pc'[q] = pc[q]
  BY <1>1, <1>3, GotoType DEF TypeInv
<1> QED
  BY <1>2, <1>3, <1>4, AckStable

LEMMA AckFlush ==
    ASSUME TypeInv, AckInv, NEW p \in Proc, Flush(p)
    PROVE  AckInv'
<1> USE Labels DEF store, flushes, remote
<1>1. CASE StartSync(p) \/ NothingToSync(p) \/ NoToken(p)
  BY <1>1, GotoType, AckStable DEF TypeInv, StartSync, NothingToSync, NoToken
<1>2. CASE FinishSync(p) \/ SyncStoreError(p)
  BY <1>2, GotoType, AckStable DEF TypeInv, TypeOK, FinishSync, SyncStoreError, Release
<1>3. CASE TakeGroup(p)
  BY <1>3, AckStable DEF TypeInv, TypeOK, TakeGroup
<1>4. CASE DropEmptyBatch(p) \/ SplitOversize(p) \/ SkipReceipted(p)
  BY <1>4, AckStable DEF TypeInv, TypeOK, DropEmptyBatch, SplitOversize, SkipReceipted,
                         Pop, PushHalves
<1>5. CASE StartUpload(p)
  BY <1>5, GotoType, AckStable DEF TypeInv, StartUpload
<1>6. CASE PurgeUploaded(p)
  BY <1>6, GotoType, AckStable DEF TypeInv, TypeOK, PurgeUploaded, Pop
<1>7. CASE record_receipt(p)
  <2>1. deterministic_batch_id(Chunk(p)) \subseteq accepted
    BY <1>7 DEF record_receipt, deterministic_batch_id, AckInv
  <2>2. pc'[p] = "purge" /\ \A q \in Proc \ {p} : pc'[q] = pc[q]
    BY <1>7, GotoType DEF TypeInv, record_receipt
  <2> QED
    BY <1>7, <2>1, <2>2 DEF record_receipt, AckInv, Chunk
<1> QED
  BY <1>1, <1>2, <1>3, <1>4, <1>5, <1>6, <1>7 DEF Flush

LEMMA AckUpload ==
    ASSUME TypeInv, AckInv, NEW p \in Proc, Upload(p)
    PROVE  AckInv'
<1> USE Labels DEF store, flushes
<1>0. accepted \subseteq accepted'
  BY KeepsUpload DEF Keeps
<1>1. CASE UploadAccepted(p)
  <2>1. EventsOf(Chunk(p)) \subseteq accepted'
    BY <1>1 DEF UploadAccepted, Commit
  <2>2. pc'[p] = "receipt" /\ \A q \in Proc \ {p} : pc'[q] = pc[q]
    BY <1>1, GotoType DEF TypeInv, UploadAccepted
  <2> QED
    BY <1>0, <1>1, <2>1, <2>2 DEF UploadAccepted, AckInv, Chunk
<1>2. CASE RetryUpload(p)
  BY <1>0, <1>2, AckStable DEF RetryUpload
<1>3. CASE UploadOffline(p) \/ UploadUnauthorized(p)
  BY <1>0, <1>3, GotoType, AckStable DEF TypeInv, TypeOK, UploadOffline, UploadUnauthorized,
                                         Release
<1>4. CASE UploadDegraded(p) \/ Quarantine(p)
  BY <1>0, <1>4, GotoType, AckStable DEF TypeInv, TypeOK, UploadDegraded, Quarantine, Pop
<1>5. CASE UploadSplit(p)
  BY <1>0, <1>5, GotoType, AckStable DEF TypeInv, TypeOK, UploadSplit, PushHalves
<1> QED
  BY <1>1, <1>2, <1>3, <1>4, <1>5 DEF Upload

LEMMA AckEnvironment == TypeInv /\ AckInv /\ Environment => AckInv'
<1> SUFFICES ASSUME TypeInv, AckInv, Environment PROVE AckInv'
  OBVIOUS
<1>1. accepted \subseteq accepted'
  BY KeepsEnvironment DEF Keeps
<1>2. CASE Crash
  BY <1>1, <1>2, AckStable DEF Crash, store
<1>3. CASE UNCHANGED <<pc, stack, receipts>>
  BY <1>1, <1>3, AckStable
<1> QED
  BY <1>2, <1>3 DEF Environment, LogActivity, LogErased, Edit, ImportExport, LateDelivery,
                    DeletePending, store, flushes

LEMMA AckInit == Init => AckInv
BY DEF Init, AckInv

LEMMA AckStep == TypeInv /\ AckInv /\ [Next]_vars => AckInv'
<1>1. AckInv /\ UNCHANGED vars => AckInv'
  BY DEF AckInv, Chunk, vars, store, flushes, remote
<1> QED
  BY <1>1, AckEnvironment, AckCollect, AckFlush, AckUpload DEF Next

THEOREM AckInvariance == Spec => [](TypeInv /\ AckInv)
BY TypeInit, TypeStep, AckInit, AckStep, PTL DEF Spec

(***************************************************************************)
(* Purge only after the server committed the row's content, or the agent   *)
(* or the user gave it up in the open, whatever was enqueued, deleted or   *)
(* crashed between the dequeue and the purge.                              *)
(***************************************************************************)
THEOREM PurgesAreAccounted == Spec => PurgeOnlyAccounted
<1>1. TypeInv /\ AckInv /\ [Next]_vars =>
          [\A r \in queue : r \notin queue' => r.ev \in accepted' \cup excused']_vars
  BY KeepsStep DEF Keeps
<1> QED
  BY <1>1, AckInvariance, PTL DEF Spec, PurgeOnlyAccounted
-----------------------------------------------------------------------------
(* Nothing is forgotten.                                                   *)

Accounted == EventsOf(queue) \cup accepted \cup excused

CoveredTo(m) ==
    \A d \in Day : log[d] # NoRows /\ log[d] <= m => LiveEvent(d) \in Accounted

(***************************************************************************)
(* A cycle that is about to enqueue holds every day its manifest listed;   *)
(* one that is about to advance the cursor has them all accounted for.  No *)
(* cursor, durable or carried by a cycle, is ahead of the disk, so an edit *)
(* made after it was taken is never covered by it.                         *)
(***************************************************************************)
CursorInv ==
    /\ checkpoint <= manifest
    /\ \A d \in Day : log[d] <= manifest
    /\ \A p \in Proc : listed[p] <= manifest
    /\ CoveredTo(checkpoint)
    /\ \A p \in Proc : pc[p] = "enqueue" =>
          \A d \in Day : log[d] # NoRows /\ log[d] <= listed[p] =>
              LiveEvent(d) \in snap[p] \cup excused
    /\ \A p \in Proc : pc[p] = "checkpoint" => CoveredTo(listed[p])

LEMMA AccountedGrows == Keeps => Accounted \subseteq Accounted'
BY DEF Keeps, Accounted, EventsOf

\* Steps outside collection, and those of it that drop or keep the frame.
LEMMA CursorStable ==
    ASSUME CursorInv, Keeps, UNCHANGED <<log, manifest, checkpoint>>,
           \A p \in Proc : listed'[p] <= manifest,
           \A p \in Proc : pc'[p] \in {"enqueue", "checkpoint"} =>
               pc'[p] = pc[p] /\ listed'[p] = listed[p] /\ snap'[p] = snap[p]
    PROVE  CursorInv'
<1>1. Accounted \subseteq Accounted' /\ excused \subseteq excused'
  BY AccountedGrows DEF Keeps
<1>2. \A d \in Day : LiveEvent(d)' = LiveEvent(d)
  BY DEF LiveEvent
<1>3. \A m \in {checkpoint} \cup {listed[p] : p \in Proc} : CoveredTo(m) => CoveredTo(m)'
  BY <1>1, <1>2 DEF CoveredTo
<1> QED
  BY <1>1, <1>2, <1>3 DEF CursorInv, CoveredTo

LEMMA CursorInit == Init => CursorInv
<1> SUFFICES ASSUME Init PROVE CursorInv
  OBVIOUS
<1>1. manifest \in Nat /\ checkpoint = 0
  BY DEF Init
<1>2. \A d \in Day : log[d] \in {NoRows, 1} /\ log[d] <= manifest
  BY DEF Init, NoRows
<1>3. CoveredTo(checkpoint)
  BY <1>1, <1>2 DEF CoveredTo, NoRows
<1>4. \A p \in Proc : listed[p] = 0 /\ pc[p] = "idle"
  BY DEF Init
<1> QED
  BY <1>1, <1>2, <1>3, <1>4 DEF CursorInv

\* An edit numbers its day past every cursor.
LEMMA CursorEdit ==
    ASSUME TypeInv, CursorInv, NEW d \in Day, NEW content \in {NoRows, manifest + 1},
           Edit(d, content)
    PROVE  CursorInv'
<1>1. /\ manifest \in Nat /\ checkpoint \in Nat
      /\ log \in [Day -> Nat] /\ listed \in [Proc -> Nat]
  BY DEF TypeInv, TypeOK
<1>2. /\ manifest' = manifest + 1
      /\ log' = [log EXCEPT ![d] = content]
      /\ UNCHANGED <<checkpoint, queue, listed, snap, pc, accepted, excused>>
  BY DEF Edit, store, collects, remote
<1>3. \A e \in Day : /\ log'[e] <= manifest'
                     /\ log'[e] # NoRows /\ log'[e] <= manifest => log'[e] = log[e]
  BY <1>1, <1>2 DEF CursorInv, NoRows
<1>4. Accounted' = Accounted
  BY <1>2 DEF Accounted
<1>5. \A e \in Day : log'[e] = log[e] => LiveEvent(e)' = LiveEvent(e)
  BY DEF LiveEvent
<1>6. ASSUME NEW m \in Nat, m <= manifest, CoveredTo(m)
      PROVE  \A e \in Day : log'[e] # NoRows /\ log'[e] <= m => LiveEvent(e)' \in Accounted'
  <2> TAKE e \in Day
  <2> HAVE log'[e] # NoRows /\ log'[e] <= m
  <2>1. log'[e] \in Nat
    BY <1>1, <1>2 DEF NoRows
  <2>2. log'[e] = log[e]
    BY <1>1, <1>3, <1>6, <2>1
  <2> QED
    BY <1>4, <1>5, <1>6, <2>2 DEF CoveredTo
<1>7. CoveredTo(checkpoint)'
  BY <1>1, <1>2, <1>6 DEF CursorInv, CoveredTo
<1>8. \A p \in Proc : pc'[p] = "checkpoint" => CoveredTo(listed[p])'
  BY <1>1, <1>2, <1>6 DEF CursorInv, CoveredTo
<1>9. ASSUME NEW p \in Proc, pc'[p] = "enqueue", NEW e \in Day,
             log'[e] # NoRows, log'[e] <= listed'[p]
      PROVE  LiveEvent(e)' \in snap'[p] \cup excused'
  <2>1. log'[e] \in Nat /\ listed[p] \in Nat /\ listed[p] <= manifest
    BY <1>1, <1>2 DEF CursorInv, NoRows
  <2>2. log'[e] = log[e]
    BY <1>1, <1>2, <1>3, <1>9, <2>1
  <2> QED
    BY <1>2, <1>5, <1>9, <2>2 DEF CursorInv
<1> QED
  BY <1>1, <1>2, <1>3, <1>7, <1>8, <1>9 DEF CursorInv

LEMMA CursorEnvironment ==
    ASSUME TypeInv, CursorInv, Environment
    PROVE  CursorInv'
<1>0. Keeps
  BY KeepsEnvironment
<1>1. ASSUME NEW d \in Day, LogActivity(d) \/ LogErased(d) PROVE CursorInv'
  BY <1>1, CursorEdit DEF LogActivity, LogErased
<1>2. CASE Crash
  <2>1. \A p \in Proc : pc'[p] = "idle" /\ listed'[p] = 0
    BY <1>2 DEF Crash
  <2>2. manifest \in Nat
    BY DEF TypeInv, TypeOK
  <2>3. UNCHANGED <<log, manifest, checkpoint>>
    BY <1>2 DEF Crash, disk, store
  <2> QED
    BY <1>0, <2>1, <2>2, <2>3, CursorStable
<1>3. CASE UNCHANGED <<log, manifest, checkpoint, pc, listed, snap>>
  BY <1>0, <1>3, CursorStable DEF CursorInv
<1> QED
  BY <1>1, <1>2, <1>3 DEF Environment, ImportExport, LateDelivery, DeletePending,
                          disk, store, collects

LEMMA CursorCollect ==
    ASSUME TypeInv, CursorInv, NEW p \in Proc, Collect(p)
    PROVE  CursorInv'
<1> USE Labels DEF disk, store, collects, remote
<1>0. /\ Keeps
      /\ manifest \in Nat /\ checkpoint \in Nat /\ log \in [Day -> Nat]
      /\ listed \in [Proc -> Nat] /\ snap \in [Proc -> SUBSET Event]
  BY KeepsCollect DEF TypeInv, TypeOK
<1>1. CASE LoadCheckpoint(p) \/ NothingToCollect(p) \/ ComputeManifest(p)
  <2>1. PICK label \in {"list", "sync", "read"} : Goto(p, label)
    BY <1>1 DEF LoadCheckpoint, NothingToCollect, ComputeManifest
  <2>2. pc'[p] = label /\ \A q \in Proc \ {p} : pc'[q] = pc[q]
    BY <2>1, GotoType DEF TypeInv
  <2>3. PICK m \in {checkpoint, 0, manifest} : listed' = [listed EXCEPT ![p] = m]
    BY <1>1 DEF LoadCheckpoint, NothingToCollect, ComputeManifest
  <2>4. m <= manifest
    BY <1>0 DEF CursorInv
  <2>5. UNCHANGED <<log, manifest, checkpoint, snap>>
    BY <1>1 DEF LoadCheckpoint, NothingToCollect, ComputeManifest
  <2> QED
    BY <1>0, <2>2, <2>3, <2>4, <2>5, CursorStable DEF CursorInv
<1>2. ASSUME NEW unreadable \in SUBSET Day, ParseFiles(p, unreadable) PROVE CursorInv'
  <2> DEFINE present == {d \in Day : log[d] # NoRows}
  <2>1. pc'[p] = "enqueue" /\ \A q \in Proc \ {p} : pc'[q] = pc[q]
    BY <1>2, GotoType DEF TypeInv, ParseFiles
  <2>2. /\ UNCHANGED <<log, manifest, checkpoint, listed, queue, accepted>>
        /\ snap' = [snap EXCEPT ![p] = {LiveEvent(d) : d \in present \ unreadable}]
        /\ excused' = excused \cup {LiveEvent(d) : d \in unreadable}
    BY <1>2 DEF ParseFiles
  <2>3. \A d \in Day : LiveEvent(d)' = LiveEvent(d)
    BY <2>2 DEF LiveEvent
  <2>4. \A d \in present : LiveEvent(d) \in snap'[p] \cup excused'
    BY <1>0, <2>2
  <2>5. Accounted \subseteq Accounted'
    BY <1>0, AccountedGrows
  <2>6. \A q \in Proc \ {p} : snap'[q] = snap[q]
    BY <1>0, <2>2
  <2> HIDE DEF present
  <2>7. \A m \in Nat : CoveredTo(m) => CoveredTo(m)'
    BY <2>2, <2>3, <2>5 DEF CoveredTo
  <2>8. \A d \in Day : log'[d] # NoRows => LiveEvent(d)' \in snap'[p] \cup excused'
    BY <2>2, <2>3, <2>4 DEF present
  <2>9. excused \subseteq excused'
    BY <2>2
  <2> QED
    BY <1>0, <2>1, <2>2, <2>3, <2>6, <2>7, <2>8, <2>9 DEF CursorInv, CoveredTo
<1>3. CASE enqueue_events(p)
  <2>1. /\ pc[p] = "enqueue" /\ pc'[p] = "checkpoint"
        /\ \A q \in Proc \ {p} : pc'[q] = pc[q]
    BY <1>3, GotoType DEF TypeInv, enqueue_events
  <2>2. UNCHANGED <<log, manifest, checkpoint, listed, snap, accepted, excused>>
    BY <1>3 DEF enqueue_events
  <2>3. /\ queue \in SUBSET Row /\ nextId \in Nat
        /\ snap[p] \in SUBSET Event /\ OnePerDay(snap[p])
    BY DEF TypeInv, TypeOK, FramesWellFormed
  <2>4. EventsOf(queue') = EventsOf(queue) \cup snap[p]
    BY <1>3, <2>3, OnePerDayFinite, FreshRowsFacts DEF enqueue_events
  <2>5. /\ Accounted \subseteq Accounted'
        /\ snap[p] \cup excused \subseteq Accounted'
    BY <2>2, <2>4 DEF Accounted
  <2>6. \A d \in Day : LiveEvent(d)' = LiveEvent(d)
    BY <2>2 DEF LiveEvent
  <2>7. \A m \in Nat : CoveredTo(m) => CoveredTo(m)'
    BY <2>2, <2>5, <2>6 DEF CoveredTo
  <2>8. CoveredTo(listed[p])'
    BY <2>1, <2>2, <2>5, <2>6 DEF CoveredTo, CursorInv
  <2> QED
    BY <1>0, <2>1, <2>2, <2>6, <2>7, <2>8 DEF CursorInv, CoveredTo
<1>4. CASE set_checkpoint(p)
  <2>1. /\ pc[p] = "checkpoint" /\ pc'[p] = "sync"
        /\ \A q \in Proc \ {p} : pc'[q] = pc[q]
    BY <1>4, GotoType DEF TypeInv, set_checkpoint, EndCollect
  <2>2. /\ checkpoint' = listed[p]
        /\ listed' = [listed EXCEPT ![p] = 0]
        /\ snap' = [snap EXCEPT ![p] = {}]
        /\ UNCHANGED <<log, manifest, queue, accepted, excused>>
    BY <1>4 DEF set_checkpoint, EndCollect
  <2>3. \A d \in Day : LiveEvent(d)' = LiveEvent(d)
    BY <2>2 DEF LiveEvent
  <2>4. Accounted' = Accounted
    BY <2>2 DEF Accounted
  <2>5. \A m \in Nat : CoveredTo(m) => CoveredTo(m)'
    BY <2>2, <2>3, <2>4 DEF CoveredTo
  <2>6. CoveredTo(checkpoint)'
    BY <1>0, <2>1, <2>2, <2>5 DEF CursorInv, CoveredTo
  <2>7. \A q \in Proc :
           listed'[q] <= manifest /\ (q # p => listed'[q] = listed[q] /\ snap'[q] = snap[q])
    BY <1>0, <2>2 DEF CursorInv
  <2> QED
    BY <1>0, <2>1, <2>2, <2>3, <2>5, <2>6, <2>7 DEF CursorInv, CoveredTo
<1>5. CASE CollectHeld(p)
  <2>1. pc'[p] = "sync" /\ \A q \in Proc \ {p} : pc'[q] = pc[q]
    BY <1>5, GotoType DEF TypeInv, CollectHeld, EndCollect
  <2>2. /\ listed' = [listed EXCEPT ![p] = 0]
        /\ snap' = [snap EXCEPT ![p] = {}]
        /\ UNCHANGED <<log, manifest, checkpoint>>
    BY <1>5 DEF CollectHeld, EndCollect
  <2>3. \A q \in Proc :
           listed'[q] <= manifest /\ (q # p => listed'[q] = listed[q] /\ snap'[q] = snap[q])
    BY <1>0, <2>2 DEF CursorInv
  <2> QED
    BY <1>0, <2>1, <2>2, <2>3, CursorStable
<1> QED
  BY <1>1, <1>2, <1>3, <1>4, <1>5 DEF Collect

LEMMA CursorSync ==
    ASSUME TypeInv, AckInv, CursorInv, NEW p \in Proc, Flush(p) \/ Upload(p)
    PROVE  CursorInv'
<1>0. Keeps
  BY KeepsFlush, KeepsUpload
<1>1. UNCHANGED <<log, manifest, checkpoint, listed, snap>>
  BY DEF Flush, StartSync, NothingToSync, NoToken, FinishSync, TakeGroup, DropEmptyBatch,
         SplitOversize, SkipReceipted, StartUpload, record_receipt, PurgeUploaded,
         SyncStoreError, Upload, UploadAccepted, RetryUpload, UploadOffline,
         UploadUnauthorized, UploadDegraded, UploadSplit, Quarantine,
         disk, store, collects
<1>2. pc' = pc \/ \E label \in {"idle"} \cup UploadPC : Goto(p, label)
  BY DEF Flush, StartSync, NothingToSync, NoToken, FinishSync, TakeGroup, DropEmptyBatch,
         SplitOversize, SkipReceipted, StartUpload, record_receipt, PurgeUploaded,
         SyncStoreError, Upload, UploadAccepted, RetryUpload, UploadOffline,
         UploadUnauthorized, UploadDegraded, UploadSplit, Quarantine, Release, UploadPC
<1>3. \A q \in Proc : pc'[q] \in {"enqueue", "checkpoint"} => pc'[q] = pc[q]
  BY <1>2, Labels, GotoType DEF UploadPC, TypeInv
<1> QED
  BY <1>0, <1>1, <1>3, CursorStable DEF CursorInv

LEMMA CursorStep == TypeInv /\ AckInv /\ CursorInv /\ [Next]_vars => CursorInv'
<1>1. CursorInv /\ UNCHANGED vars => CursorInv'
  BY DEF CursorInv, CoveredTo, Accounted, LiveEvent, vars, disk, store, collects, remote
<1> QED
  BY <1>1, CursorEnvironment, CursorCollect, CursorSync DEF Next

(***************************************************************************)
(* No day whose last change the collection cursor already covers is ever   *)
(* dropped without a trace: queue before checkpoint, purge after the 2xx.  *)
(***************************************************************************)
THEOREM NothingIsForgotten == Spec => []NothingForgotten
<1>1. CursorInv => NothingForgotten
  BY DEF CursorInv, CoveredTo, Accounted, NothingForgotten
<1> QED
  BY <1>1, CursorInit, CursorStep, AckInvariance, PTL DEF Spec
-----------------------------------------------------------------------------
(* The in-flight guard.                                                    *)

(***************************************************************************)
(* Rows are held for upload only while sync_once runs, sync_once runs only *)
(* with the flag set, and only one call of it runs.                        *)
(***************************************************************************)
GuardInv ==
    /\ \A p \in Proc : pc[p] \notin UploadPC => rest[p] = {} /\ stack[p] = <<>>
    /\ \A p \in Proc : pc[p] \in UploadPC => inFlight
    /\ \A p, q \in Proc : pc[p] \in UploadPC /\ pc[q] \in UploadPC => p = q

LEMMA GuardInit == Init => GuardInv
BY DEF Init, GuardInv, UploadPC

\* Steps that neither enter nor leave sync_once.
LEMMA GuardStable ==
    ASSUME GuardInv, NEW p \in Proc, inFlight' = inFlight,
           pc'[p] \in UploadPC <=> pc[p] \in UploadPC,
           pc'[p] \notin UploadPC => rest'[p] = rest[p] /\ stack'[p] = stack[p],
           \A q \in Proc \ {p} : pc'[q] = pc[q] /\ rest'[q] = rest[q] /\ stack'[q] = stack[q]
    PROVE  GuardInv'
BY DEF GuardInv, UploadPC

LEMMA GuardRelease ==
    ASSUME TypeInv, GuardInv, NEW p \in Proc, pc[p] \in UploadPC, Release(p)
    PROVE  GuardInv'
<1>1. pc'[p] = "idle" /\ \A q \in Proc \ {p} : pc'[q] = pc[q]
  BY Labels, GotoType DEF Release, TypeInv
<1>2. /\ rest'[p] = {} /\ stack'[p] = <<>>
      /\ \A q \in Proc \ {p} : rest'[q] = rest[q] /\ stack'[q] = stack[q]
  BY DEF Release, TypeInv, TypeOK
<1>3. \A q \in Proc : pc'[q] \notin UploadPC
  BY <1>1 DEF GuardInv, UploadPC
<1> QED
  BY <1>1, <1>2, <1>3 DEF GuardInv

LEMMA GuardCollect ==
    ASSUME TypeInv, GuardInv, NEW p \in Proc, Collect(p)
    PROVE  GuardInv'
<1>1. PICK label \in PC \ UploadPC : Goto(p, label)
  BY DEF Collect, LoadCheckpoint, NothingToCollect, ComputeManifest, ParseFiles,
         enqueue_events, set_checkpoint, CollectHeld, EndCollect, PC, UploadPC
<1>2. UNCHANGED <<inFlight, rest, stack>>
  BY DEF Collect, LoadCheckpoint, NothingToCollect, ComputeManifest, ParseFiles,
         enqueue_events, set_checkpoint, CollectHeld, flushes
<1>3. pc[p] \notin UploadPC
  BY DEF Collect, LoadCheckpoint, NothingToCollect, ComputeManifest, ParseFiles,
         enqueue_events, set_checkpoint, CollectHeld, UploadPC
<1>4. pc'[p] = label /\ \A q \in Proc \ {p} : pc'[q] = pc[q]
  BY <1>1, GotoType DEF TypeInv
<1> QED
  BY <1>1, <1>2, <1>3, <1>4, GuardStable

LEMMA GuardFlush ==
    ASSUME TypeInv, GuardInv, NEW p \in Proc, Flush(p)
    PROVE  GuardInv'
<1> USE Labels DEF UploadPC, collects, flushes
<1>1. CASE StartSync(p)
  <2>1. /\ pc[p] = "sync" /\ ~inFlight /\ inFlight' = TRUE
        /\ pc'[p] = "flush" /\ \A q \in Proc \ {p} : pc'[q] = pc[q]
    BY <1>1, GotoType DEF TypeInv, StartSync
  <2>2. stack' = stack /\ \A q \in Proc \ {p} : rest'[q] = rest[q]
    BY <1>1 DEF StartSync, TypeInv, TypeOK
  <2> QED
    BY <2>1, <2>2 DEF GuardInv
<1>2. CASE NothingToSync(p) \/ NoToken(p)
  <2>1. /\ pc[p] = "sync" /\ UNCHANGED <<inFlight, rest, stack>>
        /\ pc'[p] = "idle" /\ \A q \in Proc \ {p} : pc'[q] = pc[q]
    BY <1>2, GotoType DEF TypeInv, NothingToSync, NoToken
  <2> QED
    BY <2>1, GuardStable
<1>3. CASE FinishSync(p) \/ SyncStoreError(p)
  BY <1>3, GuardRelease DEF FinishSync, SyncStoreError
<1>4. CASE TakeGroup(p)
  <2>1. /\ pc[p] = "flush" /\ UNCHANGED <<inFlight, pc>>
        /\ \A q \in Proc \ {p} : rest'[q] = rest[q] /\ stack'[q] = stack[q]
    BY <1>4 DEF TypeInv, TypeOK, TakeGroup
  <2> QED
    BY <2>1, GuardStable
<1>5. CASE DropEmptyBatch(p) \/ SplitOversize(p) \/ SkipReceipted(p)
  <2>1. /\ pc[p] = "flush" /\ UNCHANGED <<inFlight, pc, rest>>
        /\ \A q \in Proc \ {p} : stack'[q] = stack[q]
    BY <1>5 DEF TypeInv, TypeOK, DropEmptyBatch, SplitOversize, SkipReceipted, Pop, PushHalves
  <2> QED
    BY <2>1, GuardStable
<1>6. CASE StartUpload(p) \/ record_receipt(p) \/ PurgeUploaded(p)
  <2>1. PICK label \in UploadPC : Goto(p, label)
    BY <1>6 DEF StartUpload, record_receipt, PurgeUploaded
  <2>2. pc[p] \in UploadPC /\ UNCHANGED <<inFlight, rest>>
    BY <1>6 DEF StartUpload, record_receipt, PurgeUploaded
  <2>3. \A q \in Proc \ {p} : stack'[q] = stack[q]
    BY <1>6 DEF StartUpload, record_receipt, PurgeUploaded, Pop, TypeInv, TypeOK
  <2>4. pc'[p] = label /\ \A q \in Proc \ {p} : pc'[q] = pc[q]
    BY <2>1, GotoType DEF TypeInv
  <2> QED
    BY <2>2, <2>3, <2>4, GuardStable
<1> QED
  BY <1>1, <1>2, <1>3, <1>4, <1>5, <1>6 DEF Flush

LEMMA GuardUpload ==
    ASSUME TypeInv, GuardInv, NEW p \in Proc, Upload(p)
    PROVE  GuardInv'
<1> USE Labels DEF UploadPC, flushes
<1>1. pc[p] = "upload"
  BY DEF Upload, UploadAccepted, RetryUpload, UploadOffline, UploadUnauthorized,
         UploadDegraded, UploadSplit, Quarantine
<1>2. CASE UploadOffline(p) \/ UploadUnauthorized(p)
  BY <1>1, <1>2, GuardRelease DEF UploadOffline, UploadUnauthorized
<1>3. CASE RetryUpload(p)
  BY <1>1, <1>3, GuardStable DEF RetryUpload
<1>4. CASE UploadAccepted(p) \/ UploadDegraded(p) \/ UploadSplit(p) \/ Quarantine(p)
  <2>1. PICK label \in UploadPC : Goto(p, label)
    BY <1>4 DEF UploadAccepted, UploadDegraded, UploadSplit, Quarantine
  <2>2. UNCHANGED <<inFlight, rest>>
    BY <1>4 DEF UploadAccepted, UploadDegraded, UploadSplit, Quarantine
  <2>3. \A q \in Proc \ {p} : stack'[q] = stack[q]
    BY <1>4 DEF UploadAccepted, UploadDegraded, UploadSplit, Quarantine, Pop, PushHalves,
               TypeInv, TypeOK
  <2>4. pc'[p] = label /\ \A q \in Proc \ {p} : pc'[q] = pc[q]
    BY <2>1, GotoType DEF TypeInv
  <2> QED
    BY <1>1, <2>2, <2>3, <2>4, GuardStable
<1> QED
  BY <1>2, <1>3, <1>4 DEF Upload

LEMMA GuardStep == TypeInv /\ GuardInv /\ [Next]_vars => GuardInv'
<1>1. GuardInv /\ (Crash \/ UNCHANGED <<pc, inFlight, rest, stack>>) => GuardInv'
  BY DEF GuardInv, Crash, UploadPC
<1>2. Environment => Crash \/ UNCHANGED <<pc, inFlight, rest, stack>>
  BY DEF Environment, LogActivity, LogErased, Edit, ImportExport, LateDelivery, DeletePending,
         flushes
<1>3. UNCHANGED vars => UNCHANGED <<pc, inFlight, rest, stack>>
  BY DEF vars, flushes
<1> QED
  BY <1>1, <1>2, <1>3, GuardCollect, GuardFlush, GuardUpload DEF Next

(***************************************************************************)
(* However many cycles overlap, no row is in the hands of two of them.     *)
(***************************************************************************)
THEOREM NoRowIsUploadedTwiceAtOnce == Spec => []NoDoubleUpload
<1>1. GuardInv => NoDoubleUpload
  <2> SUFFICES ASSUME GuardInv, NEW p \in Proc, NEW q \in Proc, p # q
               PROVE  Held(p) \cap Held(q) = {}
    BY DEF NoDoubleUpload
  <2>1. PICK r \in {p, q} : rest[r] = {} /\ stack[r] = <<>>
    BY DEF GuardInv
  <2>2. Held(r) = {}
    BY <2>1 DEF Held
  <2> QED
    BY <2>2
<1> QED
  BY <1>1, GuardInit, GuardStep, TypeInvariance, PTL DEF Spec
-----------------------------------------------------------------------------
(* The chunks of a flush stay apart.                                       *)

\* DisjointChunks, of one work stack.
Apart(s) ==
    \A i \in 1..Len(s) :
        /\ s[i] # {}
        /\ \A r, q \in s[i] : r.ev.conn = q.ev.conn
        /\ \A j \in 1..Len(s) : i # j => Window(s[i]) \cap Window(s[j]) = {}

ChunkInv == \A p \in Proc : Apart(stack[p])

\* The number of smaller days is a numbering of the days from 0 on, so some
\* day has half of the others below it.
LEMMA MedianExists ==
    ASSUME NEW days \in SUBSET Nat, IsFiniteSet(days), days # {}
    PROVE  /\ MedianDay(days) \in days
           /\ Cardinality({d \in days : d < MedianDay(days)}) = Cardinality(days) \div 2
<1> DEFINE below(b) == {d \in days : d < b}
           n == Cardinality(days)
           rank == [b \in days |-> Cardinality(below(b))]
<1>1. n \in Nat /\ n # 0
  BY FS_CardinalityType, FS_EmptySet
<1>2. ASSUME NEW b \in days
      PROVE  /\ IsFiniteSet(below(b))
             /\ Cardinality(below(b)) \in Nat
             /\ Cardinality(below(b)) < n
  <2>1. below(b) \in SUBSET days /\ b \notin below(b)
    OBVIOUS
  <2>2. below(b) # days
    BY <2>1
  <2>3. IsFiniteSet(below(b)) /\ Cardinality(below(b)) <= n /\ Cardinality(below(b)) # n
    BY <2>1, <2>2, FS_Subset
  <2> QED
    BY <1>1, <2>3, FS_CardinalityType
<1>3. ASSUME NEW a \in days, NEW b \in days, a < b
      PROVE  Cardinality(below(a)) # Cardinality(below(b))
  <2>0. \A d \in days : d \in Nat
    OBVIOUS
  <2>1. below(a) \in SUBSET below(b)
    <3>1. \A d \in days : d < a => d < b
      BY <1>3, <2>0
    <3> QED
      BY <3>1
  <2>2. a \in below(b) /\ a \notin below(a)
    BY <1>3
  <2>3. below(a) # below(b)
    BY <2>2
  <2> QED
    BY <1>2, <2>1, <2>3, FS_Subset
<1>4. rank \in [days -> 0..(n - 1)]
  BY <1>1, <1>2
<1>5. \A a, b \in days : rank[a] = rank[b] => a = b
  <2> SUFFICES ASSUME NEW a \in days, NEW b \in days, rank[a] = rank[b]
               PROVE  a = b
    OBVIOUS
  <2>1. ~(a < b) /\ ~(b < a)
    BY <1>3
  <2> QED
    BY <2>1
<1>6. rank \in Injection(days, 0..(n - 1))
  BY <1>4, <1>5 DEF Injection, IsInjective
<1>7. IsFiniteSet(0..(n - 1)) /\ Cardinality(0..(n - 1)) = n
  BY <1>1, FS_Interval
<1>8. rank \in Surjection(days, 0..(n - 1))
  BY <1>6, <1>7, FS_Injection
<1>9. n \div 2 \in 0..(n - 1)
  BY <1>1
<1>10. \E b \in days : rank[b] = n \div 2
  BY <1>8, <1>9 DEF Surjection
<1>11. \E b \in days : Cardinality(below(b)) = n \div 2
  BY <1>10
<1> QED
  BY <1>11 DEF MedianDay

\* Cutting a chunk of several days on its median day leaves two chunks that
\* are not empty, of the same source, with windows apart and inside the old one.
LEMMA HalvesApart ==
    ASSUME NEW chunk \in SUBSET Row, distinct_day_count(chunk) > 1,
           \A r, q \in chunk : r.ev.conn = q.ev.conn
    PROVE  LET halves == split_events_by_day(chunk)
           IN  /\ halves[1] # {} /\ halves[2] # {}
               /\ halves[1] \subseteq chunk /\ halves[2] \subseteq chunk
               /\ Window(halves[1]) \cap Window(halves[2]) = {}
               /\ Window(halves[1]) \subseteq Window(chunk)
               /\ Window(halves[2]) \subseteq Window(chunk)
<1> DEFINE days == DaysOf(chunk)
           b == MedianDay(days)
           left == LeftOf(chunk, b)
           right == chunk \ left
<1>1. days \in SUBSET Day /\ Day \in SUBSET Nat
  BY DayAssumption DEF DaysOf, Row, Event
<1>2. IsFiniteSet(days) /\ Cardinality(days) \in Nat /\ Cardinality(days) > 1
  BY <1>1, DayAssumption, FS_Subset, FS_CardinalityType DEF distinct_day_count
<1>3. days # {}
  BY <1>2, FS_EmptySet
<1>4. b \in days /\ Cardinality({d \in days : d < b}) = Cardinality(days) \div 2
  BY <1>1, <1>2, <1>3, MedianExists
<1>5. PICK a \in days : a < b
  <2>1. Cardinality({d \in days : d < b}) # 0
    BY <1>2, <1>4
  <2>2. {d \in days : d < b} # {}
    BY <2>1, FS_EmptySet
  <2> QED
    BY <2>2
<1> HIDE DEF b
<1>6. left # {}
  BY <1>5 DEF DaysOf, LeftOf
<1>7. right # {}
  <2>1. PICK r \in chunk : r.ev.day = b
    BY <1>4 DEF DaysOf
  <2>2. b \in Nat
    BY <1>1, <1>4
  <2>3. ~(b < b)
    BY <2>2
  <2> QED
    BY <2>1, <2>3 DEF LeftOf
<1>8. left \subseteq chunk /\ right \subseteq chunk
  BY DEF LeftOf
<1>9. /\ \A d \in DaysOf(left) : d \in days /\ d < b
      /\ \A d \in DaysOf(right) : d \in days /\ ~(d < b)
  BY DEF DaysOf, LeftOf
<1>10. \A d \in Window(left) : d < b
  <2> SUFFICES ASSUME NEW d \in Window(left) PROVE d < b
    OBVIOUS
  <2>1. PICK c \in DaysOf(left) : d <= c
    BY DEF Window
  <2>2. c \in Nat /\ d \in Nat /\ b \in Nat /\ c < b
    BY <1>1, <1>4, <1>9 DEF Window
  <2> QED
    BY <2>1, <2>2
<1>11. \A d \in Window(right) : ~(d < b)
  <2> SUFFICES ASSUME NEW d \in Window(right) PROVE ~(d < b)
    OBVIOUS
  <2>1. PICK c \in DaysOf(right) : c <= d
    BY DEF Window
  <2>2. c \in Nat /\ d \in Nat /\ b \in Nat /\ ~(c < b)
    BY <1>1, <1>4, <1>9 DEF Window
  <2> QED
    BY <2>1, <2>2
<1>12. Window(left) \subseteq Window(chunk) /\ Window(right) \subseteq Window(chunk)
  BY <1>9 DEF Window
<1>13. Window(left) \cap Window(right) = {}
  BY <1>10, <1>11
<1>14. split_events_by_day(chunk) = <<left, right>>
  BY DEF split_events_by_day, b
<1> HIDE DEF left, right
<1> QED
  BY <1>6, <1>7, <1>8, <1>12, <1>13, <1>14

\* The first connector's group is a single-source chunk of at least one row.
LEMMA GroupApart ==
    ASSUME NEW rows \in SUBSET Row, rows # {}
    PROVE  Apart(<<NextGroup(rows)>>)
<1>1. {r.id : r \in rows} \in SUBSET Nat /\ {r.id : r \in rows} # {}
  BY DEF Row
<1>2. \E r \in rows : \A q \in rows : r.id <= q.id
  <2>1. PICK m \in {r.id : r \in rows} : \A n \in {r.id : r \in rows} : m <= n
    BY <1>1, LeastNatural
  <2> QED
    BY <2>1
<1>3. Oldest(rows) \in rows
  BY <1>2 DEF Oldest
<1>4. NextGroup(rows) # {} /\ \A r, q \in NextGroup(rows) : r.ev.conn = q.ev.conn
  BY <1>3 DEF NextGroup
<1> QED
  BY <1>4 DEF Apart

LEMMA PopApart ==
    ASSUME NEW s \in Seq(SUBSET Row), s # <<>>, Apart(s)
    PROVE  Apart(Tail(s))
<1>1. Len(s) \in Nat /\ Len(s) # 0
  OBVIOUS
<1>2. Len(Tail(s)) = Len(s) - 1 /\ \A i \in 1..Len(Tail(s)) : Tail(s)[i] = s[i + 1]
  OBVIOUS
<1>3. \A i \in 1..Len(Tail(s)) : i + 1 \in 1..Len(s)
  BY <1>1, <1>2
<1> QED
  BY <1>1, <1>2, <1>3 DEF Apart

LEMMA PushApart ==
    ASSUME NEW s \in Seq(SUBSET Row), s # <<>>, Apart(s),
           distinct_day_count(Head(s)) > 1
    PROVE  LET halves == split_events_by_day(Head(s))
           IN  Apart(<<halves[2], halves[1]>> \o Tail(s))
<1> DEFINE left == split_events_by_day(Head(s))[1]
           right == split_events_by_day(Head(s))[2]
           t == <<right, left>> \o Tail(s)
<1>1. Len(s) \in Nat \ {0} /\ 1 \in 1..Len(s) /\ Head(s) = s[1] /\ s[1] \in SUBSET Row
  OBVIOUS
<1>2. /\ s[1] # {} /\ \A r, q \in s[1] : r.ev.conn = q.ev.conn
      /\ \A i \in 2..Len(s) : Window(s[1]) \cap Window(s[i]) = {}
  BY <1>1 DEF Apart
<1>3. /\ left # {} /\ right # {}
      /\ left \subseteq s[1] /\ right \subseteq s[1]
      /\ Window(left) \cap Window(right) = {}
      /\ Window(left) \subseteq Window(s[1])
      /\ Window(right) \subseteq Window(s[1])
  BY <1>1, <1>2, HalvesApart
<1> HIDE DEF left, right
<1>4. /\ Len(t) = Len(s) + 1
      /\ t[1] = right /\ t[2] = left
      /\ \A i \in 3..Len(t) : t[i] = s[i - 1] /\ i - 1 \in 2..Len(s)
  BY <1>1
<1> HIDE DEF t
<1>5. \A i \in 2..Len(s) :
         /\ s[i] # {}
         /\ \A r, q \in s[i] : r.ev.conn = q.ev.conn
         /\ \A j \in 2..Len(s) : i # j => Window(s[i]) \cap Window(s[j]) = {}
  <2>1. 2..Len(s) \subseteq 1..Len(s)
    BY <1>1
  <2> QED
    BY <2>1 DEF Apart
<1>6. \A i \in 1..Len(t) : i = 1 \/ i = 2 \/ i \in 3..Len(t)
  BY <1>1, <1>4
<1>7. \A i \in 1..Len(t) : t[i] # {} /\ \A r, q \in t[i] : r.ev.conn = q.ev.conn
  BY <1>2, <1>3, <1>4, <1>5, <1>6
<1>8. ASSUME NEW i \in 1..Len(t), NEW j \in 1..Len(t), i < j
      PROVE  Window(t[i]) \cap Window(t[j]) = {}
  <2>1. CASE i = 1 /\ j = 2
    BY <1>3, <1>4, <2>1
  <2>2. CASE i \in {1, 2} /\ j \in 3..Len(t)
    BY <1>2, <1>3, <1>4, <2>2
  <2>3. CASE i \in 3..Len(t) /\ j \in 3..Len(t)
    <3>1. /\ t[i] = s[i - 1] /\ i - 1 \in 2..Len(s)
          /\ t[j] = s[j - 1] /\ j - 1 \in 2..Len(s)
          /\ i - 1 # j - 1
      BY <1>4, <1>8, <2>3
    <3> QED
      BY <1>5, <3>1
  <2> QED
    BY <1>4, <1>6, <1>8, <2>1, <2>2, <2>3
<1>9. \A i, j \in 1..Len(t) : i # j => Window(t[i]) \cap Window(t[j]) = {}
  <2> SUFFICES ASSUME NEW i \in 1..Len(t), NEW j \in 1..Len(t), i # j
               PROVE  Window(t[i]) \cap Window(t[j]) = {}
    OBVIOUS
  <2>1. i < j \/ j < i
    OBVIOUS
  <2>2. Window(t[j]) \cap Window(t[i]) = Window(t[i]) \cap Window(t[j])
    OBVIOUS
  <2> QED
    BY <1>8, <2>1, <2>2
<1>10. Apart(t)
  BY <1>7, <1>9 DEF Apart
<1> QED
  BY <1>10 DEF t, left, right

LEMMA ChunkAt ==
    ASSUME TypeInv, ChunkInv, NEW p \in Proc, NEW s, Apart(s),
           stack' = [stack EXCEPT ![p] = s]
    PROVE  ChunkInv'
<1>1. stack'[p] = s /\ \A q \in Proc \ {p} : stack'[q] = stack[q]
  BY DEF TypeInv, TypeOK
<1> QED
  BY <1>1 DEF ChunkInv

LEMMA ChunkPop ==
    ASSUME TypeInv, ChunkInv, NEW p \in Proc, HasChunk(p), Pop(p)
    PROVE  ChunkInv'
<1>1. stack[p] \in Seq(SUBSET Row) /\ stack[p] # <<>> /\ Apart(stack[p])
  BY DEF TypeInv, TypeOK, HasChunk, ChunkInv
<1>2. stack' = [stack EXCEPT ![p] = Tail(stack[p])]
  BY DEF Pop
<1> QED
  BY <1>1, <1>2, PopApart, ChunkAt

LEMMA ChunkPush ==
    ASSUME TypeInv, ChunkInv, NEW p \in Proc, HasChunk(p), PushHalves(p),
           distinct_day_count(Chunk(p)) > 1
    PROVE  ChunkInv'
<1> DEFINE halves == split_events_by_day(Head(stack[p]))
<1>1. stack[p] \in Seq(SUBSET Row) /\ stack[p] # <<>> /\ Apart(stack[p])
  BY DEF TypeInv, TypeOK, HasChunk, ChunkInv
<1>2. Apart(<<halves[2], halves[1]>> \o Tail(stack[p]))
  BY <1>1, PushApart DEF Chunk
<1>3. stack' = [stack EXCEPT ![p] = <<halves[2], halves[1]>> \o Tail(stack[p])]
  BY DEF PushHalves, Chunk
<1> HIDE DEF halves
<1> QED
  BY <1>2, <1>3, ChunkAt

LEMMA ChunkRelease ==
    ASSUME TypeInv, ChunkInv, NEW p \in Proc, Release(p)
    PROVE  ChunkInv'
<1>1. Apart(<<>>)
  BY DEF Apart
<1> QED
  BY <1>1, ChunkAt DEF Release

LEMMA ChunkFlush ==
    ASSUME TypeInv, ChunkInv, NEW p \in Proc, Flush(p)
    PROVE  ChunkInv'
<1>1. CASE StartSync(p) \/ NothingToSync(p) \/ NoToken(p) \/ StartUpload(p) \/ record_receipt(p)
  BY <1>1 DEF StartSync, NothingToSync, NoToken, StartUpload, record_receipt, flushes, ChunkInv
<1>2. CASE FinishSync(p) \/ SyncStoreError(p)
  BY <1>2, ChunkRelease DEF FinishSync, SyncStoreError
<1>3. CASE TakeGroup(p)
  <2>1. rest[p] \in SUBSET Row /\ rest[p] # {}
    BY <1>3 DEF TakeGroup, TypeInv, TypeOK
  <2> QED
    BY <1>3, <2>1, GroupApart, ChunkAt DEF TakeGroup
<1>4. CASE DropEmptyBatch(p) \/ SkipReceipted(p)
  BY <1>4, ChunkPop DEF DropEmptyBatch, SkipReceipted
<1>5. CASE PurgeUploaded(p)
  BY <1>5, ChunkPop DEF PurgeUploaded, TypeInv, FramesWellFormed, HasChunk
<1>6. CASE SplitOversize(p)
  BY <1>6, ChunkPush DEF SplitOversize
<1> QED
  BY <1>1, <1>2, <1>3, <1>4, <1>5, <1>6 DEF Flush

LEMMA ChunkUpload ==
    ASSUME TypeInv, ChunkInv, NEW p \in Proc, Upload(p)
    PROVE  ChunkInv'
<1>1. HasChunk(p)
  BY DEF Upload, UploadAccepted, RetryUpload, UploadOffline, UploadUnauthorized,
         UploadDegraded, UploadSplit, Quarantine, TypeInv, FramesWellFormed, HasChunk
<1>2. CASE UploadAccepted(p) \/ RetryUpload(p)
  BY <1>2 DEF UploadAccepted, RetryUpload, flushes, ChunkInv
<1>3. CASE UploadOffline(p) \/ UploadUnauthorized(p)
  BY <1>3, ChunkRelease DEF UploadOffline, UploadUnauthorized
<1>4. CASE UploadDegraded(p) \/ Quarantine(p)
  BY <1>1, <1>4, ChunkPop DEF UploadDegraded, Quarantine
<1>5. CASE UploadSplit(p)
  BY <1>1, <1>5, ChunkPush DEF UploadSplit
<1> QED
  BY <1>2, <1>3, <1>4, <1>5 DEF Upload

LEMMA ChunkStep == TypeInv /\ ChunkInv /\ [Next]_vars => ChunkInv'
<1>1. Environment => Crash \/ UNCHANGED stack
  BY DEF Environment, LogActivity, LogErased, Edit, ImportExport, LateDelivery, DeletePending,
         flushes
<1>2. \A p \in Proc : Collect(p) => UNCHANGED stack
  BY DEF Collect, LoadCheckpoint, NothingToCollect, ComputeManifest, ParseFiles,
         enqueue_events, set_checkpoint, CollectHeld, flushes
<1>3. UNCHANGED vars => UNCHANGED stack
  BY DEF vars, flushes
<1>4. Crash => ChunkInv'
  BY DEF Crash, ChunkInv, Apart
<1>5. ChunkInv /\ UNCHANGED stack => ChunkInv'
  BY DEF ChunkInv
<1> QED
  BY <1>1, <1>2, <1>3, <1>4, <1>5, ChunkFlush, ChunkUpload DEF Next

(***************************************************************************)
(* The P0 invariant of sync/batch.rs for batches and splits of any size:   *)
(* the chunks waiting in one flush are of one source each, none is empty,  *)
(* and no chunk's window reaches into another's.                           *)
(***************************************************************************)
THEOREM ChunksStayApart == Spec => []DisjointChunks
<1>1. Init => ChunkInv
  BY DEF Init, ChunkInv, Apart
<1>2. ChunkInv => DisjointChunks
  BY DEF ChunkInv, Apart, DisjointChunks
<1> QED
  BY <1>1, <1>2, ChunkStep, TypeInvariance, PTL DEF Spec
-----------------------------------------------------------------------------
(* The service never goes back to an older content.                        *)

\* The rows, and the events, of the live connector that carry a day.
Dated(rows) == {r \in rows : r.ev.conn = Live /\ r.ev.day # NoDay}
DatedEvents(evs) == {e \in evs : e.conn = Live /\ e.day # NoDay}

Batch(rows) == dequeue_batch(rows, Limit)

\* One of the rows is as new a version of e's day.
Reaches(rows, e) == \E q \in Dated(rows) : q.ev.day = e.day /\ e.ver <= q.ev.ver

\* Later rows of a day are later versions of it.
Ordered(rows) ==
    \A r, q \in Dated(rows) : r.ev.day = q.ev.day /\ r.id <= q.id => r.ev.ver <= q.ev.ver

(***************************************************************************)
(* A pending row is as new as what was accepted of its day, or a row that  *)
(* goes out in the next batch.                                             *)
(***************************************************************************)
Behind(rows, evs) ==
    \A r \in Dated(rows), e \in DatedEvents(evs) :
        r.ev.day = e.day => e.ver <= r.ev.ver \/ Reaches(Batch(rows), e)

(***************************************************************************)
(* The rows a cycle holds together: with a row they include the older      *)
(* pending rows of its day, they reach what was accepted of their days,    *)
(* and they are still first in the queue unless the user emptied it.       *)
(***************************************************************************)
Together(part, rows, evs) ==
    /\ \A r \in Dated(rows), q \in Dated(part) :
          r.ev.day = q.ev.day /\ r.id <= q.id => r \in part
    /\ \A r \in Dated(part), e \in DatedEvents(evs) : r.ev.day = e.day => Reaches(part, e)
    /\ Dated(rows) = {} \/ Dated(part) \subseteq Batch(rows)

InOrder(rows, parts, evs) ==
    /\ IsFiniteSet(rows)
    /\ Ordered(rows \cup UNION parts)
    /\ Behind(rows, evs)
    /\ \A part \in parts : Together(part, rows, evs)

\* The smaller rows of a queue are dequeued first, ...
LEMMA BatchClosed ==
    ASSUME NEW rows \in SUBSET Row, IsFiniteSet(rows),
           NEW r \in rows, NEW q \in Batch(rows), r.id <= q.id
    PROVE  r \in Batch(rows)
<1> DEFINE below(t) == {x \in rows : x.id < t.id}
<1>1. \A t \in Row : t.id \in Nat
  BY DEF Row
<1>2. q \in rows /\ Cardinality(below(q)) < Limit
  BY DEF Batch, dequeue_batch
<1>3. \A x \in rows : x.id < r.id => x.id < q.id
  BY <1>1, <1>2
<1>4. below(r) \in SUBSET below(q) /\ below(q) \in SUBSET rows
  BY <1>3
<1>5. IsFiniteSet(below(q)) /\ IsFiniteSet(below(r))
      /\ Cardinality(below(r)) <= Cardinality(below(q))
  BY <1>4, FS_Subset
<1>6. Cardinality(below(r)) \in Nat /\ Cardinality(below(q)) \in Nat /\ Limit \in Nat
  BY <1>5, FS_CardinalityType, BoundsAssumption
<1>7. Cardinality(below(r)) < Limit
  BY <1>2, <1>5, <1>6
<1> QED
  BY <1>7 DEF Batch, dequeue_batch

\* ... they stay so when others leave, ...
LEMMA BatchShrinks ==
    ASSUME NEW rows \in SUBSET Row, IsFiniteSet(rows), NEW less \in SUBSET rows,
           NEW r \in less, r \in Batch(rows)
    PROVE  r \in Batch(less)
<1> DEFINE below(s) == {x \in s : x.id < r.id}
<1>1. Cardinality(below(rows)) < Limit
  BY DEF Batch, dequeue_batch
<1>2. below(less) \in SUBSET below(rows) /\ below(rows) \in SUBSET rows
  OBVIOUS
<1>3. IsFiniteSet(below(rows)) /\ IsFiniteSet(below(less))
      /\ Cardinality(below(less)) <= Cardinality(below(rows))
  BY <1>2, FS_Subset
<1>4. /\ Cardinality(below(less)) \in Nat /\ Cardinality(below(rows)) \in Nat
      /\ Limit \in Nat
  BY <1>3, FS_CardinalityType, BoundsAssumption
<1>5. Cardinality(below(less)) < Limit
  BY <1>1, <1>3, <1>4
<1> QED
  BY <1>5 DEF Batch, dequeue_batch

\* ... and when rows with larger ids join.
LEMMA BatchGrows ==
    ASSUME NEW rows \in SUBSET Row, NEW new \in SUBSET Row,
           \A r \in rows, n \in new : r.id < n.id
    PROVE  Batch(rows) \subseteq Batch(rows \cup new)
<1> SUFFICES ASSUME NEW r \in Batch(rows) PROVE r \in Batch(rows \cup new)
  OBVIOUS
<1>1. r \in rows /\ Cardinality({q \in rows : q.id < r.id}) < Limit
  BY DEF Batch, dequeue_batch
<1>2. \A n \in new : ~(n.id < r.id)
  BY <1>1 DEF Row
<1>3. {q \in rows \cup new : q.id < r.id} = {q \in rows : q.id < r.id}
  BY <1>2
<1> QED
  BY <1>1, <1>3 DEF Batch, dequeue_batch

\* Fewer parts, or parts of parts that keep a day's rows together.
LEMMA OrderOfParts ==
    ASSUME NEW rows \in SUBSET Row, NEW parts, NEW evs, InOrder(rows, parts, evs),
           NEW fewer,
           \A part \in fewer : part = {} \/ \E whole \in parts :
               /\ part \subseteq whole
               /\ \A r \in Dated(part), q \in Dated(whole) : r.ev.day = q.ev.day => q \in part
    PROVE  InOrder(rows, fewer, evs)
<1>1. UNION fewer \subseteq UNION parts
  OBVIOUS
<1>2. Ordered(rows \cup UNION fewer)
  BY <1>1 DEF InOrder, Ordered, Dated
<1>3. ASSUME NEW part \in fewer PROVE Together(part, rows, evs)
  <2>1. CASE part = {}
    BY <2>1 DEF Together, Dated
  <2>2. ASSUME NEW whole \in parts, part \subseteq whole,
               \A r \in Dated(part), q \in Dated(whole) : r.ev.day = q.ev.day => q \in part
        PROVE  Together(part, rows, evs)
    <3>1. Together(whole, rows, evs)
      BY DEF InOrder
    <3>2. Dated(part) \subseteq Dated(whole)
      BY <2>2 DEF Dated
    <3>3. ASSUME NEW r \in Dated(rows), NEW q \in Dated(part),
                 r.ev.day = q.ev.day, r.id <= q.id
          PROVE  r \in part
      <4>1. r \in whole
        BY <3>1, <3>2, <3>3 DEF Together
      <4>2. r \in Dated(whole)
        BY <4>1 DEF Dated
      <4> QED
        BY <2>2, <3>3, <4>2
    <3>4. ASSUME NEW r \in Dated(part), NEW e \in DatedEvents(evs), r.ev.day = e.day
          PROVE  Reaches(part, e)
      <4>1. PICK q \in Dated(whole) : q.ev.day = e.day /\ e.ver <= q.ev.ver
        BY <3>1, <3>2, <3>4 DEF Together, Reaches
      <4>2. q \in part
        BY <2>2, <3>4, <4>1
      <4> QED
        BY <4>1, <4>2 DEF Reaches, Dated
    <3>5. Dated(rows) = {} \/ Dated(part) \subseteq Batch(rows)
      BY <3>1, <3>2 DEF Together
    <3> QED
      BY <3>3, <3>4, <3>5 DEF Together
  <2> QED
    BY <2>1, <2>2
<1> QED
  BY <1>2, <1>3 DEF InOrder

\* A batch is dequeued.
LEMMA OrderOfBatch ==
    ASSUME NEW rows \in SUBSET Row, NEW parts, NEW evs, InOrder(rows, parts, evs),
           \A r \in Row : r.ev.ver \in Nat
    PROVE  InOrder(rows, {Batch(rows)}, evs)
<1>1. Batch(rows) \subseteq rows
  BY DEF Batch, dequeue_batch
<1>2. IsFiniteSet(rows) /\ Ordered(rows) /\ Behind(rows, evs)
  BY DEF InOrder, Ordered, Dated
<1>3. Ordered(rows \cup UNION {Batch(rows)})
  BY <1>1, <1>2 DEF Ordered, Dated
<1>4. \A r \in Dated(rows), q \in Dated(Batch(rows)) : r.id <= q.id => r \in Batch(rows)
  BY <1>2, BatchClosed DEF Dated
<1>5. ASSUME NEW r \in Dated(Batch(rows)), NEW e \in DatedEvents(evs), r.ev.day = e.day
      PROVE  Reaches(Batch(rows), e)
  <2>1. r \in Dated(rows)
    BY <1>1 DEF Dated
  <2>2. e.ver <= r.ev.ver \/ Reaches(Batch(rows), e)
    BY <1>2, <1>5, <2>1 DEF Behind
  <2> QED
    BY <1>5, <2>2 DEF Reaches
<1>6. Dated(Batch(rows)) \subseteq Batch(rows)
  BY DEF Dated
<1> QED
  BY <1>2, <1>3, <1>4, <1>5, <1>6 DEF InOrder, Together

\* The user empties the queue.
LEMMA OrderOfNothing ==
    ASSUME NEW rows, NEW parts, NEW evs, InOrder(rows, parts, evs)
    PROVE  InOrder({}, parts, evs)
<1>1. IsFiniteSet({})
  BY FS_EmptySet
<1>2. Dated({}) = {}
  BY DEF Dated
<1> QED
  BY <1>1, <1>2 DEF InOrder, Ordered, Behind, Together, Dated

\* A chunk is committed.
LEMMA OrderOfCommit ==
    ASSUME NEW rows \in SUBSET Row, NEW parts, NEW evs, NEW chunk \in SUBSET Row,
           InOrder(rows, parts \cup {chunk}, evs),
           \A part \in parts : \A r \in Dated(part), q \in Dated(chunk) : r.ev.day # q.ev.day
    PROVE  InOrder(rows, parts \cup {chunk}, evs \cup EventsOf(chunk))
<1> DEFINE evs2 == evs \cup EventsOf(chunk)
<1>1. \A e \in DatedEvents(evs2) :
         e \in DatedEvents(evs) \/ \E x \in Dated(chunk) : x.ev = e
  BY DEF DatedEvents, EventsOf, Dated
<1>2. \A x \in Dated(chunk) : Reaches(chunk, x.ev)
  BY DEF Reaches, Dated, Row, Event
<1>3. Together(chunk, rows, evs)
  BY DEF InOrder
<1>4. ASSUME NEW r \in Dated(rows), NEW e \in DatedEvents(evs2), r.ev.day = e.day
      PROVE  e.ver <= r.ev.ver \/ Reaches(Batch(rows), e)
  <2>1. CASE e \in DatedEvents(evs)
    BY <1>4, <2>1 DEF InOrder, Behind
  <2>2. ASSUME NEW x \in Dated(chunk), x.ev = e PROVE Reaches(Batch(rows), e)
    <3>1. Dated(chunk) \subseteq Batch(rows)
      BY <1>3 DEF Together
    <3>2. x \in Dated(Batch(rows))
      BY <3>1 DEF Dated
    <3>3. x.ev.ver <= x.ev.ver
      BY DEF Dated, Row, Event
    <3> QED
      BY <2>2, <3>2, <3>3 DEF Reaches
  <2> QED
    BY <1>1, <2>1, <2>2
<1>5. ASSUME NEW part \in parts \cup {chunk}, NEW r \in Dated(part),
             NEW e \in DatedEvents(evs2), r.ev.day = e.day
      PROVE  Reaches(part, e)
  <2>1. CASE e \in DatedEvents(evs)
    BY <1>5, <2>1 DEF InOrder, Together
  <2>2. ASSUME NEW x \in Dated(chunk), x.ev = e PROVE Reaches(part, e)
    <3>1. part = chunk
      BY <1>5, <2>2
    <3> QED
      BY <1>2, <2>2, <3>1
  <2> QED
    BY <1>1, <2>1, <2>2
<1>6. \A part \in parts \cup {chunk} : Together(part, rows, evs2)
  BY <1>5 DEF InOrder, Together
<1> QED
  BY <1>4, <1>6 DEF InOrder, Behind

\* A chunk is purged by row id.
LEMMA OrderOfPurge ==
    ASSUME NEW rows \in SUBSET Row, NEW parts, NEW evs \in SUBSET Event, NEW chunk \in SUBSET Row,
           InOrder(rows, parts \cup {chunk}, evs),
           \A part \in parts : part \subseteq Row,
           \A part \in parts : \A r \in Dated(part), q \in Dated(chunk) : r.ev.day # q.ev.day,
           \A r \in rows, q \in chunk : r.id = q.id => r = q,
           \A r, q \in rows : r.id = q.id => r = q
    PROVE  InOrder({r \in rows : \A q \in chunk : r.id # q.id}, parts, evs)
<1> DEFINE less == {r \in rows : \A q \in chunk : r.id # q.id}
<1>0. /\ less \in SUBSET rows /\ IsFiniteSet(rows) /\ IsFiniteSet(less)
      /\ \A r \in rows : r \in less \/ r \in chunk
      /\ \A r \in less : r \notin chunk
  BY FS_Subset DEF InOrder
<1>1. Ordered(less \cup UNION parts)
  BY <1>0 DEF InOrder, Ordered, Dated
<1> HIDE DEF less
<1>2. ASSUME NEW r \in Dated(less), NEW e \in DatedEvents(evs), r.ev.day = e.day
      PROVE  e.ver <= r.ev.ver \/ Reaches(Batch(less), e)
  <2>1. r \in Dated(rows) /\ r \in less
    BY <1>0 DEF Dated
  <2>2. e.ver <= r.ev.ver \/ Reaches(Batch(rows), e)
    BY <1>2, <2>1 DEF InOrder, Behind
  <2>3. ASSUME NEW q \in Dated(Batch(rows)), q.ev.day = e.day, e.ver <= q.ev.ver,
               ~(e.ver <= r.ev.ver)
        PROVE  Reaches(Batch(less), e)
    <3>1. q \in rows /\ q \in Dated(rows) /\ q \in Batch(rows)
      BY DEF Dated, Batch, dequeue_batch
    <3>2. e.ver \in Nat /\ r.ev.ver \in Nat /\ q.ev.ver \in Nat /\ r.id \in Nat /\ q.id \in Nat
      BY <2>1, <3>1 DEF Dated, DatedEvents, Row, Event
    <3>3. ~(q.ev.ver <= r.ev.ver)
      BY <2>3, <3>2
    <3>4. ~(q.id <= r.id)
      BY <1>2, <2>1, <2>3, <3>1, <3>3 DEF InOrder, Ordered, Dated
    <3>5. r.id <= q.id
      BY <3>2, <3>4
    <3>6. q \notin chunk
      <4>1. SUFFICES ASSUME q \in chunk PROVE FALSE
        OBVIOUS
      <4>2. q \in Dated(chunk)
        BY <3>1, <4>1 DEF Dated
      <4>3. Together(chunk, rows, evs)
        BY DEF InOrder
      <4>4. r \in chunk
        BY <1>2, <2>1, <2>3, <3>5, <4>2, <4>3 DEF Together
      <4> QED
        BY <1>0, <2>1, <4>4
    <3>7. q \in less
      BY <1>0, <3>1, <3>6
    <3>8. q \in Batch(less)
      BY <1>0, <3>1, <3>7, BatchShrinks
    <3> QED
      BY <2>3, <3>1, <3>8 DEF Reaches, Dated
  <2> QED
    BY <2>2, <2>3 DEF Reaches
<1>3. ASSUME NEW part \in parts PROVE Together(part, less, evs)
  <2>1. Together(part, rows, evs)
    BY DEF InOrder
  <2>2. Dated(less) \subseteq Dated(rows)
    BY <1>0 DEF Dated
  <2>3. Dated(less) = {} \/ Dated(part) \subseteq Batch(less)
    <3> SUFFICES ASSUME NEW r \in Dated(part), Dated(less) # {} PROVE r \in Batch(less)
      OBVIOUS
    <3>1. r \in Batch(rows)
      BY <2>1, <2>2 DEF Together
    <3>2. r \in rows /\ r \in Row
      BY <3>1 DEF Batch, dequeue_batch
    <3>3. r \notin chunk
      BY <3>2 DEF Dated
    <3> QED
      BY <1>0, <3>1, <3>2, <3>3, BatchShrinks
  <2> QED
    BY <2>1, <2>2, <2>3 DEF Together
<1>4. Behind(less, evs)
  BY <1>2 DEF Behind
<1>5. InOrder(less, parts, evs)
  BY <1>0, <1>1, <1>3, <1>4 DEF InOrder
<1> QED
  BY <1>5 DEF less

(***************************************************************************)
(* Rows join the queue: an import at any time, a collection pass when the  *)
(* cycle holds nothing, with the newest versions there are.                *)
(***************************************************************************)
LEMMA OrderOfGrowth ==
    ASSUME NEW rows \in SUBSET Row, NEW parts, NEW evs, InOrder(rows, parts, evs),
           NEW new \in SUBSET Row, IsFiniteSet(new),
           \A part \in parts : part \subseteq Row,
           \A r \in rows \cup UNION parts, n \in new : r.id < n.id,
           \/ Dated(new) = {}
           \/ /\ \A part \in parts : part = {}
              /\ \A n \in Dated(new), r \in Dated(rows) :
                    n.ev.day = r.ev.day => r.ev.ver <= n.ev.ver
              /\ \A n \in Dated(new), e \in DatedEvents(evs) :
                    n.ev.day = e.day => e.ver <= n.ev.ver
              /\ \A n, m \in Dated(new) : n.ev.day = m.ev.day => n.ev.ver = m.ev.ver
    PROVE  InOrder(rows \cup new, parts, evs)
<1>1. IsFiniteSet(rows \cup new)
  BY FS_Union DEF InOrder
<1>2. Batch(rows) \subseteq Batch(rows \cup new)
  BY BatchGrows
<1>3. \A e : Reaches(Batch(rows), e) => Reaches(Batch(rows \cup new), e)
  BY <1>2 DEF Reaches, Dated
<1>4. \A r \in Row : r.id \in Nat /\ r.ev.ver \in Nat
  BY DEF Row, Event
<1>5. Dated(rows \cup new) = Dated(rows) \cup Dated(new)
  BY DEF Dated
<1>6. CASE Dated(new) = {}
  <2>1. Dated((rows \cup new) \cup UNION parts) = Dated(rows \cup UNION parts)
    BY <1>6 DEF Dated
  <2>2. Ordered((rows \cup new) \cup UNION parts)
    BY <2>1 DEF InOrder, Ordered
  <2>3. Behind(rows \cup new, evs)
    BY <1>3, <1>5, <1>6 DEF InOrder, Behind
  <2>4. \A part \in parts : Together(part, rows \cup new, evs)
    BY <1>2, <1>5, <1>6 DEF InOrder, Together
  <2> QED
    BY <1>1, <2>2, <2>3, <2>4 DEF InOrder
<1>7. CASE /\ \A part \in parts : part = {}
           /\ \A n \in Dated(new), r \in Dated(rows) :
                 n.ev.day = r.ev.day => r.ev.ver <= n.ev.ver
           /\ \A n \in Dated(new), e \in DatedEvents(evs) :
                 n.ev.day = e.day => e.ver <= n.ev.ver
           /\ \A n, m \in Dated(new) : n.ev.day = m.ev.day => n.ev.ver = m.ev.ver
  <2>1. (rows \cup new) \cup UNION parts = rows \cup new
    BY <1>7
  <2>2. \A r, q \in Dated(rows) : r.ev.day = q.ev.day /\ r.id <= q.id => r.ev.ver <= q.ev.ver
    BY DEF InOrder, Ordered, Dated
  <2>3. \A n \in Dated(new), r \in Dated(rows) : ~(n.id <= r.id) /\ n.ev.ver <= n.ev.ver
    <3> SUFFICES ASSUME NEW n \in Dated(new), NEW r \in Dated(rows)
                 PROVE  ~(n.id <= r.id) /\ n.ev.ver <= n.ev.ver
      OBVIOUS
    <3>1. n \in new /\ r \in rows /\ r.id < n.id
      BY DEF Dated
    <3>2. n.id \in Nat /\ r.id \in Nat /\ n.ev.ver \in Nat
      BY <1>4, <3>1
    <3> QED
      BY <3>1, <3>2
  <2>4. \A n, m \in Dated(new) : n.ev.day = m.ev.day => n.ev.ver <= m.ev.ver
    BY <1>4, <1>7 DEF Dated
  <2>5. Ordered(rows \cup new)
    BY <1>5, <1>7, <2>2, <2>3, <2>4 DEF Ordered
  <2>6. Behind(rows \cup new, evs)
    BY <1>3, <1>5, <1>7 DEF InOrder, Behind
  <2>7. \A part \in parts : Together(part, rows \cup new, evs)
    BY <1>7 DEF Together, Dated
  <2> QED
    BY <1>1, <2>1, <2>5, <2>6, <2>7 DEF InOrder
<1> QED
  BY <1>6, <1>7

\* One cycle at a time, no request that arrives late, imports of their own source.
OneCycle == (\A p, q \in Proc : p = q) /\ ~MayDelay /\ Export # Live

\* What a cycle works through: the rows not grouped yet, and the chunks.
Parts(p) == {rest[p]} \cup {stack[p][i] : i \in 1..Len(stack[p])}

\* The versions that wait anywhere or were accepted, and the dated ones.
Pool(p) == EventsOf(queue \cup UNION Parts(p)) \cup accepted \cup snap[p]
Known(p) == DatedEvents(Pool(p))

(***************************************************************************)
(* No version is newer than the log it was read from, and what was just    *)
(* read is the newest of its day.                                          *)
(***************************************************************************)
VersionInv ==
    /\ \A d \in Day : log[d] <= manifest
    /\ \A p \in Proc : \A e \in Known(p) :
          /\ e.ver <= manifest
          /\ log[e.day] = NoRows \/ e.ver <= log[e.day]
    /\ \A p \in Proc : snap[p] # {} => pc[p] \in {"enqueue", "checkpoint"}
    /\ \A p \in Proc : \A s \in snap[p], e \in Known(p) : e.day = s.day => e.ver <= s.ver

\* What waits is made of rows, what is known of dated live events.
LEMMA KnownType ==
    ASSUME TypeInv, NEW p \in Proc
    PROVE  /\ Known(p) \subseteq Event
           /\ \A e \in Known(p) : e.conn = Live /\ e.day \in Day /\ e.ver \in Nat
           /\ \A part \in Parts(p) : part \subseteq Good /\ part \subseteq Row
<1>1. \A i \in 1..Len(stack[p]) : stack[p][i] \in SUBSET Good
  BY DEF TypeInv, RowsGood
<1>2. \A part \in Parts(p) : part \subseteq Good /\ part \subseteq Row
  BY <1>1, GoodInRow DEF Parts, TypeInv, RowsGood
<1>3. EventsOf(queue \cup UNION Parts(p)) \subseteq Event
  BY <1>2 DEF EventsOf, TypeInv, TypeOK, Row
<1>4. Known(p) \subseteq Event
  BY <1>3 DEF Known, Pool, DatedEvents, TypeInv, TypeOK
<1> QED
  BY <1>2, <1>4 DEF Known, Pool, DatedEvents, Event

\* Steps that read no log and make no version.
LEMMA VersionStable ==
    ASSUME VersionInv, UNCHANGED <<log, manifest>>,
           \A p \in Proc : /\ snap'[p] \in {snap[p], {}}
                           /\ snap'[p] # {} /\ pc[p] \in {"enqueue", "checkpoint"} =>
                                 pc'[p] \in {"enqueue", "checkpoint"}
                           /\ Known(p)' \subseteq Known(p)
    PROVE  VersionInv'
<1>1. \A p \in Proc : \A s \in snap'[p] : s \in snap[p]
  OBVIOUS
<1>2. \A p \in Proc : \A e \in Known(p)' : e \in Known(p)
  OBVIOUS
<1>3. \A p \in Proc : snap'[p] # {} => pc'[p] \in {"enqueue", "checkpoint"}
  BY DEF VersionInv
<1>4. \A d \in Day : log'[d] <= manifest'
  BY DEF VersionInv
<1>5. \A p \in Proc : \A e \in Known(p)' :
          /\ e.ver <= manifest'
          /\ log'[e.day] = NoRows \/ e.ver <= log'[e.day]
  BY <1>2 DEF VersionInv
<1>6. \A p \in Proc : \A s \in snap'[p], e \in Known(p)' : e.day = s.day => e.ver <= s.ver
  BY <1>1, <1>2 DEF VersionInv
<1> QED
  BY <1>3, <1>4, <1>5, <1>6 DEF VersionInv

LEMMA KnownStable ==
    ASSUME NEW p \in Proc,
           EventsOf(queue') \subseteq Pool(p),
           EventsOf(UNION Parts(p)') \subseteq Pool(p),
           accepted' \subseteq Pool(p),
           snap'[p] \subseteq snap[p]
    PROVE  Known(p)' \subseteq Known(p)
<1>1. EventsOf(queue' \cup UNION Parts(p)') = EventsOf(queue') \cup EventsOf(UNION Parts(p)')
  BY DEF EventsOf
<1> QED
  BY <1>1 DEF Known, Pool, DatedEvents

LEMMA VersionInit == Init => VersionInv
<1> SUFFICES ASSUME Init PROVE VersionInv
  OBVIOUS
<1>1. \A p \in Proc : Parts(p) = {{}}
  BY DEF Init, Parts
<1>2. \A p \in Proc : Known(p) = {}
  BY <1>1 DEF Init, Known, Pool, DatedEvents, EventsOf, UndecodableRow
<1>3. \A d \in Day : log[d] <= manifest
  BY DEF Init, NoRows
<1> QED
  BY <1>2, <1>3 DEF Init, VersionInv

\* The day's log becomes the newest content there is, or there is none.
LEMMA VersionEdit ==
    ASSUME TypeInv, VersionInv, NEW d \in Day, LogActivity(d) \/ LogErased(d)
    PROVE  VersionInv'
<1>1. /\ manifest' = manifest + 1
      /\ log' = [log EXCEPT ![d] = manifest + 1] \/ log' = [log EXCEPT ![d] = NoRows]
      /\ UNCHANGED <<queue, rest, stack, snap, pc, accepted>>
  BY DEF LogActivity, LogErased, Edit, store, collects, flushes, remote
<1>2. log \in [Day -> Nat] /\ manifest \in Nat
  BY DEF TypeInv, TypeOK
<1>3. \A p \in Proc : Known(p)' = Known(p)
  BY <1>1 DEF Known, Pool, Parts
<1>4. \A c \in Day : log'[c] <= manifest'
  BY <1>1, <1>2 DEF VersionInv, NoRows
<1>5. \A p \in Proc : \A e \in Known(p) :
          /\ e.ver <= manifest'
          /\ log'[e.day] = NoRows \/ e.ver <= log'[e.day]
  <2> SUFFICES ASSUME NEW p \in Proc, NEW e \in Known(p)
               PROVE  e.ver <= manifest' /\ (log'[e.day] = NoRows \/ e.ver <= log'[e.day])
    OBVIOUS
  <2>1. e.day \in Day /\ e.ver \in Nat
    BY KnownType
  <2>2. e.ver <= manifest /\ (log[e.day] = NoRows \/ e.ver <= log[e.day])
    BY DEF VersionInv
  <2>3. e.ver <= manifest + 1
    BY <1>2, <2>1, <2>2
  <2> QED
    BY <1>1, <1>2, <2>1, <2>2, <2>3
<1> QED
  BY <1>1, <1>3, <1>4, <1>5 DEF VersionInv

\* A pass reads the newest version of every day that has one.
LEMMA VersionParse ==
    ASSUME TypeInv, VersionInv, NEW p \in Proc, NEW unreadable \in SUBSET Day,
           ParseFiles(p, unreadable)
    PROVE  VersionInv'
<1> DEFINE present == {d \in Day : log[d] # NoRows}
           new == {LiveEvent(d) : d \in present \ unreadable}
<1>1. /\ UNCHANGED <<log, manifest, queue, rest, stack, accepted>>
      /\ snap'[p] = new
      /\ \A q \in Proc \ {p} : snap'[q] = snap[q]
      /\ pc'[p] = "enqueue" /\ \A q \in Proc \ {p} : pc'[q] = pc[q]
  BY GotoType DEF ParseFiles, TypeInv, TypeOK, disk, store, flushes, remote, PC
<1>2. \A q \in Proc \ {p} : Known(q)' = Known(q)
  BY <1>1 DEF Known, Pool, Parts
<1>3. log \in [Day -> Nat] /\ manifest \in Nat
  BY DEF TypeInv, TypeOK
<1>4. \A e \in new : e.day \in Day /\ log[e.day] # NoRows /\ e.ver = log[e.day]
  BY DEF LiveEvent
<1> HIDE DEF new
<1>5. \A e \in Known(p)' : e \in Known(p) \/ e \in new
  BY <1>1 DEF Known, Pool, Parts, DatedEvents
<1>6. \A e \in Known(p)' : /\ e.ver <= manifest
                           /\ log[e.day] = NoRows \/ e.ver <= log[e.day]
  BY <1>3, <1>4, <1>5 DEF VersionInv
<1>7. \A s \in new, e \in Known(p)' : e.day = s.day => e.ver <= s.ver
  BY <1>4, <1>6
<1>8. \A q \in Proc : snap'[q] # {} => pc'[q] \in {"enqueue", "checkpoint"}
  BY <1>1 DEF VersionInv
<1>9. \A q \in Proc : \A e \in Known(q)' : /\ e.ver <= manifest'
                                           /\ log'[e.day] = NoRows \/ e.ver <= log'[e.day]
  BY <1>1, <1>2, <1>6 DEF VersionInv
<1>10. \A q \in Proc : \A s \in snap'[q], e \in Known(q)' : e.day = s.day => e.ver <= s.ver
  BY <1>1, <1>2, <1>7 DEF VersionInv
<1>11. \A d \in Day : log'[d] <= manifest'
  BY <1>1 DEF VersionInv
<1> QED
  BY <1>8, <1>9, <1>10, <1>11 DEF VersionInv

\* The parts of a cycle but for the chunk in hand.
Others(p) == {rest[p]} \cup {Tail(stack[p])[i] : i \in 1..Len(Tail(stack[p]))}

LEMMA PartsOfStack ==
    ASSUME TypeInv, NEW p \in Proc, HasChunk(p)
    PROVE  /\ Parts(p) = Others(p) \cup {Chunk(p)}
           /\ \A t \in Others(p) : t = rest[p] \/ \E i \in 2..Len(stack[p]) : t = stack[p][i]
<1>1. stack[p] \in Seq(SUBSET Row) /\ stack[p] # <<>>
  BY DEF TypeInv, TypeOK, HasChunk
<1>2. /\ Len(stack[p]) \in Nat \ {0}
      /\ Head(stack[p]) = stack[p][1]
      /\ Len(Tail(stack[p])) = Len(stack[p]) - 1
      /\ \A i \in 1..Len(Tail(stack[p])) : Tail(stack[p])[i] = stack[p][i + 1]
  BY <1>1
<1>3. /\ \A i \in 1..Len(Tail(stack[p])) : i + 1 \in 2..Len(stack[p]) /\ i + 1 \in 1..Len(stack[p])
      /\ 1 \in 1..Len(stack[p])
      /\ \A i \in 1..Len(stack[p]) : i = 1 \/ i - 1 \in 1..Len(Tail(stack[p]))
  BY <1>2
<1>4. \A t \in Others(p) : t = rest[p] \/ \E i \in 2..Len(stack[p]) : t = stack[p][i]
  BY <1>2, <1>3 DEF Others
<1>5. Chunk(p) \in Parts(p)
  BY <1>2, <1>3 DEF Parts, Chunk
<1>6. \A t \in Others(p) : t \in Parts(p)
  BY <1>2, <1>3 DEF Parts, Others
<1>7. \A t \in Parts(p) : t = Chunk(p) \/ t \in Others(p)
  <2> SUFFICES ASSUME NEW i \in 1..Len(stack[p]), i # 1 PROVE stack[p][i] \in Others(p)
    BY <1>2 DEF Parts, Others, Chunk
  <2>1. i - 1 \in 1..Len(Tail(stack[p])) /\ (i - 1) + 1 = i
    BY <1>3
  <2>2. Tail(stack[p])[i - 1] = stack[p][i]
    BY <1>2, <2>1
  <2> QED
    BY <2>1, <2>2 DEF Others
<1> QED
  BY <1>4, <1>5, <1>6, <1>7

LEMMA PartsReleased ==
    ASSUME TypeInv, NEW p \in Proc, Release(p)
    PROVE  Parts(p)' = {{}}
<1>1. rest'[p] = {} /\ stack'[p] = <<>>
  BY DEF Release, TypeInv, TypeOK
<1> QED
  BY <1>1 DEF Parts

LEMMA PartsPopped ==
    ASSUME TypeInv, NEW p \in Proc, Pop(p), UNCHANGED rest
    PROVE  Parts(p)' = Others(p)
<1>1. stack'[p] = Tail(stack[p])
  BY DEF Pop, TypeInv, TypeOK
<1> QED
  BY <1>1 DEF Parts, Others

LEMMA PartsPushed ==
    ASSUME TypeInv, NEW p \in Proc, HasChunk(p), PushHalves(p), UNCHANGED rest
    PROVE  Parts(p)' = Others(p) \cup {split_events_by_day(Chunk(p))[1],
                                       split_events_by_day(Chunk(p))[2]}
<1> DEFINE left == split_events_by_day(Chunk(p))[1]
           right == split_events_by_day(Chunk(p))[2]
           tail == Tail(stack[p])
           new == <<right, left>> \o tail
<1>1. stack'[p] = new
  BY DEF PushHalves, TypeInv, TypeOK
<1>2. tail \in Seq(SUBSET Row)
  BY TopChunk DEF HasChunk
<1> HIDE DEF left, right, tail
<1>3. /\ Len(tail) \in Nat /\ Len(new) = Len(tail) + 2
      /\ new[1] = right /\ new[2] = left
      /\ \A i \in 1..Len(tail) : new[i + 2] = tail[i]
  BY <1>2
<1> HIDE DEF new
<1>4. /\ 1 \in 1..Len(new) /\ 2 \in 1..Len(new)
      /\ \A i \in 1..Len(tail) : i + 2 \in 1..Len(new)
      /\ \A i \in 1..Len(new) : i \in {1, 2} \/ (i - 2 \in 1..Len(tail) /\ (i - 2) + 2 = i)
  BY <1>3
<1>5. \A i \in 1..Len(new) : new[i] \in {left, right} \/ \E j \in 1..Len(tail) : new[i] = tail[j]
  BY <1>3, <1>4
<1>6. {new[i] : i \in 1..Len(new)} = {left, right} \cup {tail[i] : i \in 1..Len(tail)}
  <2>1. {new[i] : i \in 1..Len(new)} \subseteq {left, right} \cup {tail[i] : i \in 1..Len(tail)}
    BY <1>5
  <2>2. \A i \in 1..Len(tail) : tail[i] \in {new[j] : j \in 1..Len(new)}
    BY <1>3, <1>4
  <2>3. left \in {new[j] : j \in 1..Len(new)} /\ right \in {new[j] : j \in 1..Len(new)}
    BY <1>3, <1>4
  <2> QED
    BY <2>1, <2>2, <2>3
<1>7. Parts(p)' = {rest[p]} \cup {new[i] : i \in 1..Len(new)}
  BY <1>1 DEF Parts
<1>8. Others(p) = {rest[p]} \cup {tail[i] : i \in 1..Len(tail)}
  BY DEF Others, tail
<1> QED
  BY <1>6, <1>7, <1>8 DEF left, right

LEMMA PartsGrouped ==
    ASSUME TypeInv, NEW p \in Proc, TakeGroup(p)
    PROVE  /\ Parts(p) = {rest[p]}
           /\ Parts(p)' = {rest[p] \ NextGroup(rest[p]), NextGroup(rest[p])}
           /\ rest'[p] = rest[p] \ NextGroup(rest[p])
           /\ stack'[p] = <<NextGroup(rest[p])>>
<1>1. /\ rest'[p] = rest[p] \ NextGroup(rest[p])
      /\ stack'[p] = <<NextGroup(rest[p])>>
      /\ stack[p] = <<>>
  BY DEF TakeGroup, TypeInv, TypeOK
<1>2. Parts(p) = {rest[p]}
  BY <1>1 DEF Parts
<1>3. Parts(p)' = {rest'[p]} \cup {stack'[p][i] : i \in 1..Len(stack'[p])}
  BY DEF Parts
<1>4. {stack'[p][i] : i \in 1..Len(stack'[p])} = {NextGroup(rest[p])}
  <2> DEFINE g == NextGroup(rest[p])
  <2> HIDE DEF g
  <2>1. Len(<<g>>) = 1 /\ <<g>>[1] = g /\ 1..1 = {1}
    OBVIOUS
  <2>2. {<<g>>[i] : i \in 1..Len(<<g>>)} = {g}
    BY <2>1
  <2> QED
    BY <1>1, <2>2 DEF g
<1> QED
  BY <1>1, <1>2, <1>3, <1>4

LEMMA PartsDequeued ==
    ASSUME TypeInv, GuardInv, NEW p \in Proc, StartSync(p)
    PROVE  /\ Parts(p) = {{}}
           /\ Parts(p)' = {Batch(queue)}
           /\ stack'[p] = <<>>
<1>1. pc[p] \notin UploadPC
  BY DEF StartSync, UploadPC
<1>2. rest[p] = {} /\ stack[p] = <<>>
  BY <1>1 DEF GuardInv
<1>3. rest'[p] = Batch(queue) /\ stack'[p] = <<>>
  BY <1>2 DEF StartSync, Batch, TypeInv, TypeOK
<1> QED
  BY <1>2, <1>3 DEF Parts

\* A request is answered or not, but none is still on its way.
LEMMA AnsweredOrNot ==
    ASSUME ~MayDelay, NEW chunk, Unanswered(chunk)
    PROVE  net' = net /\ (UNCHANGED <<server, accepted>> \/ Commit(chunk))
BY DEF Unanswered, remote

\* What a sync step does to the rows at hand and to what was accepted.
LEMMA SyncMoves ==
    ASSUME TypeInv, GuardInv, OneCycle, NEW p \in Proc, Flush(p) \/ Upload(p)
    PROVE  /\ UNCHANGED <<log, manifest, snap, net>>
           /\ queue' \subseteq queue
           /\ \/ UNCHANGED <<server, accepted>>
              \/ HasChunk(p) /\ Commit(Chunk(p))
           /\ \A part \in Parts(p)' : part \subseteq queue \cup UNION Parts(p)
<1> USE DEF disk, store, collects, flushes, remote, OneCycle
<1>1. UNCHANGED <<log, manifest, snap>>
  BY DEF Flush, StartSync, NothingToSync, NoToken, FinishSync, TakeGroup, DropEmptyBatch,
         SplitOversize, SkipReceipted, StartUpload, record_receipt, PurgeUploaded,
         SyncStoreError, Upload, UploadAccepted, RetryUpload, UploadOffline,
         UploadUnauthorized, UploadDegraded, UploadSplit, Quarantine
<1>2. CASE StartSync(p)
  BY <1>1, <1>2, PartsDequeued DEF StartSync, Batch, dequeue_batch
<1>3. CASE \/ NothingToSync(p) \/ NoToken(p) \/ StartUpload(p) \/ record_receipt(p)
           \/ UploadAccepted(p) \/ RetryUpload(p)
  <2>1. Parts(p)' = Parts(p) /\ queue' = queue
    BY <1>3 DEF NothingToSync, NoToken, StartUpload, record_receipt, UploadAccepted,
                RetryUpload, Parts
  <2>2. CASE NothingToSync(p) \/ NoToken(p) \/ StartUpload(p) \/ record_receipt(p)
    BY <1>1, <2>1, <2>2 DEF NothingToSync, NoToken, StartUpload, record_receipt
  <2>3. CASE UploadAccepted(p) \/ RetryUpload(p)
    <3>1. HasChunk(p)
      BY <2>3 DEF UploadAccepted, RetryUpload, HasChunk, TypeInv, FramesWellFormed
    <3> QED
      BY <1>1, <2>1, <2>3, <3>1, AnsweredOrNot DEF UploadAccepted, RetryUpload
  <2> QED
    BY <1>3, <2>2, <2>3
<1>4. CASE FinishSync(p) \/ SyncStoreError(p) \/ UploadUnauthorized(p) \/ UploadOffline(p)
  <2>1. Parts(p)' = {{}} /\ queue' = queue
    BY <1>4, PartsReleased DEF FinishSync, SyncStoreError, UploadUnauthorized, UploadOffline
  <2>2. CASE FinishSync(p) \/ SyncStoreError(p) \/ UploadUnauthorized(p)
    BY <1>1, <2>1, <2>2 DEF FinishSync, SyncStoreError, UploadUnauthorized
  <2>3. CASE UploadOffline(p)
    <3>1. HasChunk(p)
      BY <2>3 DEF UploadOffline, HasChunk, TypeInv, FramesWellFormed
    <3> QED
      BY <1>1, <2>1, <2>3, <3>1, AnsweredOrNot DEF UploadOffline
  <2> QED
    BY <1>4, <2>2, <2>3
<1>5. CASE TakeGroup(p)
  <2>1. NextGroup(rest[p]) \subseteq rest[p]
    BY DEF NextGroup
  <2> QED
    BY <1>1, <1>5, <2>1, PartsGrouped DEF TakeGroup
<1>6. CASE \/ DropEmptyBatch(p) \/ SkipReceipted(p) \/ PurgeUploaded(p) \/ Quarantine(p)
           \/ UploadDegraded(p)
  <2>1. HasChunk(p) /\ Pop(p) /\ UNCHANGED rest
    BY <1>6 DEF DropEmptyBatch, SkipReceipted, PurgeUploaded, Quarantine, UploadDegraded,
                HasChunk, TypeInv, FramesWellFormed
  <2>2. Parts(p)' = Others(p) /\ Others(p) \subseteq Parts(p)
    BY <2>1, PartsPopped, PartsOfStack
  <2>3. \A part \in Parts(p)' : part \subseteq queue \cup UNION Parts(p)
    BY <2>2
  <2>4. queue' \subseteq queue
    BY <1>6 DEF DropEmptyBatch, SkipReceipted, PurgeUploaded, Quarantine, UploadDegraded,
                PurgeChunk
  <2>5. UNCHANGED net /\ (UNCHANGED <<server, accepted>> \/ Commit(Chunk(p)))
    BY <1>6, AnsweredOrNot DEF DropEmptyBatch, SkipReceipted, PurgeUploaded, Quarantine,
                UploadDegraded
  <2> QED
    BY <1>1, <2>1, <2>3, <2>4, <2>5
<1>7. CASE SplitOversize(p) \/ UploadSplit(p)
  <2>1. HasChunk(p) /\ PushHalves(p) /\ UNCHANGED <<rest, queue, net, server, accepted>>
    BY <1>7 DEF SplitOversize, UploadSplit, HasChunk, TypeInv, FramesWellFormed
  <2>2. /\ split_events_by_day(Chunk(p))[1] \in SUBSET Chunk(p)
        /\ split_events_by_day(Chunk(p))[2] \in SUBSET Chunk(p)
    BY HalvesType
  <2>3. \A part \in Parts(p)' : part \subseteq UNION Parts(p)
    BY <2>1, <2>2, PartsPushed, PartsOfStack
  <2> QED
    BY <1>1, <2>1, <2>3
<1> QED
  BY <1>2, <1>3, <1>4, <1>5, <1>6, <1>7 DEF Flush, Upload

LEMMA VersionSync ==
    ASSUME TypeInv, GuardInv, OneCycle, VersionInv, NEW p \in Proc, Flush(p) \/ Upload(p)
    PROVE  VersionInv'
<1>1. /\ UNCHANGED <<log, manifest, snap>>
      /\ queue' \subseteq queue
      /\ UNCHANGED accepted \/ (HasChunk(p) /\ accepted' = accepted \cup EventsOf(Chunk(p)))
      /\ \A part \in Parts(p)' : part \subseteq queue \cup UNION Parts(p)
  BY SyncMoves DEF Commit
<1>2. EventsOf(queue') \subseteq EventsOf(queue \cup UNION Parts(p))
  BY <1>1 DEF EventsOf
<1>3. EventsOf(UNION Parts(p)') \subseteq EventsOf(queue \cup UNION Parts(p))
  BY <1>1 DEF EventsOf
<1>4. accepted' \subseteq EventsOf(queue \cup UNION Parts(p)) \cup accepted
  <2>1. HasChunk(p) => Chunk(p) \in Parts(p)
    BY PartsOfStack
  <2> QED
    BY <1>1, <2>1 DEF EventsOf
<1>5. Known(p)' \subseteq Known(p)
  BY <1>1, <1>2, <1>3, <1>4, KnownStable DEF Pool
<1>6. snap[p] = {}
  <2>1. pc[p] \notin {"enqueue", "checkpoint"}
    BY DEF Flush, StartSync, NothingToSync, NoToken, FinishSync, TakeGroup, DropEmptyBatch,
           SplitOversize, SkipReceipted, StartUpload, record_receipt, PurgeUploaded,
           SyncStoreError, Upload, UploadAccepted, RetryUpload, UploadOffline,
           UploadUnauthorized, UploadDegraded, UploadSplit, Quarantine
  <2> QED
    BY <2>1 DEF VersionInv
<1>7. \A q \in Proc : q = p
  BY DEF OneCycle
<1> QED
  BY <1>1, <1>5, <1>6, <1>7, VersionStable

LEMMA VersionCollect ==
    ASSUME TypeInv, OneCycle, VersionInv, NEW p \in Proc, Collect(p)
    PROVE  VersionInv'
<1> USE DEF disk, store, flushes, remote
<1>0. \A q \in Proc : q = p
  BY DEF OneCycle
<1>1. CASE LoadCheckpoint(p) \/ NothingToCollect(p) \/ ComputeManifest(p)
  <2>1. UNCHANGED <<log, manifest, snap, queue, rest, stack, accepted>>
    BY <1>1 DEF LoadCheckpoint, NothingToCollect, ComputeManifest
  <2>2. Known(p)' = Known(p)
    BY <2>1 DEF Known, Pool, Parts
  <2>3. pc[p] \notin {"enqueue", "checkpoint"}
    BY <1>1 DEF LoadCheckpoint, NothingToCollect, ComputeManifest
  <2> QED
    BY <1>0, <2>1, <2>2, <2>3, VersionStable
<1>2. ASSUME NEW unreadable \in SUBSET Day, ParseFiles(p, unreadable) PROVE VersionInv'
  BY <1>2, VersionParse
<1>3. CASE enqueue_events(p)
  <2>1. /\ UNCHANGED <<log, manifest, snap, rest, stack, accepted>>
        /\ pc'[p] = "checkpoint"
    BY <1>3, GotoType DEF enqueue_events, collects, TypeInv, PC
  <2>2. /\ queue \in SUBSET Row /\ nextId \in Nat
        /\ snap[p] \in SUBSET Event /\ OnePerDay(snap[p])
    BY DEF TypeInv, TypeOK, FramesWellFormed
  <2>3. EventsOf(queue') = EventsOf(queue) \cup snap[p]
    BY <1>3, <2>2, OnePerDayFinite, FreshRowsFacts DEF enqueue_events
  <2>4. Parts(p)' = Parts(p)
    BY <2>1 DEF Parts
  <2>5. EventsOf(queue \cup UNION Parts(p)) = EventsOf(queue) \cup EventsOf(UNION Parts(p))
    BY DEF EventsOf
  <2>6. Known(p)' \subseteq Known(p)
    BY <2>1, <2>3, <2>4, <2>5, KnownStable DEF Pool
  <2> QED
    BY <1>0, <2>1, <2>6, VersionStable
<1>4. CASE set_checkpoint(p) \/ CollectHeld(p)
  <2>1. UNCHANGED <<log, manifest, queue, rest, stack, accepted>> /\ snap'[p] = {}
    BY <1>4 DEF set_checkpoint, CollectHeld, EndCollect, TypeInv, TypeOK
  <2>2. Known(p)' \subseteq Known(p)
    BY <2>1 DEF Known, Pool, Parts, DatedEvents
  <2> QED
    BY <1>0, <2>1, <2>2, VersionStable
<1> QED
  BY <1>1, <1>2, <1>3, <1>4 DEF Collect

LEMMA VersionEnvironment ==
    ASSUME TypeInv, OneCycle, VersionInv, net = {}, Environment
    PROVE  VersionInv'
<1> USE DEF disk, store, collects, flushes, remote
<1>1. ASSUME NEW d \in Day, LogActivity(d) \/ LogErased(d) PROVE VersionInv'
  BY <1>1, VersionEdit
<1>2. ASSUME NEW days \in SUBSET Day, ImportExport(days) PROVE VersionInv'
  <2> DEFINE evs == {[conn |-> Export, day |-> d, ver |-> imports + 1] : d \in days}
  <2>1. Export \in Conn /\ imports \in Nat
    BY <1>2, BoundsAssumption DEF ImportExport, TypeInv, TypeOK
  <2>2. evs \in SUBSET Event /\ OnePerDay(evs) /\ \A e \in evs : e.conn # Live
    BY <2>1 DEF Event, OnePerDay, OneCycle
  <2> HIDE DEF evs
  <2>3. /\ queue \in SUBSET Row /\ nextId \in Nat
        /\ queue' = queue \cup FreshRows(queue, evs, nextId)
        /\ UNCHANGED <<log, manifest, snap, pc, rest, stack, accepted>>
    BY <1>2 DEF ImportExport, TypeInv, TypeOK, evs
  <2>4. EventsOf(queue') = EventsOf(queue) \cup evs
    BY <2>2, <2>3, OnePerDayFinite, FreshRowsFacts
  <2>5. ASSUME NEW p \in Proc PROVE Known(p)' = Known(p)
    <3>1. Parts(p)' = Parts(p)
      BY <2>3 DEF Parts
    <3>2. /\ EventsOf(queue \cup UNION Parts(p)) = EventsOf(queue) \cup EventsOf(UNION Parts(p))
          /\ EventsOf(queue' \cup UNION Parts(p)) = EventsOf(queue') \cup EventsOf(UNION Parts(p))
      BY DEF EventsOf
    <3> QED
      BY <2>2, <2>3, <2>4, <3>1, <3>2 DEF Known, Pool, DatedEvents
  <2> QED
    BY <2>3, <2>5, VersionStable
<1>3. CASE DeletePending
  <2>1. queue' = {} /\ UNCHANGED <<log, manifest, snap, pc, rest, stack, accepted>>
    BY <1>3 DEF DeletePending
  <2>2. \A p \in Proc : Known(p)' \subseteq Known(p)
    BY <2>1 DEF Known, Pool, Parts, DatedEvents, EventsOf
  <2> QED
    BY <2>1, <2>2, VersionStable
<1>4. CASE Crash
  <2>1. /\ UNCHANGED <<log, manifest, queue, accepted>>
        /\ \A p \in Proc : snap'[p] = {} /\ rest'[p] = {} /\ stack'[p] = <<>>
    BY <1>4 DEF Crash
  <2>2. \A p \in Proc : UNION Parts(p)' = {}
    BY <2>1 DEF Parts
  <2>3. \A p \in Proc : Known(p)' \subseteq Known(p)
    <3>1. EventsOf({}) = {}
      BY DEF EventsOf
    <3>2. \A p \in Proc : EventsOf(queue) \subseteq EventsOf(queue \cup UNION Parts(p))
      BY DEF EventsOf
    <3> QED
      BY <2>1, <2>2, <3>1, <3>2, KnownStable DEF Pool
  <2> QED
    BY <2>1, <2>3, VersionStable
<1> QED
  BY <1>1, <1>2, <1>3, <1>4 DEF Environment

\* A source's rows are either all grouped or all waiting.
SourcesApart(p) ==
    \A r \in rest[p], i \in 1..Len(stack[p]) :
        \A q \in stack[p][i] : r.ev.conn # q.ev.conn

QueueInv ==
    /\ net = {}
    /\ \A p \in Proc : InOrder(queue, Parts(p), accepted) /\ SourcesApart(p)

LEMMA OthersDisjoint ==
    ASSUME TypeInv, ChunkInv, QueueInv, NEW p \in Proc, HasChunk(p)
    PROVE  \A part \in Others(p) :
              \A r \in Dated(part), q \in Dated(Chunk(p)) : r.ev.day # q.ev.day
<1>1. stack[p] \in Seq(SUBSET Row) /\ stack[p] # <<>> /\ rest[p] \in SUBSET Row
  BY DEF TypeInv, TypeOK, HasChunk
<1>2. /\ Len(stack[p]) \in Nat /\ 1 \in 1..Len(stack[p]) /\ Chunk(p) = stack[p][1]
      /\ Chunk(p) \in SUBSET Row
      /\ \A i \in 2..Len(stack[p]) : i \in 1..Len(stack[p]) /\ i # 1
      /\ \A i \in 1..Len(stack[p]) : stack[p][i] \in SUBSET Row
  BY <1>1 DEF Chunk
<1>3. \A r \in Dated(rest[p]), q \in Dated(Chunk(p)) : r.ev.day # q.ev.day
  BY <1>2 DEF QueueInv, SourcesApart, Dated
<1>4. ASSUME NEW i \in 2..Len(stack[p]), NEW r \in Dated(stack[p][i]), NEW q \in Dated(Chunk(p))
      PROVE  r.ev.day # q.ev.day
  <2>1. Window(Chunk(p)) \cap Window(stack[p][i]) = {}
    BY <1>2 DEF ChunkInv, Apart
  <2>2. /\ r.ev.day \in DaysOf(stack[p][i]) /\ r.ev.day \in Day
        /\ q.ev.day \in DaysOf(Chunk(p)) /\ q.ev.day \in Day
    BY <1>2 DEF Dated, DaysOf, Row, Event
  <2>3. \A d \in Day : d <= d
    BY DayAssumption
  <2>4. r.ev.day \in Window(stack[p][i]) /\ q.ev.day \in Window(Chunk(p))
    BY <2>2, <2>3 DEF Window
  <2> QED
    BY <2>1, <2>4
<1> QED
  BY <1>3, <1>4, PartsOfStack

LEMMA OrderCommitted ==
    ASSUME TypeInv, ChunkInv, QueueInv, NEW p \in Proc,
           \/ UNCHANGED accepted
           \/ HasChunk(p) /\ accepted' = accepted \cup EventsOf(Chunk(p))
    PROVE  InOrder(queue, Parts(p), accepted')
<1>1. InOrder(queue, Parts(p), accepted)
  BY DEF QueueInv
<1>2. CASE HasChunk(p) /\ accepted' = accepted \cup EventsOf(Chunk(p))
  <2>1. Parts(p) = Others(p) \cup {Chunk(p)}
    BY <1>2, PartsOfStack
  <2>2. Chunk(p) \in SUBSET Row /\ queue \in SUBSET Row
    BY <1>2, TopChunk DEF HasChunk, TypeInv, TypeOK
  <2>3. \A part \in Others(p) :
           \A r \in Dated(part), q \in Dated(Chunk(p)) : r.ev.day # q.ev.day
    BY <1>2, OthersDisjoint
  <2>4. InOrder(queue, Others(p) \cup {Chunk(p)}, accepted)
    BY <1>1, <2>1
  <2>5. InOrder(queue, Others(p) \cup {Chunk(p)}, accepted \cup EventsOf(Chunk(p)))
    BY <2>2, <2>3, <2>4, OrderOfCommit
  <2> QED
    BY <1>2, <2>1, <2>5
<1> QED
  BY <1>1, <1>2

LEMMA OrderPurged ==
    ASSUME TypeInv, ChunkInv, QueueInv, NEW p \in Proc, HasChunk(p), PurgeChunk(p)
    PROVE  InOrder(queue', Others(p), accepted)
<1>1. Parts(p) = Others(p) \cup {Chunk(p)}
  BY PartsOfStack
<1>2. /\ InOrder(queue, Others(p) \cup {Chunk(p)}, accepted)
      /\ accepted \in SUBSET Event /\ queue \in SUBSET Row
  BY <1>1 DEF QueueInv, TypeInv, TypeOK
<1>3. Chunk(p) \in SUBSET Row /\ Chunk(p) \in SUBSET Good /\ queue \subseteq Good
  BY TopChunk DEF HasChunk, TypeInv, RowsGood
<1>4. /\ \A r \in queue, q \in Chunk(p) : r.id = q.id => r = q
      /\ \A r, q \in queue : r.id = q.id => r = q
  BY <1>3 DEF Good, GoodRow
<1>5. \A part \in Others(p) : part \subseteq Row
  BY <1>1, KnownType
<1>6. queue' = {r \in queue : \A q \in Chunk(p) : r.id # q.id}
  BY DEF PurgeChunk
<1> QED
  BY <1>2, <1>3, <1>4, <1>5, <1>6, OthersDisjoint, OrderOfPurge

\* A source's rows of one day are on one side of the cut.
LEMMA HalvesKeepDays ==
    ASSUME NEW chunk, NEW part \in {split_events_by_day(chunk)[1], split_events_by_day(chunk)[2]}
    PROVE  /\ part \subseteq chunk
           /\ \A r \in Dated(part), q \in Dated(chunk) : r.ev.day = q.ev.day => q \in part
BY DEF split_events_by_day, LeftOf, Dated

LEMMA OrderSync ==
    ASSUME TypeInv, ChunkInv, GuardInv, OneCycle, QueueInv, NEW p \in Proc, Flush(p) \/ Upload(p)
    PROVE  InOrder(queue, Parts(p), accepted)'
<1> USE DEF store, flushes, remote
<1>0. /\ UNCHANGED accepted \/ (HasChunk(p) /\ accepted' = accepted \cup EventsOf(Chunk(p)))
      /\ InOrder(queue, Parts(p), accepted')
      /\ queue \in SUBSET Row
  BY SyncMoves, OrderCommitted DEF Commit, TypeInv, TypeOK
<1>1. CASE StartSync(p)
  <2>1. UNCHANGED <<queue, accepted>> /\ Parts(p)' = {Batch(queue)}
    BY <1>1, PartsDequeued DEF StartSync
  <2>2. \A r \in Row : r.ev.ver \in Nat
    BY DEF Row, Event
  <2> QED
    BY <1>0, <2>1, <2>2, OrderOfBatch
<1>2. CASE \/ NothingToSync(p) \/ NoToken(p) \/ StartUpload(p) \/ record_receipt(p)
           \/ UploadAccepted(p) \/ RetryUpload(p)
  <2>1. Parts(p)' = Parts(p) /\ queue' = queue
    BY <1>2 DEF NothingToSync, NoToken, StartUpload, record_receipt, UploadAccepted,
                RetryUpload, Parts
  <2> QED
    BY <1>0, <2>1
<1>3. CASE FinishSync(p) \/ SyncStoreError(p) \/ UploadUnauthorized(p) \/ UploadOffline(p)
  <2>1. Parts(p)' = {{}} /\ queue' = queue
    BY <1>3, PartsReleased DEF FinishSync, SyncStoreError, UploadUnauthorized, UploadOffline
  <2> QED
    BY <1>0, <2>1, OrderOfParts
<1>4. CASE TakeGroup(p)
  <2>1. /\ Parts(p) = {rest[p]}
        /\ Parts(p)' = {rest[p] \ NextGroup(rest[p]), NextGroup(rest[p])}
        /\ queue' = queue
    BY <1>4, PartsGrouped DEF TakeGroup
  <2>2. \A part \in Parts(p)' :
           /\ part \subseteq rest[p]
           /\ \A r \in Dated(part), q \in Dated(rest[p]) : r.ev.day = q.ev.day => q \in part
    BY <2>1 DEF NextGroup, Dated
  <2>3. \A part \in Parts(p)' : \E whole \in Parts(p) :
           /\ part \subseteq whole
           /\ \A r \in Dated(part), q \in Dated(whole) : r.ev.day = q.ev.day => q \in part
    <3>1. rest[p] \in Parts(p)
      BY <2>1
    <3> QED
      BY <2>2, <3>1
  <2>4. InOrder(queue, Parts(p)', accepted')
    BY <1>0, <2>3, OrderOfParts
  <2> QED
    BY <2>1, <2>4
<1>5. CASE DropEmptyBatch(p) \/ SkipReceipted(p) \/ PurgeUploaded(p) \/ Quarantine(p)
  <2>1. HasChunk(p) /\ Pop(p) /\ PurgeChunk(p) /\ UNCHANGED <<rest, accepted>>
    BY <1>5 DEF DropEmptyBatch, SkipReceipted, PurgeUploaded, Quarantine,
                HasChunk, TypeInv, FramesWellFormed
  <2> QED
    BY <2>1, PartsPopped, OrderPurged
<1>6. CASE UploadDegraded(p)
  <2>1. HasChunk(p) /\ Pop(p) /\ UNCHANGED <<rest, queue>>
    BY <1>6 DEF UploadDegraded, HasChunk, TypeInv, FramesWellFormed
  <2>2. Parts(p)' = Others(p) /\ Others(p) \subseteq Parts(p)
    BY <2>1, PartsPopped, PartsOfStack
  <2> QED
    BY <1>0, <2>1, <2>2 DEF InOrder, Ordered, Dated
<1>7. CASE SplitOversize(p) \/ UploadSplit(p)
  <2>1. HasChunk(p) /\ PushHalves(p) /\ UNCHANGED <<rest, queue>>
    BY <1>7 DEF SplitOversize, UploadSplit, HasChunk, TypeInv, FramesWellFormed
  <2>2. /\ Parts(p) = Others(p) \cup {Chunk(p)}
        /\ Parts(p)' = Others(p) \cup {split_events_by_day(Chunk(p))[1],
                                       split_events_by_day(Chunk(p))[2]}
    BY <2>1, PartsPushed, PartsOfStack
  <2>3. \A part \in Parts(p)' : \E whole \in Parts(p) :
           /\ part \subseteq whole
           /\ \A r \in Dated(part), q \in Dated(whole) : r.ev.day = q.ev.day => q \in part
    <3> SUFFICES ASSUME NEW part \in Parts(p)'
                 PROVE  \E whole \in Parts(p) :
                           /\ part \subseteq whole
                           /\ \A r \in Dated(part), q \in Dated(whole) :
                                 r.ev.day = q.ev.day => q \in part
      OBVIOUS
    <3>1. CASE part \in Others(p)
      <4>1. part \in Parts(p) /\ part \subseteq part
        BY <2>2, <3>1
      <4>2. \A q \in Dated(part) : q \in part
        BY DEF Dated
      <4> QED
        BY <4>1, <4>2
    <3>2. CASE part \notin Others(p)
      BY <2>2, <3>2, HalvesKeepDays
    <3> QED
      BY <3>1, <3>2
  <2> QED
    BY <1>0, <2>1, <2>3, OrderOfParts
<1> QED
  BY <1>1, <1>2, <1>3, <1>4, <1>5, <1>6, <1>7 DEF Flush, Upload

LEMMA SourcesSync ==
    ASSUME TypeInv, GuardInv, NEW p \in Proc, SourcesApart(p), Flush(p) \/ Upload(p)
    PROVE  SourcesApart(p)'
<1> USE DEF store, flushes
<1>0. SourcesApart(p)
  OBVIOUS
<1>1. CASE StartSync(p)
  <2>1. stack'[p] = <<>>
    BY <1>1, PartsDequeued
  <2> QED
    BY <2>1 DEF SourcesApart
<1>2. CASE \/ NothingToSync(p) \/ NoToken(p) \/ StartUpload(p) \/ record_receipt(p)
           \/ UploadAccepted(p) \/ RetryUpload(p)
  <2>1. UNCHANGED <<rest, stack>>
    BY <1>2 DEF NothingToSync, NoToken, StartUpload, record_receipt, UploadAccepted, RetryUpload
  <2> QED
    BY <1>0, <2>1 DEF SourcesApart
<1>3. CASE FinishSync(p) \/ SyncStoreError(p) \/ UploadUnauthorized(p) \/ UploadOffline(p)
  <2>1. rest'[p] = {}
    BY <1>3 DEF FinishSync, SyncStoreError, UploadUnauthorized, UploadOffline, Release,
                TypeInv, TypeOK
  <2> QED
    BY <2>1 DEF SourcesApart
<1>4. CASE TakeGroup(p)
  <2>1. /\ rest'[p] = rest[p] \ NextGroup(rest[p])
        /\ stack'[p] = <<NextGroup(rest[p])>>
    BY <1>4, PartsGrouped
  <2>2. \A i \in 1..Len(stack'[p]) : stack'[p][i] = NextGroup(rest[p])
    BY <2>1
  <2>3. \A r \in rest'[p], q \in NextGroup(rest[p]) : r.ev.conn # q.ev.conn
    BY <2>1 DEF NextGroup
  <2> QED
    BY <2>2, <2>3 DEF SourcesApart
<1>5. CASE \/ DropEmptyBatch(p) \/ SkipReceipted(p) \/ PurgeUploaded(p) \/ Quarantine(p)
           \/ UploadDegraded(p)
  <2>1. HasChunk(p) /\ Pop(p) /\ UNCHANGED rest
    BY <1>5 DEF DropEmptyBatch, SkipReceipted, PurgeUploaded, Quarantine, UploadDegraded,
                HasChunk, TypeInv, FramesWellFormed
  <2>2. stack'[p] = Tail(stack[p]) /\ stack[p] \in Seq(SUBSET Row) /\ stack[p] # <<>>
    BY <2>1 DEF Pop, HasChunk, TypeInv, TypeOK
  <2>3. \A i \in 1..Len(stack'[p]) : i + 1 \in 1..Len(stack[p]) /\ stack'[p][i] = stack[p][i + 1]
    BY <2>2
  <2> QED
    BY <1>0, <2>1, <2>3 DEF SourcesApart
<1>6. CASE SplitOversize(p) \/ UploadSplit(p)
  <2> DEFINE left == split_events_by_day(Chunk(p))[1]
             right == split_events_by_day(Chunk(p))[2]
  <2>1. HasChunk(p) /\ PushHalves(p) /\ UNCHANGED rest
    BY <1>6 DEF SplitOversize, UploadSplit, HasChunk, TypeInv, FramesWellFormed
  <2>2. /\ stack'[p] = <<right, left>> \o Tail(stack[p])
        /\ stack[p] \in Seq(SUBSET Row) /\ stack[p] # <<>>
    BY <2>1 DEF PushHalves, HasChunk, TypeInv, TypeOK
  <2>3. left \subseteq Chunk(p) /\ right \subseteq Chunk(p)
    BY HalvesType
  <2> HIDE DEF left, right
  <2>4. Chunk(p) = stack[p][1] /\ 1 \in 1..Len(stack[p])
    BY <2>2 DEF Chunk
  <2>5. \A i \in 1..Len(stack'[p]) :
           \/ stack'[p][i] \in {left, right}
           \/ i - 1 \in 1..Len(stack[p]) /\ stack'[p][i] = stack[p][i - 1]
    BY <2>2
  <2>6. \A i \in 1..Len(stack'[p]) : \E j \in 1..Len(stack[p]) : stack'[p][i] \subseteq stack[p][j]
    BY <2>3, <2>4, <2>5
  <2> QED
    BY <1>0, <2>1, <2>6 DEF SourcesApart
<1> QED
  BY <1>1, <1>2, <1>3, <1>4, <1>5, <1>6 DEF Flush, Upload

LEMMA QueueInit == Init => QueueInv
<1> SUFFICES ASSUME Init PROVE QueueInv
  OBVIOUS
<1>1. net = {} /\ accepted = {} /\ queue \in {{}, {UndecodableRow}}
  BY DEF Init
<1>2. IsFiniteSet(queue)
  <2>1. IsFiniteSet({}) /\ IsFiniteSet({UndecodableRow})
    BY FS_EmptySet, FS_Singleton
  <2> QED
    BY <1>1, <2>1
<1>3. Dated(queue) = {} /\ Dated({}) = {} /\ DatedEvents({}) = {}
  BY <1>1 DEF Dated, DatedEvents, UndecodableRow
<1>4. ASSUME NEW p \in Proc
      PROVE  InOrder(queue, Parts(p), accepted) /\ SourcesApart(p)
  <2>1. Parts(p) = {{}} /\ rest[p] = {}
    BY DEF Init, Parts
  <2>2. queue \cup UNION Parts(p) = queue
    BY <2>1
  <2>3. Ordered(queue) /\ Behind(queue, accepted) /\ Together({}, queue, accepted)
    BY <1>3 DEF Ordered, Behind, Together
  <2> QED
    BY <1>2, <2>1, <2>2, <2>3 DEF InOrder, SourcesApart
<1> QED
  BY <1>1, <1>4 DEF QueueInv

\* Steps that leave what the cycles hold alone.
LEMMA QueueStable ==
    ASSUME QueueInv, UNCHANGED <<net, rest, stack>>,
           \A p \in Proc : InOrder(queue', Parts(p), accepted')
    PROVE  QueueInv'
<1>1. \A p \in Proc : Parts(p)' = Parts(p)
  BY DEF Parts
<1>2. \A p \in Proc : SourcesApart(p)'
  BY DEF QueueInv, SourcesApart
<1>3. \A p \in Proc : InOrder(queue, Parts(p), accepted)'
  BY <1>1
<1> QED
  BY <1>2, <1>3 DEF QueueInv

\* New rows: their ids come from the counter, their events from the batch.
LEMMA NewRows ==
    ASSUME TypeInv, NEW evs \in SUBSET Event, OnePerDay(evs)
    PROVE  LET new == FreshRows(queue, evs, nextId)
           IN  /\ new \in SUBSET Row
               /\ IsFiniteSet(new)
               /\ \A n \in new : n.ev \in evs
               /\ \A r \in Good, n \in new : r.id < n.id
<1> DEFINE new == FreshRows(queue, evs, nextId)
           fresh == FreshEvents(queue, evs)
           row(e) == [id |-> nextId + Cardinality({f \in fresh : f.day < e.day}), ev |-> e]
<1>1. queue \in SUBSET Row /\ nextId \in Nat /\ IsFiniteSet(evs)
  BY OnePerDayFinite DEF TypeInv, TypeOK
<1>2. new \subseteq Row /\ \A n \in new : nextId <= n.id
  BY <1>1, FreshRowsFacts
<1>3. new = {row(e) : e \in fresh} /\ fresh \subseteq evs
  BY DEF FreshRows, FreshEvents
<1>4. \A n \in new : n.ev \in evs
  <2>1. \A e \in fresh : row(e).ev = e
    OBVIOUS
  <2> HIDE DEF fresh, new, row
  <2> QED
    BY <1>3, <2>1
<1>5. IsFiniteSet(fresh)
  BY <1>1, <1>3, FS_Subset
<1>6. IsFiniteSet(new)
  <2> DEFINE f == [e \in fresh |-> row(e)]
  <2> HIDE DEF fresh, new, row
  <2>1. f \in Surjection(fresh, new)
    BY <1>3 DEF Surjection
  <2> QED
    BY <1>5, <2>1, FS_Surjection
<1>7. \A r \in Good, n \in new : r.id < n.id
  <2>1. \A r \in Good : r.id \in Nat /\ r.id < nextId
    BY GoodInRow DEF Row
  <2>2. \A n \in new : n.id \in Nat
    BY <1>2 DEF Row
  <2> QED
    BY <1>1, <1>2, <2>1, <2>2
<1> QED
  BY <1>2, <1>4, <1>6, <1>7

LEMMA QueueEnvironment ==
    ASSUME TypeInv, OneCycle, QueueInv, Environment
    PROVE  QueueInv'
<1> USE DEF disk, store, collects, flushes, remote
<1>1. ASSUME NEW d \in Day, LogActivity(d) \/ LogErased(d) PROVE QueueInv'
  <2>1. UNCHANGED <<queue, net, rest, stack, accepted>>
    BY <1>1 DEF LogActivity, LogErased, Edit
  <2> QED
    BY <2>1, QueueStable DEF QueueInv
<1>2. ASSUME NEW days \in SUBSET Day, ImportExport(days) PROVE QueueInv'
  <2> DEFINE evs == {[conn |-> Export, day |-> d, ver |-> imports + 1] : d \in days}
             new == FreshRows(queue, evs, nextId)
  <2>1. Export \in Conn /\ imports \in Nat
    BY <1>2, BoundsAssumption DEF ImportExport, TypeInv, TypeOK
  <2>2. evs \in SUBSET Event /\ OnePerDay(evs) /\ \A e \in evs : e.conn # Live
    BY <2>1 DEF Event, OnePerDay, OneCycle
  <2>3. queue' = queue \cup new /\ UNCHANGED <<net, rest, stack, accepted>>
    BY <1>2 DEF ImportExport
  <2> HIDE DEF evs
  <2>4. /\ new \in SUBSET Row /\ IsFiniteSet(new)
        /\ \A n \in new : n.ev \in evs
        /\ \A r \in Good, n \in new : r.id < n.id
    BY <2>2, NewRows
  <2> HIDE DEF new
  <2>5. Dated(new) = {}
    BY <2>2, <2>4 DEF Dated
  <2>6. queue \in SUBSET Row /\ queue \subseteq Good
    BY DEF TypeInv, TypeOK, RowsGood
  <2>7. ASSUME NEW p \in Proc PROVE InOrder(queue \cup new, Parts(p), accepted)
    <3>1. \A part \in Parts(p) : part \subseteq Good /\ part \subseteq Row
      BY KnownType
    <3>2. InOrder(queue, Parts(p), accepted)
      BY DEF QueueInv
    <3>3. \A r \in queue \cup UNION Parts(p), n \in new : r.id < n.id
      BY <2>4, <2>6, <3>1
    <3> QED
      BY <2>4, <2>5, <2>6, <3>1, <3>2, <3>3, OrderOfGrowth
  <2> QED
    BY <2>3, <2>7, QueueStable
<1>3. CASE DeletePending
  <2>1. queue' = {} /\ UNCHANGED <<net, rest, stack, accepted>>
    BY <1>3 DEF DeletePending
  <2>2. \A p \in Proc : InOrder({}, Parts(p), accepted)
    BY OrderOfNothing DEF QueueInv
  <2> QED
    BY <2>1, <2>2, QueueStable
<1>4. CASE Crash
  <2>1. /\ UNCHANGED <<queue, net, accepted>>
        /\ \A p \in Proc : rest'[p] = {} /\ stack'[p] = <<>>
    BY <1>4 DEF Crash
  <2>2. ASSUME NEW p \in Proc PROVE Parts(p)' = {{}} /\ SourcesApart(p)'
    <3>1. rest'[p] = {} /\ stack'[p] = <<>>
      BY <2>1
    <3> QED
      BY <3>1 DEF Parts, SourcesApart
  <2>3. queue \in SUBSET Row
    BY DEF TypeInv, TypeOK
  <2>4. ASSUME NEW p \in Proc PROVE InOrder(queue, {{}}, accepted)
    <3>1. InOrder(queue, Parts(p), accepted)
      BY DEF QueueInv
    <3> QED
      BY <2>3, <3>1, OrderOfParts
  <2>5. \A p \in Proc : InOrder(queue, Parts(p), accepted)' /\ SourcesApart(p)'
    BY <2>1, <2>2, <2>4
  <2>6. net' = {}
    BY <2>1 DEF QueueInv
  <2> QED
    BY <2>5, <2>6 DEF QueueInv
<1>5. ASSUME NEW chunk \in net, LateDelivery(chunk) PROVE QueueInv'
  BY DEF QueueInv
<1> QED
  BY <1>1, <1>2, <1>3, <1>4, <1>5 DEF Environment

LEMMA QueueCollect ==
    ASSUME TypeInv, GuardInv, OneCycle, VersionInv, QueueInv, NEW p \in Proc, Collect(p)
    PROVE  QueueInv'
<1> USE DEF disk, store, collects, flushes, remote
<1>1. CASE enqueue_events(p)
  <2> DEFINE new == FreshRows(queue, snap[p], nextId)
  <2>1. /\ pc[p] = "enqueue" /\ queue' = queue \cup new
        /\ UNCHANGED <<net, rest, stack, accepted>>
    BY <1>1 DEF enqueue_events
  <2>2. snap[p] \in SUBSET Event /\ OnePerDay(snap[p]) /\ queue \in SUBSET Row /\ queue \subseteq Good
    BY DEF TypeInv, TypeOK, FramesWellFormed, RowsGood
  <2>3. /\ new \in SUBSET Row /\ IsFiniteSet(new)
        /\ \A n \in new : n.ev \in snap[p]
        /\ \A r \in Good, n \in new : r.id < n.id
    BY <2>2, NewRows
  <2> HIDE DEF new
  <2>4. rest[p] = {} /\ stack[p] = <<>>
    BY <2>1 DEF GuardInv, UploadPC
  <2>5. Parts(p) = {{}}
    BY <2>4 DEF Parts
  <2>6. /\ \A e \in DatedEvents(EventsOf(queue)) : e \in Known(p)
        /\ \A e \in DatedEvents(accepted) : e \in Known(p)
    BY <2>5 DEF Known, Pool, DatedEvents, EventsOf
  <2>7. \A n \in Dated(new), e \in Known(p) : n.ev.day = e.day => e.ver <= n.ev.ver
    BY <2>3 DEF VersionInv, Dated
  <2>8. \A n \in Dated(new), r \in Dated(queue) : n.ev.day = r.ev.day => r.ev.ver <= n.ev.ver
    <3>1. \A r \in Dated(queue) : r.ev \in Known(p)
      BY <2>6 DEF Dated, DatedEvents, EventsOf
    <3> QED
      BY <2>7, <3>1
  <2>9. \A n \in Dated(new), e \in DatedEvents(accepted) : n.ev.day = e.day => e.ver <= n.ev.ver
    BY <2>6, <2>7
  <2>10. \A n, m \in Dated(new) : n.ev.day = m.ev.day => n.ev.ver = m.ev.ver
    BY <2>2, <2>3 DEF OnePerDay, Dated
  <2>11. InOrder(queue, Parts(p), accepted)
    BY DEF QueueInv
  <2>12. \A r \in queue \cup UNION Parts(p), n \in new : r.id < n.id
    BY <2>2, <2>3, <2>5
  <2>13. \A part \in Parts(p) : part = {} /\ part \subseteq Row
    BY <2>5
  <2>14. InOrder(queue \cup new, Parts(p), accepted)
    BY <2>2, <2>3, <2>8, <2>9, <2>10, <2>11, <2>12, <2>13, OrderOfGrowth
  <2>15. \A q \in Proc : q = p
    BY DEF OneCycle
  <2> QED
    BY <2>1, <2>14, <2>15, QueueStable
<1>2. CASE UNCHANGED <<queue, net, rest, stack, accepted>>
  BY <1>2, QueueStable DEF QueueInv
<1> QED
  BY <1>1, <1>2 DEF Collect, LoadCheckpoint, NothingToCollect, ComputeManifest, ParseFiles,
                    set_checkpoint, CollectHeld

LEMMA QueueStep ==
    ASSUME TypeInv, ChunkInv, GuardInv, OneCycle, VersionInv, QueueInv, [Next]_vars
    PROVE  QueueInv'
<1>1. ASSUME NEW p \in Proc, Flush(p) \/ Upload(p) PROVE QueueInv'
  <2>1. net' = net /\ \A q \in Proc : q = p
    BY <1>1, SyncMoves DEF OneCycle
  <2>2. InOrder(queue, Parts(p), accepted)' /\ SourcesApart(p)'
    BY <1>1, OrderSync, SourcesSync DEF QueueInv
  <2> QED
    BY <2>1, <2>2 DEF QueueInv
<1>2. CASE UNCHANGED vars
  BY <1>2, QueueStable DEF vars, store, flushes, remote, QueueInv
<1> QED
  BY <1>1, <1>2, QueueEnvironment, QueueCollect DEF Next

LEMMA VersionStep ==
    ASSUME TypeInv, GuardInv, OneCycle, VersionInv, net = {}, [Next]_vars
    PROVE  VersionInv'
<1>1. CASE UNCHANGED vars
  <2>1. UNCHANGED <<log, manifest, queue, rest, stack, snap, pc, accepted>>
    BY <1>1 DEF vars, disk, store, collects, flushes, remote
  <2>2. \A p \in Proc : Known(p)' = Known(p)
    BY <2>1 DEF Known, Pool, Parts
  <2> QED
    BY <2>1, <2>2, VersionStable
<1> QED
  BY <1>1, VersionEnvironment, VersionCollect, VersionSync DEF Next

LEMMA CommitShowsNewest ==
    ASSUME TypeInv, ChunkInv, QueueInv, NewestShown, NEW p \in Proc, HasChunk(p), Commit(Chunk(p))
    PROVE  NewestShown'
<1> DEFINE chunk == Chunk(p)
           c == (CHOOSE r \in chunk : TRUE).ev.conn
<1>1. /\ chunk \in SUBSET Row /\ chunk \in SUBSET Good
      /\ server \in [Conn -> [Day -> Nat]] /\ accepted \in SUBSET Event /\ nextId \in Nat
  BY TopChunk DEF TypeInv, TypeOK, HasChunk
<1>2. /\ server' = [server EXCEPT ![c] = IngestWindow(server[c], chunk)]
      /\ accepted' = accepted \cup EventsOf(chunk)
  BY DEF Commit
<1>3. chunk # {} /\ \A r \in chunk : r.ev.conn = c
  <2>1. stack[p] \in Seq(SUBSET Row) /\ stack[p] # <<>>
    BY DEF TypeInv, TypeOK, HasChunk
  <2>2. 1 \in 1..Len(stack[p]) /\ chunk = stack[p][1]
    BY <2>1 DEF Chunk
  <2>3. chunk # {} /\ \A r, q \in chunk : r.ev.conn = q.ev.conn
    BY <2>2 DEF ChunkInv, Apart
  <2>4. (CHOOSE r \in chunk : TRUE) \in chunk
    BY <2>3
  <2> QED
    BY <2>3, <2>4
<1>4. /\ Together(chunk, queue, accepted) /\ Ordered(queue \cup UNION Parts(p))
      /\ chunk \in Parts(p)
  BY PartsOfStack DEF QueueInv, InOrder
<1>5. \A r \in chunk : r.id < nextId
  BY <1>1, GoodInRow
<1> HIDE DEF chunk, c
<1> SUFFICES ASSUME NEW e \in accepted', e.conn = Live, e.day # NoDay,
                    server'[Live][e.day] # NoRows
             PROVE  e.ver <= server'[Live][e.day]
  BY DEF NewestShown
<1>6. e \in accepted \/ \E r \in chunk : r.ev = e
  BY <1>2 DEF EventsOf
<1>7. e \in Event /\ e.day \in Day /\ e.ver \in Nat
  BY <1>1, <1>6 DEF Event, Row
<1>8. CASE c # Live
  <2>1. server'[Live] = server[Live]
    BY <1>1, <1>2, <1>8, LiveAssumption
  <2>2. e \in accepted
    BY <1>3, <1>6, <1>8
  <2> QED
    BY <2>1, <2>2 DEF NewestShown
<1>9. CASE c = Live
  <2>1. server'[Live][e.day] = IngestWindow(server[Live], chunk)[e.day]
    BY <1>1, <1>2, <1>9, LiveAssumption
  <2>2. CASE e.day \in DaysOf(chunk)
    <3>1. PICK r \in chunk : /\ r.ev.day = e.day /\ LatestVersion(chunk, e.day) = r.ev.ver
                             /\ \A q \in chunk : q.ev.day = e.day => q.id <= r.id
      BY <1>1, <1>5, <2>2, LatestRow
    <3>2. server'[Live][e.day] = r.ev.ver
      BY <1>7, <2>1, <2>2, <3>1 DEF IngestWindow
    <3>3. r \in Dated(chunk)
      BY <1>3, <1>9, <3>1 DEF Dated
    <3>4. Reaches(chunk, e)
      <4>1. CASE e \in accepted
        BY <1>4, <3>1, <3>3, <4>1 DEF Together, DatedEvents
      <4>2. ASSUME NEW q \in chunk, q.ev = e PROVE Reaches(chunk, e)
        <5>1. q \in Dated(chunk) /\ e.ver <= e.ver
          BY <1>7, <4>2 DEF Dated
        <5> QED
          BY <4>2, <5>1 DEF Reaches
      <4> QED
        BY <1>6, <4>1, <4>2
    <3>5. PICK q \in Dated(chunk) : q.ev.day = e.day /\ e.ver <= q.ev.ver
      BY <3>4 DEF Reaches
    <3>6. q \in chunk /\ q.id <= r.id
      BY <3>1, <3>5 DEF Dated
    <3>7. q.ev.ver <= r.ev.ver
      <4>1. q \in Dated(queue \cup UNION Parts(p)) /\ r \in Dated(queue \cup UNION Parts(p))
        BY <1>4, <3>3, <3>5 DEF Dated
      <4> QED
        BY <1>4, <3>1, <3>5, <3>6, <4>1 DEF Ordered
    <3>8. q.ev.ver \in Nat /\ r.ev.ver \in Nat
      BY <1>1, <3>6 DEF Row, Event
    <3> QED
      BY <1>7, <3>2, <3>5, <3>7, <3>8
  <2>3. CASE e.day \notin DaysOf(chunk)
    <3>1. e \in accepted
      BY <1>6, <2>3 DEF DaysOf
    <3>2. server'[Live][e.day] \in {NoRows, server[Live][e.day]}
      BY <1>7, <2>1, <2>3 DEF IngestWindow
    <3> QED
      BY <3>1, <3>2 DEF NewestShown
  <2> QED
    BY <2>2, <2>3
<1> QED
  BY <1>8, <1>9

LEMMA NewestStep ==
    ASSUME TypeInv, ChunkInv, GuardInv, OneCycle, QueueInv, NewestShown, [Next]_vars
    PROVE  NewestShown'
<1>1. ASSUME NEW p \in Proc, Flush(p) \/ Upload(p) PROVE NewestShown'
  <2>1. UNCHANGED <<server, accepted>> => NewestShown'
    BY DEF NewestShown
  <2> QED
    BY <1>1, <2>1, SyncMoves, CommitShowsNewest
<1>2. CASE UNCHANGED <<server, accepted>>
  BY <1>2 DEF NewestShown
<1>3. (\E p \in Proc : Collect(p)) \/ UNCHANGED vars => UNCHANGED <<server, accepted>>
  BY DEF Collect, LoadCheckpoint, NothingToCollect, ComputeManifest, ParseFiles,
         enqueue_events, set_checkpoint, CollectHeld, vars, remote
<1>4. Environment => UNCHANGED <<server, accepted>>
  BY DEF Environment, LogActivity, LogErased, Edit, ImportExport, LateDelivery, DeletePending,
         Crash, remote, QueueInv
<1> QED
  BY <1>1, <1>2, <1>3, <1>4 DEF Next

(***************************************************************************)
(* With one cycle at a time and no late request, for any days, edits,      *)
(* batch limit, splits, refusals, lost answers and crashes: the service    *)
(* never shows an older content of a day than the newest it accepted.      *)
(***************************************************************************)
THEOREM TheNewestIsShown ==
    ASSUME OneCycle PROVE Spec => []NewestShown
<1>1. Init => ChunkInv /\ GuardInv /\ VersionInv /\ QueueInv /\ NewestShown
  <2>1. Init => ChunkInv /\ NewestShown
    BY DEF Init, ChunkInv, Apart, NewestShown
  <2> QED
    BY <2>1, GuardInit, VersionInit, QueueInit
<1>2. QueueInv => net = {}
  BY DEF QueueInv
<1>3. /\ TypeInv /\ ChunkInv /\ GuardInv /\ VersionInv /\ QueueInv /\ NewestShown
      /\ [Next]_vars
      => ChunkInv' /\ GuardInv' /\ VersionInv' /\ QueueInv' /\ NewestShown'
  BY <1>2, ChunkStep, GuardStep, VersionStep, QueueStep, NewestStep
<1> QED
  BY <1>1, <1>3, TypeInvariance, PTL DEF Spec
-----------------------------------------------------------------------------
(* What a sync step does to one source, when no body is ever split.        *)

\* The rows, and the accepted events, of one source; those a cycle holds.
Of(c, rows) == {r \in rows : r.ev.conn = c}
AcceptedOf(c) == {e \in accepted : e.conn = c}
Mine(p, c) == Of(c, Held(p))

\* One chunk at most is in hand, and it is all the cycle holds of its source.
WholeInv == \A p \in Proc : Len(stack[p]) <= 1 /\ SourcesApart(p)

LEMMA HeldIsParts ==
    ASSUME NEW p \in Proc
    PROVE  Held(p) = UNION Parts(p)
BY DEF Held, Parts

LEMMA SingleTop ==
    ASSUME NEW S, NEW s \in Seq(S), s # <<>>, Len(s) <= 1
    PROVE  Len(s) = 1 /\ Head(s) = s[1] /\ 1 \in 1..Len(s) /\ Len(Tail(s)) = 0
<1>1. Len(s) \in Nat /\ Len(s) # 0
  OBVIOUS
<1>2. Len(s) = 1
  BY <1>1
<1>3. Len(Tail(s)) = 0
  BY <1>2
<1> QED
  BY <1>2, <1>3

LEMMA WholeChunk ==
    ASSUME TypeInv, ChunkInv, WholeInv, NEW p \in Proc, HasChunk(p), NEW c \in Conn
    PROVE  /\ Others(p) = {rest[p]}
           /\ Held(p) = rest[p] \cup Chunk(p)
           /\ \/ /\ \A r \in Chunk(p) : r.ev.conn = c
                 /\ Mine(p, c) = Chunk(p) /\ Chunk(p) # {} /\ Of(c, rest[p]) = {}
              \/ /\ \A r \in Chunk(p) : r.ev.conn # c
                 /\ Mine(p, c) = Of(c, rest[p]) /\ Chunk(p) # {}
<1>1. stack[p] \in Seq(SUBSET Row) /\ stack[p] # <<>> /\ Len(stack[p]) <= 1
  BY DEF TypeInv, TypeOK, HasChunk, WholeInv
<1>2. /\ Len(stack[p]) = 1 /\ Chunk(p) = stack[p][1] /\ 1 \in 1..Len(stack[p])
      /\ 1..Len(Tail(stack[p])) = {}
  BY <1>1, SingleTop DEF Chunk
<1>3. Others(p) = {rest[p]}
  BY <1>2 DEF Others
<1>4. Held(p) = rest[p] \cup Chunk(p)
  BY <1>3, HeldIsParts, PartsOfStack
<1>5. Chunk(p) # {} /\ \A r, q \in Chunk(p) : r.ev.conn = q.ev.conn
  BY <1>2 DEF ChunkInv, Apart
<1>6. \A r \in rest[p], q \in Chunk(p) : r.ev.conn # q.ev.conn
  BY <1>2 DEF WholeInv, SourcesApart
<1> QED
  BY <1>3, <1>4, <1>5, <1>6 DEF Mine, Of

\* What a sync step does to the frame of its cycle, and to no other.
LEMMA FrameMoves ==
    ASSUME TypeInv, ~MaySplit, NEW p \in Proc, Flush(p) \/ Upload(p)
    PROVE  /\ \A q \in Proc \ {p} : stack'[q] = stack[q] /\ rest'[q] = rest[q]
           /\ \/ stack'[p] \in {stack[p], <<>>, <<NextGroup(rest[p])>>}
              \/ stack'[p] = Tail(stack[p]) /\ stack[p] # <<>>
<1> USE DEF TypeInv, TypeOK, flushes
<1>1. CASE StartSync(p) \/ NothingToSync(p) \/ NoToken(p) \/ TakeGroup(p)
  BY <1>1 DEF StartSync, NothingToSync, NoToken, TakeGroup
<1>2. CASE StartUpload(p) \/ record_receipt(p) \/ UploadAccepted(p) \/ RetryUpload(p)
  BY <1>2 DEF StartUpload, record_receipt, UploadAccepted, RetryUpload
<1>3. CASE FinishSync(p) \/ SyncStoreError(p) \/ UploadOffline(p) \/ UploadUnauthorized(p)
  BY <1>3 DEF FinishSync, SyncStoreError, UploadOffline, UploadUnauthorized, Release
<1>4. CASE DropEmptyBatch(p) \/ SkipReceipted(p)
  BY <1>4 DEF DropEmptyBatch, SkipReceipted, Pop, HasChunk
<1>5. CASE PurgeUploaded(p) \/ UploadDegraded(p)
  BY <1>5 DEF PurgeUploaded, UploadDegraded, Pop, FramesWellFormed
<1>6. CASE SplitOversize(p) \/ UploadSplit(p) \/ Quarantine(p)
  BY <1>6 DEF SplitOversize, UploadSplit, Quarantine
<1> QED
  BY <1>1, <1>2, <1>3, <1>4, <1>5, <1>6 DEF Flush, Upload

LEMMA WholeStep ==
    ASSUME TypeInv, GuardInv, WholeInv, ~MaySplit, [Next]_vars
    PROVE  WholeInv'
<1>1. ASSUME NEW p \in Proc, Flush(p) \/ Upload(p) PROVE WholeInv'
  <2>1. \A q \in Proc \ {p} : stack'[q] = stack[q] /\ rest'[q] = rest[q]
    BY <1>1, FrameMoves
  <2>2. \A q \in Proc \ {p} : Len(stack'[q]) <= 1 /\ SourcesApart(q)'
    BY <2>1 DEF WholeInv, SourcesApart
  <2>3. SourcesApart(p) /\ stack[p] \in Seq(SUBSET Row) /\ Len(stack[p]) <= 1
    BY DEF WholeInv, TypeInv, TypeOK
  <2>4. SourcesApart(p)'
    BY <1>1, <2>3, SourcesSync
  <2>5. \/ stack'[p] \in {stack[p], <<>>, <<NextGroup(rest[p])>>}
        \/ stack'[p] = Tail(stack[p]) /\ stack[p] # <<>>
    BY <1>1, FrameMoves
  <2>6. Len(stack'[p]) <= 1
    <3>1. CASE stack'[p] = stack[p]
      BY <2>3, <3>1
    <3>3. CASE stack'[p] = <<>> \/ stack'[p] = <<NextGroup(rest[p])>>
      <4>1. Len(<<>>) = 0 /\ Len(<<NextGroup(rest[p])>>) = 1
        OBVIOUS
      <4>2. Len(stack'[p]) = 0 \/ Len(stack'[p]) = 1
        BY <3>3, <4>1, Zenon
      <4> QED
        BY <4>2
    <3>2. CASE stack'[p] = Tail(stack[p]) /\ stack[p] # <<>>
      BY <2>3, <3>2, SingleTop
    <3> QED
      BY <2>5, <3>1, <3>2, <3>3
  <2>7. \A q \in Proc : Len(stack'[q]) <= 1 /\ SourcesApart(q)'
    <3> SUFFICES ASSUME NEW q \in Proc PROVE Len(stack'[q]) <= 1 /\ SourcesApart(q)'
      OBVIOUS
    <3>1. CASE q = p
      BY <2>4, <2>6, <3>1
    <3>2. CASE q # p
      BY <2>2, <3>2
    <3> QED
      BY <3>1, <3>2
  <2> QED
    BY <2>7 DEF WholeInv
<1>2. CASE UNCHANGED <<rest, stack>>
  BY <1>2 DEF WholeInv, SourcesApart
<1>3. CASE Crash
  BY <1>3 DEF Crash, WholeInv, SourcesApart
<1>4. UNCHANGED vars \/ (\E p \in Proc : Collect(p)) => UNCHANGED <<rest, stack>>
  BY DEF Collect, LoadCheckpoint, NothingToCollect, ComputeManifest, ParseFiles,
         enqueue_events, set_checkpoint, CollectHeld, vars, flushes
<1>5. Environment => Crash \/ UNCHANGED <<rest, stack>>
  BY DEF Environment, LogActivity, LogErased, Edit, ImportExport, LateDelivery, DeletePending,
         flushes
<1> QED
  BY <1>1, <1>2, <1>3, <1>4, <1>5 DEF Next

LEMMA WholeInit == Init => WholeInv
BY DEF Init, WholeInv, SourcesApart

\* The server stores all the cycle holds of the source, or nothing of it.
Stores(p, c) ==
    \/ server'[c] = server[c] /\ AcceptedOf(c)' = AcceptedOf(c)
    \/ /\ Mine(p, c) # {}
       /\ server'[c] = IngestWindow(server[c], Mine(p, c))
       /\ AcceptedOf(c)' = AcceptedOf(c) \cup EventsOf(Mine(p, c))

\* The cycle dequeues, sends or gives up, purges, or purges another source.
Takes(p, c) ==
    /\ Mine(p, c) = {}
    /\ Mine(p, c)' = Of(c, Batch(queue))
    /\ queue' = queue /\ server'[c] = server[c] /\ AcceptedOf(c)' = AcceptedOf(c)

Sends(p, c) ==
    /\ Mine(p, c)' \in {Mine(p, c), {}}
    /\ queue' = queue
    /\ Stores(p, c)

Purges(p, c) ==
    /\ Mine(p, c)' = {}
    /\ queue' = {r \in queue : \A q \in Mine(p, c) : r.id # q.id}
    /\ server'[c] = server[c] /\ AcceptedOf(c)' = AcceptedOf(c)

PurgesOther(p, c) ==
    /\ Mine(p, c)' = Mine(p, c)
    /\ queue' \subseteq queue /\ Of(c, queue') = Of(c, queue)
    /\ server'[c] = server[c] /\ AcceptedOf(c)' = AcceptedOf(c)

LEMMA StoresWhole ==
    ASSUME TypeInv, ChunkInv, WholeInv, NEW p \in Proc, HasChunk(p), NEW c \in Conn,
           \/ UNCHANGED <<server, accepted>>
           \/ Commit(Chunk(p))
    PROVE  Stores(p, c)
<1>1. CASE UNCHANGED <<server, accepted>>
  BY <1>1 DEF Stores, AcceptedOf
<1>2. CASE Commit(Chunk(p))
  <2> DEFINE chunk == Chunk(p)
             b == (CHOOSE r \in chunk : TRUE).ev.conn
  <2>1. /\ server \in [Conn -> [Day -> Nat]]
        /\ server' = [server EXCEPT ![b] = IngestWindow(server[b], chunk)]
        /\ accepted' = accepted \cup EventsOf(chunk)
    BY <1>2 DEF Commit, TypeInv, TypeOK
  <2>2. chunk # {} => \E r \in chunk : r.ev.conn = b
    OBVIOUS
  <2> HIDE DEF chunk, b
  <2>3. CASE /\ \A r \in chunk : r.ev.conn = c
             /\ Mine(p, c) = chunk /\ chunk # {}
    <3>1. b = c
      BY <2>2, <2>3
    <3>2. AcceptedOf(c)' = AcceptedOf(c) \cup EventsOf(chunk)
      BY <2>1, <2>3 DEF AcceptedOf, EventsOf
    <3> QED
      BY <2>1, <2>3, <3>1, <3>2 DEF Stores
  <2>4. CASE (\A r \in chunk : r.ev.conn # c) /\ chunk # {}
    <3>1. b # c
      BY <2>2, <2>4
    <3>2. AcceptedOf(c)' = AcceptedOf(c)
      BY <2>1, <2>4 DEF AcceptedOf, EventsOf
    <3> QED
      BY <2>1, <3>1, <3>2 DEF Stores
  <2> QED
    BY <2>3, <2>4, WholeChunk DEF chunk
<1> QED
  BY <1>1, <1>2

\* The chunk in hand is done with: what is left is of the other sources.
LEMMA PopsWhole ==
    ASSUME TypeInv, ChunkInv, WholeInv, NEW p \in Proc, HasChunk(p), NEW c \in Conn,
           Pop(p), UNCHANGED rest
    PROVE  /\ Mine(p, c)' \in {Mine(p, c), {}}
           /\ PurgeChunk(p) /\ UNCHANGED <<server, accepted>> =>
                 Purges(p, c) \/ PurgesOther(p, c)
<1>1. Held(p)' = rest[p]
  <2>1. Parts(p)' = {rest[p]}
    BY PartsPopped, WholeChunk
  <2>2. Held(p)' = UNION Parts(p)'
    BY DEF Held, Parts
  <2> QED
    BY <2>1, <2>2
<1>2. Mine(p, c)' = Of(c, rest[p])
  BY <1>1 DEF Mine, Of
<1>3. AcceptedOf(c)' = AcceptedOf(c) \/ accepted' # accepted
  BY DEF AcceptedOf
<1>4. queue \subseteq Good /\ Chunk(p) \subseteq Good
  BY TopChunk DEF TypeInv, RowsGood, HasChunk
<1>5. \A r \in queue, q \in Chunk(p) : r.id = q.id => r = q
  BY <1>4 DEF Good, GoodRow
<1>6. CASE Mine(p, c) = Chunk(p) /\ Of(c, rest[p]) = {}
  BY <1>2, <1>3, <1>6 DEF PurgeChunk, Purges
<1>7. CASE Mine(p, c) = Of(c, rest[p]) /\ \A r \in Chunk(p) : r.ev.conn # c
  <2>1. PurgeChunk(p) => queue' \subseteq queue /\ Of(c, queue') = Of(c, queue)
    BY <1>5, <1>7 DEF PurgeChunk, Of
  <2> QED
    BY <1>2, <1>3, <1>7, <2>1 DEF PurgesOther
<1> QED
  BY <1>6, <1>7, WholeChunk

LEMMA SourceStep ==
    ASSUME TypeInv, GuardInv, ChunkInv, WholeInv, ~MaySplit, ~MayDelay,
           NEW p \in Proc, Flush(p) \/ Upload(p), NEW c \in Conn
    PROVE  Takes(p, c) \/ Sends(p, c) \/ Purges(p, c) \/ PurgesOther(p, c)
<1> USE DEF store, flushes, remote
<1>1. CASE StartSync(p)
  <2>1. Parts(p) = {{}} /\ Parts(p)' = {Batch(queue)}
    BY <1>1, PartsDequeued
  <2>2. Held(p) = UNION Parts(p) /\ Held(p)' = UNION Parts(p)'
    BY DEF Held, Parts
  <2>3. Mine(p, c) = {} /\ Mine(p, c)' = Of(c, Batch(queue))
    BY <2>1, <2>2 DEF Mine, Of
  <2>4. UNCHANGED <<queue, server, accepted>>
    BY <1>1 DEF StartSync
  <2> QED
    BY <2>3, <2>4 DEF Takes, AcceptedOf
<1>2. CASE \/ NothingToSync(p) \/ NoToken(p) \/ StartUpload(p) \/ record_receipt(p)
           \/ UploadAccepted(p) \/ RetryUpload(p)
  <2>1. UNCHANGED <<queue, rest, stack>>
    BY <1>2 DEF NothingToSync, NoToken, StartUpload, record_receipt, UploadAccepted, RetryUpload
  <2>2. Mine(p, c)' = Mine(p, c)
    BY <2>1 DEF Mine, Held, Of
  <2>3. Stores(p, c)
    <3>1. CASE NothingToSync(p) \/ NoToken(p) \/ StartUpload(p) \/ record_receipt(p)
      <4>1. UNCHANGED <<server, accepted>>
        BY <3>1 DEF NothingToSync, NoToken, StartUpload, record_receipt
      <4> QED
        BY <4>1 DEF Stores, AcceptedOf
    <3>2. CASE UploadAccepted(p) \/ RetryUpload(p)
      <4>1. HasChunk(p)
        BY <3>2 DEF UploadAccepted, RetryUpload, HasChunk, TypeInv, FramesWellFormed
      <4>2. UNCHANGED <<server, accepted>> \/ Commit(Chunk(p))
        BY <3>2, AnsweredOrNot DEF UploadAccepted, RetryUpload
      <4> QED
        BY <4>1, <4>2, StoresWhole
    <3> QED
      BY <1>2, <3>1, <3>2
  <2> QED
    BY <2>1, <2>2, <2>3 DEF Sends
<1>3. CASE FinishSync(p) \/ SyncStoreError(p) \/ UploadUnauthorized(p) \/ UploadOffline(p)
  <2>1. Release(p) /\ queue' = queue
    BY <1>3 DEF FinishSync, SyncStoreError, UploadUnauthorized, UploadOffline
  <2>2. Mine(p, c)' = {}
    <3>1. Held(p)' = UNION Parts(p)'
      BY DEF Held, Parts
    <3> QED
      BY <2>1, <3>1, PartsReleased DEF Mine, Of
  <2>3. Stores(p, c)
    <3>1. CASE FinishSync(p) \/ SyncStoreError(p) \/ UploadUnauthorized(p)
      <4>1. UNCHANGED <<server, accepted>>
        BY <3>1 DEF FinishSync, SyncStoreError, UploadUnauthorized
      <4> QED
        BY <4>1 DEF Stores, AcceptedOf
    <3>2. CASE UploadOffline(p)
      <4>1. HasChunk(p)
        BY <3>2 DEF UploadOffline, HasChunk, TypeInv, FramesWellFormed
      <4>2. UNCHANGED <<server, accepted>> \/ Commit(Chunk(p))
        BY <3>2, AnsweredOrNot DEF UploadOffline
      <4> QED
        BY <4>1, <4>2, StoresWhole
    <3> QED
      BY <1>3, <3>1, <3>2
  <2> QED
    BY <2>1, <2>2, <2>3 DEF Sends
<1>4. CASE TakeGroup(p)
  <2>1. /\ Parts(p) = {rest[p]}
        /\ Parts(p)' = {rest[p] \ NextGroup(rest[p]), NextGroup(rest[p])}
        /\ UNCHANGED <<queue, server, accepted>>
    BY <1>4, PartsGrouped DEF TakeGroup
  <2>2. Held(p) = UNION Parts(p) /\ Held(p)' = UNION Parts(p)'
    BY DEF Held, Parts
  <2>3. Held(p)' = Held(p)
    BY <2>1, <2>2 DEF NextGroup
  <2> QED
    BY <2>1, <2>3 DEF Sends, Stores, Mine, Of, AcceptedOf
<1>5. CASE DropEmptyBatch(p) \/ SkipReceipted(p) \/ PurgeUploaded(p)
  <2>1. HasChunk(p) /\ Pop(p) /\ PurgeChunk(p) /\ UNCHANGED <<rest, server, accepted>>
    BY <1>5 DEF DropEmptyBatch, SkipReceipted, PurgeUploaded, HasChunk, TypeInv, FramesWellFormed
  <2> QED
    BY <2>1, PopsWhole
<1>6. CASE UploadDegraded(p)
  <2>1. /\ HasChunk(p) /\ Pop(p) /\ UNCHANGED <<rest, queue>>
        /\ UNCHANGED <<server, accepted>> \/ Commit(Chunk(p))
    BY <1>6, AnsweredOrNot DEF UploadDegraded, HasChunk, TypeInv, FramesWellFormed
  <2> QED
    BY <2>1, PopsWhole, StoresWhole DEF Sends
<1>7. ~(SplitOversize(p) \/ UploadSplit(p) \/ Quarantine(p))
  BY DEF SplitOversize, UploadSplit, Quarantine
<1> QED
  BY <1>1, <1>2, <1>3, <1>4, <1>5, <1>6, <1>7 DEF Flush, Upload

\* While it holds rows of the source it is the only one that does.
LEMMA SourceOwner ==
    ASSUME TypeInv, GuardInv, ~MaySplit, NEW p \in Proc, Flush(p) \/ Upload(p), NEW c \in Conn,
           NEW q \in Proc \ {p}
    PROVE  /\ Mine(q, c)' = Mine(q, c)
           /\ Mine(q, c) = {} \/ UNCHANGED <<queue, server, accepted, rest, stack>>
<1>1. Mine(q, c)' = Mine(q, c)
  BY FrameMoves DEF Mine, Held, Of
<1>2. CASE pc[p] \in UploadPC \/ ~inFlight
  <2>1. pc[q] \notin UploadPC
    BY <1>2 DEF GuardInv
  <2>2. rest[q] = {} /\ stack[q] = <<>>
    BY <2>1 DEF GuardInv
  <2> QED
    BY <1>1, <2>2 DEF Mine, Held, Of
<1>3. CASE NothingToSync(p) \/ NoToken(p)
  BY <1>1, <1>3 DEF NothingToSync, NoToken, store, remote, flushes
<1>4. \/ NothingToSync(p) \/ NoToken(p)
      \/ pc[p] \in UploadPC \/ ~inFlight
  BY DEF Flush, StartSync, FinishSync, TakeGroup, DropEmptyBatch,
         SplitOversize, SkipReceipted, StartUpload, record_receipt, PurgeUploaded,
         SyncStoreError, Upload, UploadAccepted, RetryUpload, UploadOffline,
         UploadUnauthorized, UploadDegraded, UploadSplit, Quarantine, UploadPC
<1> QED
  BY <1>2, <1>3, <1>4
-----------------------------------------------------------------------------
(* Imported days stay.                                                     *)

\* The imported rows that are pending, and all those on the device; the days
\* the server committed from the last archive.
Pending == Of(Export, queue)
Stock == Pending \cup UNION {Mine(p, Export) : p \in Proc}
Latest == {e \in AcceptedOf(Export) : e.ver = imports}

\* An earlier archive, or an earlier day of the same one.
Sooner(e, f) == e.ver < f.ver \/ (e.ver = f.ver /\ e.day < f.day)

\* The rows are all of later days of the archive than e.
Past(e, rows) == \A r \in rows : r.ev.ver = e.ver /\ e.day < r.ev.day

\* The rows are numbered in that order, and no two share an id.
ArchiveOrder(rows) == \A r, q \in rows : r.id < q.id => Sooner(r.ev, q.ev)
OneRowPerId(rows) == \A r, q \in rows : r.id = q.id => r = q

\* Rows that are first in the queue, or were so when the user emptied it.
InFront(rows) ==
    \A r \in rows :
        /\ r \in Batch(queue) \/ (r \notin queue /\ \A q \in Pending : r.id < q.id)
        /\ \A q \in Pending : q.id < r.id => q \in rows

(***************************************************************************)
(* The imported rows are in the order of the archives and of their days,   *)
(* and what is sent of them is first in that order.  So a committed day of *)
(* the last archive is behind all that is pending, or goes out again with  *)
(* the next batch; the same holds of what a cycle has in hand.             *)
(***************************************************************************)
ImportInv ==
    /\ IsFiniteSet(queue)
    /\ \A e \in EventsOf(Stock) \cup AcceptedOf(Export) : e.day \in Day /\ e.ver <= imports
    /\ ArchiveOrder(Stock) /\ OneRowPerId(Stock)
    /\ \A e \in Latest : Past(e, Pending) \/ e \in EventsOf(Batch(queue))
    /\ \A p \in Proc : InFront(Mine(p, Export))
    /\ \A p \in Proc, e \in Latest :
          Past(e, Mine(p, Export)) \/ e \in EventsOf(Mine(p, Export))

LEMMA StockType ==
    ASSUME TypeInv
    PROVE  /\ Stock \subseteq Row /\ Stock \subseteq Good
           /\ \A r \in Stock : r.id \in Nat /\ r.ev.ver \in Nat /\ r.ev.day \in Nat
           /\ \A e \in accepted : e.ver \in Nat /\ e.day \in Nat
           /\ imports \in Nat
           /\ queue \in SUBSET Row /\ queue \subseteq Good
<1>1. \A p \in Proc : Held(p) \subseteq Good
  BY HeldIsParts, KnownType
<1>2. queue \in SUBSET Row /\ queue \subseteq Good /\ accepted \subseteq Event /\ imports \in Nat
  BY DEF TypeInv, TypeOK, RowsGood
<1>3. Stock \subseteq Good /\ Stock \subseteq Row
  BY <1>1, <1>2, GoodInRow DEF Stock, Pending, Mine, Of
<1>4. \A e \in Event : e.ver \in Nat /\ e.day \in Nat
  <2>1. Day \cup {NoDay} \subseteq Nat
    BY DayAssumption DEF NoDay
  <2> QED
    BY <2>1 DEF Event
<1>5. \A r \in Row : r.id \in Nat /\ r.ev \in Event
  BY DEF Row
<1>7. \A r \in Stock : r.id \in Nat /\ r.ev.ver \in Nat /\ r.ev.day \in Nat
  BY <1>3, <1>4, <1>5
<1>8. \A e \in accepted : e.ver \in Nat /\ e.day \in Nat
  BY <1>2, <1>4
<1> QED
  BY <1>2, <1>3, <1>7, <1>8

LEMMA MineInStock ==
    ASSUME NEW p \in Proc, NEW r \in Mine(p, Export)
    PROVE  r \in Stock /\ r.ev.conn = Export /\ r.ev \in EventsOf(Stock)
BY DEF Stock, Mine, Of, EventsOf

LEMMA PendingInStock ==
    ASSUME NEW r \in Pending
    PROVE  r \in Stock /\ r.ev.conn = Export /\ r \in queue /\ r.ev \in EventsOf(Stock)
BY DEF Stock, Pending, Of, EventsOf

\* A row that is not after r in the order of ids is not past it.
LEMMA LaterIsPast ==
    ASSUME TypeInv, ImportInv, NEW r \in Stock, r.ev.ver = imports,
           NEW rows \in SUBSET Stock, \A q \in rows : r.id < q.id
    PROVE  Past(r.ev, rows)
<1> SUFFICES ASSUME NEW q \in rows PROVE q.ev.ver = r.ev.ver /\ r.ev.day < q.ev.day
  BY DEF Past
<1>0. q \in Stock /\ r.id < q.id
  OBVIOUS
<1>1. Sooner(r.ev, q.ev) /\ q.ev.ver <= imports
  BY <1>0 DEF ImportInv, ArchiveOrder, EventsOf
<1>2. q.ev.ver \in Nat /\ r.ev.ver \in Nat /\ imports \in Nat
  BY StockType
<1> QED
  BY <1>1, <1>2 DEF Sooner

\* A committed row is behind what is pending, or goes out with it.
LEMMA CommittedBehind ==
    ASSUME TypeInv, ImportInv, NEW p \in Proc, NEW r \in Mine(p, Export), r.ev.ver = imports
    PROVE  Past(r.ev, Pending) \/ r.ev \in EventsOf(Batch(queue))
<1>1. r \in Batch(queue) \/ \A q \in Pending : r.id < q.id
  BY DEF ImportInv, InFront
<1>2. CASE r \in Batch(queue)
  BY <1>2 DEF EventsOf
<1>3. CASE \A q \in Pending : r.id < q.id
  <2>1. r \in Stock /\ Pending \in SUBSET Stock
    BY MineInStock, PendingInStock
  <2> QED
    BY <1>3, <2>1, LaterIsPast
<1> QED
  BY <1>1, <1>2, <1>3

\* What remains after a purge is past the rows that were purged.
LEMMA PurgedBehind ==
    ASSUME TypeInv, ImportInv, NEW p \in Proc,
           NEW less, less = {r \in queue : \A q \in Mine(p, Export) : r.id # q.id},
           NEW e \in Latest
    PROVE  Past(e, Of(Export, less)) \/ e \in EventsOf(Batch(less))
<1>0. queue \in SUBSET Row /\ IsFiniteSet(queue) /\ less \in SUBSET queue
  BY StockType DEF ImportInv
<1>1. CASE Past(e, Pending)
  BY <1>0, <1>1 DEF Past, Pending, Of
<1>2. ASSUME NEW r \in Batch(queue), r.ev = e
      PROVE  Past(e, Of(Export, less)) \/ e \in EventsOf(Batch(less))
  <2>1. r \in queue /\ r.ev.conn = Export /\ r.ev.ver = imports
    BY <1>2 DEF Batch, dequeue_batch, Latest, AcceptedOf
  <2>2. r \in Pending /\ r \in Stock
    BY <2>1 DEF Pending, Of, Stock
  <2>3. CASE r \in less
    BY <1>0, <1>2, <2>3, BatchShrinks DEF EventsOf
  <2>4. CASE r \notin less
    <3>1. PICK m \in Mine(p, Export) : r.id = m.id
      BY <2>1, <2>4
    <3>2. r = m
      BY <2>2, <3>1, MineInStock DEF ImportInv, OneRowPerId
    <3>3. ASSUME NEW q \in Of(Export, less) PROVE q \in Stock /\ r.id < q.id
      <4>1. q \in Pending /\ q \in less /\ q \notin Mine(p, Export) /\ q.id # r.id
        BY <1>0, <3>1, <3>3 DEF Pending, Of
      <4>2. ~(q.id < r.id)
        BY <3>1, <3>2, <4>1 DEF ImportInv, InFront
      <4>3. q \in Stock /\ q.id \in Nat /\ r.id \in Nat
        BY <2>2, <4>1, StockType, PendingInStock
      <4> QED
        BY <4>1, <4>2, <4>3
    <3> QED
      BY <1>2, <2>1, <2>2, <3>3, LaterIsPast
  <2> QED
    BY <2>3, <2>4
<1> QED
  BY <1>1, <1>2 DEF ImportInv, EventsOf

\* No imported row joins, and nothing is accepted but what was on the device.
LEMMA ImportStable ==
    ASSUME ImportInv, IsFiniteSet(queue'), Stock' \subseteq Stock, imports' = imports,
           AcceptedOf(Export)' \subseteq AcceptedOf(Export) \cup EventsOf(Stock),
           \A e \in Latest' : Past(e, Pending') \/ e \in EventsOf(Batch(queue')),
           \A p \in Proc : InFront(Mine(p, Export))',
           \A p \in Proc, e \in Latest' :
              Past(e, Mine(p, Export)') \/ e \in EventsOf(Mine(p, Export)')
    PROVE  ImportInv'
<1>1. EventsOf(Stock') \subseteq EventsOf(Stock)
  BY DEF EventsOf
<1>2. \A e \in EventsOf(Stock') \cup AcceptedOf(Export)' : e.day \in Day /\ e.ver <= imports'
  BY <1>1 DEF ImportInv
<1>3. ArchiveOrder(Stock') /\ OneRowPerId(Stock')
  BY DEF ImportInv, ArchiveOrder, OneRowPerId
<1> QED
  BY <1>2, <1>3 DEF ImportInv, ArchiveOrder, OneRowPerId, Sooner, EventsOf, Past, Batch, dequeue_batch

\* The same, when one cycle alone holds imported rows.
LEMMA ImportAlone ==
    ASSUME ImportInv, NEW p \in Proc, \A q \in Proc \ {p} : Mine(q, Export)' = {},
           IsFiniteSet(queue'), Pending' \subseteq Pending,
           Mine(p, Export)' \subseteq Stock, imports' = imports,
           AcceptedOf(Export)' \subseteq AcceptedOf(Export) \cup EventsOf(Stock),
           \A e \in Latest' : Past(e, Pending') \/ e \in EventsOf(Batch(queue')),
           InFront(Mine(p, Export))',
           \A e \in Latest' : Past(e, Mine(p, Export)') \/ e \in EventsOf(Mine(p, Export)')
    PROVE  ImportInv'
<1>1. \A q \in Proc : Mine(q, Export)' = {} \/ q = p
  OBVIOUS
<1>2. Stock' \subseteq Stock
  BY <1>1 DEF Stock
<1>3. \A q \in Proc : InFront(Mine(q, Export))'
  BY <1>1 DEF InFront
<1>4. \A q \in Proc, e \in Latest' :
         Past(e, Mine(q, Export)') \/ e \in EventsOf(Mine(q, Export)')
  BY <1>1 DEF Past
<1> QED
  BY <1>2, <1>3, <1>4, ImportStable

LEMMA ImportTaken ==
    ASSUME TypeInv, ImportInv, NEW p \in Proc, \A q \in Proc \ {p} : Mine(q, Export)' = {},
           imports' = imports, Takes(p, Export)
    PROVE  ImportInv'
<1>1. /\ Mine(p, Export)' = Of(Export, Batch(queue))
      /\ queue' = queue /\ AcceptedOf(Export)' = AcceptedOf(Export)
  BY DEF Takes
<1>2. queue \in SUBSET Row /\ IsFiniteSet(queue)
  BY StockType DEF ImportInv
<1>3. Latest' = Latest /\ Pending' = Pending
  BY <1>1 DEF Latest, Pending
<1>4. Mine(p, Export)' \subseteq Pending /\ Pending \subseteq Stock
  BY <1>1 DEF Batch, dequeue_batch, Of, Pending, Stock
<1>5. InFront(Mine(p, Export))'
  <2> SUFFICES ASSUME NEW r \in Of(Export, Batch(queue))
               PROVE  /\ r \in Batch(queue)
                      /\ \A q \in Pending : q.id < r.id => q \in Of(Export, Batch(queue))
    BY <1>1, <1>3 DEF InFront, Batch
  <2>1. r \in Batch(queue) /\ r \in Row
    BY <1>2 DEF Of, Batch, dequeue_batch
  <2>2. ASSUME NEW q \in Pending, q.id < r.id PROVE q \in Of(Export, Batch(queue))
    <3>1. q \in queue /\ q.ev.conn = Export /\ q \in Row
      BY <1>2 DEF Pending, Of
    <3>2. q.id <= r.id
      BY <2>1, <2>2, <3>1 DEF Row
    <3> QED
      BY <1>2, <2>1, <3>1, <3>2, BatchClosed DEF Of
  <2> QED
    BY <2>1, <2>2
<1>6. \A e \in Latest : Past(e, Mine(p, Export)') \/ e \in EventsOf(Mine(p, Export)')
  <2> SUFFICES ASSUME NEW e \in Latest
               PROVE  Past(e, Mine(p, Export)') \/ e \in EventsOf(Mine(p, Export)')
    OBVIOUS
  <2>1. CASE Past(e, Pending)
    BY <1>4, <2>1 DEF Past
  <2>2. CASE e \in EventsOf(Batch(queue))
    BY <1>1, <2>2 DEF EventsOf, Of, Latest, AcceptedOf
  <2> QED
    BY <2>1, <2>2 DEF ImportInv
<1>7. \A e \in Latest' : Past(e, Pending') \/ e \in EventsOf(Batch(queue'))
  BY <1>1, <1>3 DEF ImportInv
<1>8. /\ IsFiniteSet(queue') /\ Pending' \subseteq Pending /\ Mine(p, Export)' \subseteq Stock
      /\ AcceptedOf(Export)' \subseteq AcceptedOf(Export) \cup EventsOf(Stock)
  BY <1>1, <1>2, <1>3, <1>4
<1> QED
  BY <1>3, <1>5, <1>6, <1>7, <1>8, ImportAlone

LEMMA ImportSent ==
    ASSUME TypeInv, ImportInv, NEW p \in Proc, \A q \in Proc \ {p} : Mine(q, Export)' = {},
           imports' = imports, Sends(p, Export)
    PROVE  ImportInv'
<1>1. /\ Mine(p, Export)' \in {Mine(p, Export), {}} /\ queue' = queue
      /\ \/ AcceptedOf(Export)' = AcceptedOf(Export)
         \/ AcceptedOf(Export)' = AcceptedOf(Export) \cup EventsOf(Mine(p, Export))
  BY DEF Sends, Stores
<1>2. Pending' = Pending /\ IsFiniteSet(queue')
  BY <1>1 DEF Pending, ImportInv
<1>3. Mine(p, Export) \subseteq Stock /\ EventsOf(Mine(p, Export)) \subseteq EventsOf(Stock)
  BY MineInStock DEF EventsOf
<1>4. \A e \in Latest' : \/ e \in Latest
                         \/ \E r \in Mine(p, Export) : r.ev = e /\ r.ev.ver = imports
  BY <1>1 DEF Latest, EventsOf
<1>5. \A e \in Latest' : Past(e, Pending) \/ e \in EventsOf(Batch(queue))
  BY <1>4, CommittedBehind DEF ImportInv
<1>6. \A e \in Latest' : Past(e, Mine(p, Export)) \/ e \in EventsOf(Mine(p, Export))
  BY <1>4 DEF ImportInv, EventsOf
<1>7. \A e \in Latest' : Past(e, Mine(p, Export)') \/ e \in EventsOf(Mine(p, Export)')
  BY <1>1, <1>6 DEF Past
<1>8. InFront(Mine(p, Export))'
  BY <1>1, <1>2 DEF ImportInv, InFront
<1>9. \A e \in Latest' : Past(e, Pending') \/ e \in EventsOf(Batch(queue'))
  BY <1>1, <1>2, <1>5
<1>10. /\ Pending' \subseteq Pending /\ Mine(p, Export)' \subseteq Stock
       /\ AcceptedOf(Export)' \subseteq AcceptedOf(Export) \cup EventsOf(Stock)
  BY <1>1, <1>2, <1>3
<1> QED
  BY <1>2, <1>7, <1>8, <1>9, <1>10, ImportAlone

LEMMA ImportPurged ==
    ASSUME TypeInv, ImportInv, NEW p \in Proc, \A q \in Proc \ {p} : Mine(q, Export)' = {},
           imports' = imports, Purges(p, Export) \/ PurgesOther(p, Export)
    PROVE  ImportInv'
<1>0. queue \in SUBSET Row /\ IsFiniteSet(queue)
  BY StockType DEF ImportInv
<1>1. queue' \in SUBSET queue /\ AcceptedOf(Export)' = AcceptedOf(Export)
  BY DEF Purges, PurgesOther
<1>2. /\ IsFiniteSet(queue') /\ Latest' = Latest /\ Pending' \subseteq Pending
      /\ AcceptedOf(Export)' \subseteq AcceptedOf(Export) \cup EventsOf(Stock)
  BY <1>0, <1>1, FS_Subset DEF Latest, Pending, Of
<1>3. CASE Purges(p, Export)
  <2>1. /\ Mine(p, Export)' = {}
        /\ queue' = {r \in queue : \A q \in Mine(p, Export) : r.id # q.id}
    BY <1>3 DEF Purges
  <2>2. \A e \in Latest' : Past(e, Pending') \/ e \in EventsOf(Batch(queue'))
    BY <1>2, <2>1, PurgedBehind DEF Pending
  <2>3. /\ InFront(Mine(p, Export))' /\ Mine(p, Export)' \subseteq Stock
        /\ \A e \in Latest' : Past(e, Mine(p, Export)')
    BY <2>1 DEF InFront, Past
  <2> QED
    BY <1>2, <2>2, <2>3, ImportAlone
<1>4. CASE PurgesOther(p, Export)
  <2>1. Mine(p, Export)' = Mine(p, Export) /\ Pending' = Pending
    BY <1>4 DEF PurgesOther, Pending
  <2>2. \A r \in Pending : r \in queue'
    BY <2>1 DEF Pending, Of
  <2>3. \A r \in Pending : r \in Batch(queue) => r \in Batch(queue')
    BY <1>0, <1>1, <2>2, BatchShrinks
  <2>4. ASSUME NEW e \in Latest, NEW r \in Batch(queue), r.ev = e
        PROVE  e \in EventsOf(Batch(queue'))
    <3>1. r \in Pending
      BY <2>4 DEF Batch, dequeue_batch, Pending, Of, Latest, AcceptedOf
    <3> QED
      BY <2>3, <2>4, <3>1 DEF EventsOf
  <2>5. \A e \in Latest' : Past(e, Pending') \/ e \in EventsOf(Batch(queue'))
    BY <1>2, <2>1, <2>4 DEF ImportInv, EventsOf
  <2>6. ASSUME NEW r \in Mine(p, Export)
        PROVE  r \in Batch(queue') \/ (r \notin queue' /\ \A q \in Pending : r.id < q.id)
    <3>1. r \in Batch(queue) => r \in Pending
      BY MineInStock DEF Batch, dequeue_batch, Pending, Of
    <3> QED
      BY <1>1, <2>3, <3>1 DEF ImportInv, InFront
  <2>7. InFront(Mine(p, Export))'
    <3>1. \A r \in Mine(p, Export), q \in Pending : q.id < r.id => q \in Mine(p, Export)
      BY DEF ImportInv, InFront
    <3> QED
      BY <2>1, <2>6, <3>1 DEF InFront, Batch
  <2>8. Mine(p, Export)' \subseteq Stock
    BY <2>1, MineInStock
  <2>9. \A e \in Latest' : Past(e, Mine(p, Export)') \/ e \in EventsOf(Mine(p, Export)')
    BY <1>2, <2>1 DEF ImportInv
  <2> QED
    BY <1>2, <2>5, <2>7, <2>8, <2>9, ImportAlone
<1> QED
  BY <1>3, <1>4

LEMMA ImportSame ==
    ASSUME ImportInv, UNCHANGED <<queue, rest, stack, accepted, imports>>
    PROVE  ImportInv'
<1>1. \A p \in Proc : Mine(p, Export)' = Mine(p, Export)
  BY DEF Mine, Held, Of
<1>2. Stock' = Stock /\ Latest' = Latest /\ Pending' = Pending
  BY <1>1 DEF Stock, Latest, Pending, AcceptedOf
<1>3. \A p \in Proc : InFront(Mine(p, Export))'
  BY <1>1, <1>2 DEF ImportInv, InFront
<1> QED
  BY <1>1, <1>2, <1>3, ImportStable DEF ImportInv, AcceptedOf

LEMMA ImportSync ==
    ASSUME TypeInv, GuardInv, ChunkInv, WholeInv, ImportInv, ~MaySplit, ~MayDelay,
           Export \in Conn, NEW p \in Proc, Flush(p) \/ Upload(p)
    PROVE  ImportInv'
<1>1. imports' = imports
  BY DEF Flush, StartSync, NothingToSync, NoToken, FinishSync, TakeGroup, DropEmptyBatch,
         SplitOversize, SkipReceipted, StartUpload, record_receipt, PurgeUploaded,
         SyncStoreError, Upload, UploadAccepted, RetryUpload, UploadOffline,
         UploadUnauthorized, UploadDegraded, UploadSplit, Quarantine, bounds, Fault
<1>2. \A q \in Proc \ {p} :
         /\ Mine(q, Export)' = Mine(q, Export)
         /\ Mine(q, Export) = {} \/ UNCHANGED <<queue, server, accepted, rest, stack>>
  BY SourceOwner
<1>3. CASE UNCHANGED <<queue, server, accepted, rest, stack>>
  BY <1>1, <1>3, ImportSame
<1>4. CASE \A q \in Proc \ {p} : Mine(q, Export)' = {}
  BY <1>1, <1>4, SourceStep, ImportTaken, ImportSent, ImportPurged
<1> QED
  BY <1>2, <1>3, <1>4

\* New rows of one batch are numbered in the order of their days.
LEMMA NewRowsInOrder ==
    ASSUME TypeInv, NEW evs \in SUBSET Event, OnePerDay(evs)
    PROVE  \A r, q \in FreshRows(queue, evs, nextId) :
              /\ r.id < q.id => r.ev.day < q.ev.day
              /\ r.id = q.id => r = q
<1> DEFINE fresh == FreshEvents(queue, evs)
           before(e) == {f \in fresh : f.day < e.day}
           row(e) == [id |-> nextId + Cardinality(before(e)), ev |-> e]
<1>1. fresh \in SUBSET evs /\ IsFiniteSet(fresh) /\ nextId \in Nat
  BY OnePerDayFinite, FS_Subset DEF FreshEvents, TypeInv, TypeOK
<1>2. \A e \in Event : e.day \in Nat
  <2>1. Day \cup {NoDay} \subseteq Nat
    BY DayAssumption DEF NoDay
  <2> QED
    BY <2>1 DEF Event
<1>3. ASSUME NEW e \in fresh, NEW f \in fresh, ~(e.day < f.day)
      PROVE  ~(row(e).id < row(f).id)
  <2>1. before(f) \in SUBSET before(e) /\ before(e) \in SUBSET fresh
    BY <1>1, <1>2, <1>3
  <2>2. /\ IsFiniteSet(before(e)) /\ IsFiniteSet(before(f))
        /\ Cardinality(before(f)) <= Cardinality(before(e))
    BY <1>1, <2>1, FS_Subset
  <2>3. Cardinality(before(f)) \in Nat /\ Cardinality(before(e)) \in Nat
    BY <2>2, FS_CardinalityType
  <2> HIDE DEF before
  <2> QED
    BY <1>1, <2>2, <2>3
<1>4. FreshRows(queue, evs, nextId) = {row(e) : e \in fresh}
  BY DEF FreshRows
<1>5. \A e \in fresh : row(e).ev = e
  OBVIOUS
<1>6. \A r, q \in FreshRows(queue, evs, nextId) : r.id = q.id => r = q
  BY OnePerDayFinite, FreshRowsFacts DEF TypeInv, TypeOK
<1> HIDE DEF fresh, row
<1> QED
  BY <1>3, <1>4, <1>5, <1>6

\* Rows of an archive nothing is accepted of yet, or of the other source.
LEMMA ImportGrowth ==
    ASSUME TypeInv, ImportInv, NEW new \in SUBSET Row, IsFiniteSet(new),
           queue' = queue \cup new, UNCHANGED <<rest, stack, accepted>>,
           \A r \in Good, n \in new : r.id < n.id,
           \A n, m \in new : n.id = m.id => n = m,
           \/ Of(Export, new) = {} /\ imports' = imports
           \/ /\ imports' = imports + 1
              /\ \A n \in new : n.ev.ver = imports' /\ n.ev.day \in Day
              /\ \A n, m \in new : n.id < m.id => n.ev.day < m.ev.day
    PROVE  ImportInv'
<1>1. \A p \in Proc : Mine(p, Export)' = Mine(p, Export)
  BY DEF Mine, Held, Of
<1>2. AcceptedOf(Export)' = AcceptedOf(Export)
  BY DEF AcceptedOf
<1>3. Pending' = Pending \cup Of(Export, new) /\ Stock' = Stock \cup Of(Export, new)
  BY <1>1 DEF Pending, Stock, Of
<1>4. /\ queue \in SUBSET Row /\ queue \subseteq Good
      /\ Stock \subseteq Good /\ Stock \subseteq Row /\ imports \in Nat
  BY StockType
<1>5. IsFiniteSet(queue')
  BY FS_Union DEF ImportInv
<1>6. \A r \in queue, n \in new : r.id < n.id
  BY <1>4
<1>7. Batch(queue) \subseteq Batch(queue')
  BY <1>4, <1>6, BatchGrows
<1>8. \A r \in Row : r.id \in Nat /\ r.ev.ver \in Nat
  BY DEF Row, Event
<1>9. \A r \in Stock, n \in new : r.id < n.id /\ ~(n.id < r.id) /\ r.id # n.id
  BY <1>4, <1>8
<1>10. ASSUME NEW p \in Proc PROVE InFront(Mine(p, Export))'
  <2>1. ASSUME NEW r \in Mine(p, Export)
        PROVE  /\ r \in Batch(queue') \/ (r \notin queue' /\ \A q \in Pending' : r.id < q.id)
               /\ \A q \in Pending' : q.id < r.id => q \in Mine(p, Export)
    <3>1. r \in Stock
      BY MineInStock
    <3>2. \A n \in Of(Export, new) : n \in new
      BY DEF Of
    <3> QED
      BY <1>3, <1>7, <1>9, <3>1, <3>2 DEF ImportInv, InFront
  <2> QED
    BY <1>1, <2>1 DEF InFront, Batch
<1>11. CASE Of(Export, new) = {} /\ imports' = imports
  <2>1. Pending' = Pending /\ Stock' = Stock /\ Latest' = Latest
    BY <1>2, <1>3, <1>11 DEF Latest
  <2>2. \A e \in Latest' : Past(e, Pending') \/ e \in EventsOf(Batch(queue'))
    BY <1>7, <2>1 DEF ImportInv, EventsOf
  <2> QED
    BY <1>1, <1>2, <1>5, <1>10, <1>11, <2>1, <2>2, ImportStable DEF ImportInv
<1>12. CASE /\ imports' = imports + 1
            /\ \A n \in new : n.ev.ver = imports' /\ n.ev.day \in Day
            /\ \A n, m \in new : n.id < m.id => n.ev.day < m.ev.day
  <2>1. \A e \in EventsOf(Stock) \cup AcceptedOf(Export) : e.ver \in Nat /\ e.ver <= imports
    BY StockType DEF ImportInv, EventsOf, AcceptedOf
  <2>2. Latest' = {}
    BY <1>2, <1>4, <1>12, <2>1 DEF Latest
  <2>3. ASSUME NEW e \in EventsOf(Stock') \cup AcceptedOf(Export)'
        PROVE  e.day \in Day /\ e.ver <= imports'
    <3>1. CASE e \in EventsOf(Stock) \cup AcceptedOf(Export)
      <4>1. e.day \in Day /\ e.ver <= imports /\ e.ver \in Nat
        BY <2>1, <3>1 DEF ImportInv
      <4> QED
        BY <1>4, <1>12, <4>1
    <3>2. CASE e \in EventsOf(new)
      BY <1>4, <1>12, <3>2 DEF EventsOf
    <3> QED
      BY <1>2, <1>3, <2>3, <3>1, <3>2 DEF EventsOf, Of
  <2>4. ASSUME NEW r \in Stock', NEW q \in Stock'
        PROVE  (r.id < q.id => Sooner(r.ev, q.ev)) /\ (r.id = q.id => r = q)
    <3>1. CASE r \in Stock /\ q \in Stock
      BY <3>1 DEF ImportInv, ArchiveOrder, OneRowPerId
    <3>2. CASE r \in Stock /\ q \in new
      <4>1. r.ev.ver \in Nat /\ r.ev.ver <= imports /\ q.ev.ver = imports + 1
        BY <1>12, <2>1, <3>2 DEF EventsOf
      <4> QED
        BY <1>4, <1>9, <3>2, <4>1 DEF Sooner
    <3>3. CASE r \in new /\ q \in Stock
      BY <1>9, <3>3
    <3>4. CASE r \in new /\ q \in new
      BY <1>12, <3>4 DEF Sooner
    <3> QED
      BY <1>3, <3>1, <3>2, <3>3, <3>4 DEF Of
  <2>5. ArchiveOrder(Stock') /\ OneRowPerId(Stock')
    BY <2>4 DEF ArchiveOrder, OneRowPerId
  <2>6. (ArchiveOrder(Stock) /\ OneRowPerId(Stock))'
    BY <2>5 DEF ArchiveOrder, OneRowPerId, Sooner
  <2> QED
    BY <1>5, <1>10, <2>2, <2>3, <2>6 DEF ImportInv
<1> QED
  BY <1>11, <1>12

\* A collection pass reads the live connector's events.
SnapInv == \A p \in Proc : \A s \in snap[p] : s.conn = Live

LEMMA SnapStep == TypeInv /\ SnapInv /\ [Next]_vars => SnapInv'
<1> SUFFICES ASSUME TypeInv, SnapInv, [Next]_vars PROVE SnapInv'
  OBVIOUS
<1>1. ASSUME NEW p \in Proc, Collect(p) PROVE SnapInv'
  <2>1. \A q \in Proc \ {p} : snap'[q] = snap[q]
    BY <1>1 DEF Collect, LoadCheckpoint, NothingToCollect, ComputeManifest, ParseFiles,
           enqueue_events, set_checkpoint, CollectHeld, EndCollect, collects, TypeInv, TypeOK
  <2>2. snap'[p] = snap[p] \/ \A s \in snap'[p] : s.conn = Live
    BY <1>1 DEF Collect, LoadCheckpoint, NothingToCollect, ComputeManifest, ParseFiles,
           enqueue_events, set_checkpoint, CollectHeld, EndCollect, collects, TypeInv, TypeOK,
           LiveEvent
  <2> QED
    BY <2>1, <2>2 DEF SnapInv
<1>2. CASE UNCHANGED snap
  BY <1>2 DEF SnapInv
<1>3. CASE Crash
  BY <1>3 DEF Crash, SnapInv
<1>4. Environment => Crash \/ UNCHANGED snap
  BY DEF Environment, LogActivity, LogErased, Edit, ImportExport, LateDelivery, DeletePending,
         collects
<1>5. \A p \in Proc : Flush(p) \/ Upload(p) => UNCHANGED snap
  BY DEF Flush, StartSync, NothingToSync, NoToken, FinishSync, TakeGroup, DropEmptyBatch,
         SplitOversize, SkipReceipted, StartUpload, record_receipt, PurgeUploaded,
         SyncStoreError, Upload, UploadAccepted, RetryUpload, UploadOffline,
         UploadUnauthorized, UploadDegraded, UploadSplit, Quarantine, collects
<1>6. UNCHANGED vars => UNCHANGED snap
  BY DEF vars, collects
<1> QED
  BY <1>1, <1>2, <1>3, <1>4, <1>5, <1>6 DEF Next

LEMMA ImportEnvironment ==
    ASSUME TypeInv, ImportInv, net = {}, Environment
    PROVE  ImportInv'
<1> USE DEF store, collects, flushes, remote, bounds
<1>1. CASE UNCHANGED <<queue, rest, stack, accepted, imports>>
  BY <1>1, ImportSame
<1>2. ASSUME NEW days \in SUBSET Day, ImportExport(days) PROVE ImportInv'
  <2> DEFINE evs == {[conn |-> Export, day |-> d, ver |-> imports + 1] : d \in days}
             new == FreshRows(queue, evs, nextId)
  <2>1. Export \in Conn /\ imports \in Nat
    BY <1>2, BoundsAssumption DEF ImportExport, TypeInv, TypeOK
  <2>2. /\ evs \in SUBSET Event /\ OnePerDay(evs)
        /\ \A e \in evs : e.ver = imports + 1 /\ e.day \in Day
    BY <2>1 DEF Event, OnePerDay
  <2>3. queue' = queue \cup new /\ UNCHANGED <<rest, stack, accepted>> /\ imports' = imports + 1
    BY <1>2 DEF ImportExport
  <2> HIDE DEF evs
  <2>4. /\ new \in SUBSET Row /\ IsFiniteSet(new)
        /\ \A n \in new : n.ev \in evs
        /\ \A r \in Good, n \in new : r.id < n.id
    BY <2>2, NewRows
  <2>6. /\ \A n, m \in new : n.id < m.id => n.ev.day < m.ev.day
        /\ \A n, m \in new : n.id = m.id => n = m
    BY <2>2, NewRowsInOrder
  <2> HIDE DEF new
  <2>5. \A n \in new : n.ev.ver = imports' /\ n.ev.day \in Day
    BY <2>2, <2>3, <2>4
  <2>7. new \in SUBSET Row /\ IsFiniteSet(new) /\ \A r \in Good, n \in new : r.id < n.id
    BY <2>4
  <2> QED
    BY <2>3, <2>5, <2>6, <2>7, ImportGrowth
<1>3. CASE DeletePending
  <2>1. queue' = {} /\ UNCHANGED <<rest, stack, accepted, imports>>
    BY <1>3 DEF DeletePending
  <2>2. \A q \in Proc : Mine(q, Export)' = Mine(q, Export)
    BY <2>1 DEF Mine, Held, Of
  <2>3. Latest' = Latest /\ Pending' = {} /\ AcceptedOf(Export)' = AcceptedOf(Export)
    BY <2>1 DEF Latest, Pending, AcceptedOf, Of
  <2>4. Stock' \subseteq Stock
    BY <2>2, <2>3 DEF Stock
  <2>5. \A q \in Proc : InFront(Mine(q, Export))'
    BY <2>1, <2>3 DEF InFront
  <2>6. \A e \in Latest' : Past(e, Pending')
    BY <2>3 DEF Past
  <2>7. IsFiniteSet(queue')
    BY <2>1, FS_EmptySet
  <2> QED
    BY <2>1, <2>2, <2>3, <2>4, <2>5, <2>6, <2>7, ImportStable DEF ImportInv
<1>4. CASE Crash
  <2>1. /\ UNCHANGED <<queue, accepted, imports>>
        /\ \A p \in Proc : rest'[p] = {} /\ stack'[p] = <<>>
    BY <1>4 DEF Crash, Fault
  <2>2. \A q \in Proc : Mine(q, Export)' = {}
    BY <2>1 DEF Mine, Held, Of
  <2>3. Latest' = Latest /\ Pending' = Pending /\ AcceptedOf(Export)' = AcceptedOf(Export)
    BY <2>1 DEF Latest, Pending, AcceptedOf
  <2>4. Stock' \subseteq Stock
    BY <2>2, <2>3 DEF Stock
  <2>5. \A q \in Proc : InFront(Mine(q, Export))' /\ \A e : Past(e, Mine(q, Export)')
    BY <2>2 DEF InFront, Past
  <2> QED
    BY <2>1, <2>2, <2>3, <2>4, <2>5, ImportStable DEF ImportInv
<1>5. (\E d \in Day : LogActivity(d) \/ LogErased(d)) =>
          UNCHANGED <<queue, rest, stack, accepted, imports>>
  BY DEF LogActivity, LogErased, Edit
<1>6. ~(\E chunk \in net : LateDelivery(chunk))
  OBVIOUS
<1> QED
  BY <1>1, <1>2, <1>3, <1>4, <1>5, <1>6 DEF Environment

LEMMA ImportCollect ==
    ASSUME TypeInv, SnapInv, ImportInv, Export # Live, NEW p \in Proc, Collect(p)
    PROVE  ImportInv'
<1> USE DEF store, flushes, remote, bounds
<1>1. CASE enqueue_events(p)
  <2> DEFINE new == FreshRows(queue, snap[p], nextId)
  <2>1. queue' = queue \cup new /\ UNCHANGED <<rest, stack, accepted, imports>>
    BY <1>1 DEF enqueue_events
  <2>2. snap[p] \in SUBSET Event /\ OnePerDay(snap[p])
    BY DEF TypeInv, TypeOK, FramesWellFormed
  <2>3. /\ new \in SUBSET Row /\ IsFiniteSet(new)
        /\ \A n \in new : n.ev \in snap[p]
        /\ \A r \in Good, n \in new : r.id < n.id
        /\ \A n, m \in new : n.id = m.id => n = m
    BY <2>2, NewRows, NewRowsInOrder
  <2> HIDE DEF new
  <2>4. Of(Export, new) = {}
    BY <2>3 DEF SnapInv, Of
  <2> QED
    BY <2>1, <2>3, <2>4, ImportGrowth
<1>2. CASE UNCHANGED <<queue, rest, stack, accepted, imports>>
  BY <1>2, ImportSame
<1> QED
  BY <1>1, <1>2 DEF Collect, LoadCheckpoint, NothingToCollect, ComputeManifest, ParseFiles,
                    set_checkpoint, CollectHeld, Fault

LEMMA ImportInit ==
    ASSUME Export # Live, Init
    PROVE  ImportInv
<1>1. queue \in {{}, {UndecodableRow}} /\ accepted = {}
  BY DEF Init
<1>2. Pending = {} /\ Latest = {} /\ AcceptedOf(Export) = {}
  BY <1>1 DEF Pending, Of, UndecodableRow, Latest, AcceptedOf
<1>3. \A p \in Proc : Mine(p, Export) = {}
  BY DEF Init, Mine, Held, Of
<1>4. Stock = {} /\ EventsOf(Stock) = {}
  BY <1>2, <1>3 DEF Stock, EventsOf
<1>5. IsFiniteSet(queue)
  <2>1. IsFiniteSet({}) /\ IsFiniteSet({UndecodableRow})
    BY FS_EmptySet, FS_Singleton
  <2> QED
    BY <1>1, <2>1
<1>6. ArchiveOrder(Stock) /\ OneRowPerId(Stock)
  BY <1>4 DEF ArchiveOrder, OneRowPerId
<1>7. \A p \in Proc : InFront(Mine(p, Export))
  BY <1>3 DEF InFront
<1> QED
  BY <1>2, <1>4, <1>5, <1>6, <1>7 DEF ImportInv

\* A commit leaves an imported day of the last archive alone, or repeats it.
LEMMA ImportCommitted ==
    ASSUME TypeInv, ImportInv, ImportKept, Export \in Conn, imports' = imports,
           NEW p \in Proc, Stores(p, Export)
    PROVE  ImportKept'
<1> DEFINE mine == Mine(p, Export)
<1>1. CASE server'[Export] = server[Export] /\ AcceptedOf(Export)' = AcceptedOf(Export)
  BY <1>1 DEF ImportKept, AcceptedOf
<1>2. CASE /\ server'[Export] = IngestWindow(server[Export], mine)
           /\ AcceptedOf(Export)' = AcceptedOf(Export) \cup EventsOf(mine)
  <2> SUFFICES ASSUME NEW e \in AcceptedOf(Export)', e.ver = imports
               PROVE  server'[Export][e.day] = e.ver
    BY DEF ImportKept, AcceptedOf
  <2>1. mine \subseteq Stock /\ EventsOf(mine) \subseteq EventsOf(Stock)
    BY MineInStock DEF EventsOf
  <2>2. e.day \in Day /\ e.day \in Nat /\ e.day # NoDay
    <3>1. e.day \in Day
      BY <1>2, <2>1 DEF ImportInv
    <3> QED
      BY <3>1, DayAssumption
  <2>3. mine \in SUBSET Row /\ mine \subseteq Good /\ imports \in Nat
    BY <2>1, StockType
  <2>4. e \in EventsOf(mine) \/ (e \in Latest /\ Past(e, mine))
    BY <1>2 DEF ImportInv, Latest
  <2>5. CASE e \in EventsOf(mine)
    <3>1. PICK q \in mine : q.ev = e
      BY <2>5 DEF EventsOf
    <3>2. e.day \in DaysOf(mine)
      BY <2>2, <3>1 DEF DaysOf
    <3>3. nextId \in Nat /\ \A r \in mine : r.id < nextId
      BY <2>3, GoodInRow DEF TypeInv, TypeOK
    <3>4. PICK r \in mine : /\ LatestVersion(mine, e.day) = r.ev.ver
                            /\ \A x \in mine : x.ev.day = e.day => x.id <= r.id
      BY <2>3, <3>2, <3>3, LatestRow
    <3>5. server'[Export][e.day] = r.ev.ver
      BY <1>2, <2>2, <3>2, <3>4 DEF IngestWindow
    <3>6. /\ q.id \in Nat /\ r.id \in Nat /\ q.id <= r.id
          /\ q \in Stock /\ r \in Stock
      BY <2>1, <3>1, <3>4, StockType
    <3>7. CASE q.id < r.id
      <4>1. Sooner(q.ev, r.ev) /\ r.ev.ver <= imports
        BY <3>6, <3>7 DEF ImportInv, ArchiveOrder, EventsOf
      <4>2. r.ev.ver \in Nat /\ q.ev.ver = imports
        BY <3>1, <3>6, StockType
      <4> QED
        BY <2>3, <3>1, <3>5, <4>1, <4>2 DEF Sooner
    <3>8. CASE q.id = r.id
      BY <3>1, <3>5, <3>6, <3>8 DEF ImportInv, OneRowPerId
    <3> QED
      BY <3>6, <3>7, <3>8
  <2>6. CASE e \in Latest /\ Past(e, mine)
    <3>1. \A d \in DaysOf(mine) : e.day < d
      BY <2>6 DEF Past, DaysOf
    <3>2. \A d \in DaysOf(mine) : d \in Nat
      BY <2>1, StockType DEF DaysOf
    <3>3. e.day \notin DaysOf(mine) /\ e.day \notin Window(mine)
      BY <2>2, <3>1, <3>2 DEF Window
    <3>4. server'[Export][e.day] = server[Export][e.day]
      BY <1>2, <2>2, <3>3 DEF IngestWindow
    <3> QED
      BY <2>6, <3>4 DEF ImportKept, Latest, AcceptedOf
  <2> QED
    BY <2>4, <2>5, <2>6
<1> QED
  BY <1>1, <1>2 DEF Stores

\* Where no request is left on its way, none arrives late.
LEMMA NetStays ==
    ASSUME ~MayDelay, net = {}, [Next]_vars
    PROVE  net' = {}
<1>1. \A chunk : Unanswered(chunk) => net' = net
  BY DEF Unanswered, remote
<1>2. \A p \in Proc : Upload(p) => net' = net
  BY <1>1 DEF Upload, UploadAccepted, RetryUpload, UploadOffline, UploadUnauthorized,
              UploadDegraded, UploadSplit, Quarantine, remote
<1>3. \A p \in Proc : Flush(p) => net' = net
  BY DEF Flush, StartSync, NothingToSync, NoToken, FinishSync, TakeGroup, DropEmptyBatch,
         SplitOversize, SkipReceipted, StartUpload, record_receipt, PurgeUploaded,
         SyncStoreError, remote
<1>4. \A p \in Proc : Collect(p) => net' = net
  BY DEF Collect, LoadCheckpoint, NothingToCollect, ComputeManifest, ParseFiles,
         enqueue_events, set_checkpoint, CollectHeld, remote
<1>5. Environment => net' = net
  BY DEF Environment, LogActivity, LogErased, Edit, ImportExport, LateDelivery, DeletePending,
         Crash, remote
<1>6. UNCHANGED vars => net' = net
  BY DEF vars, remote
<1> QED
  BY <1>2, <1>3, <1>4, <1>5, <1>6 DEF Next

LEMMA ImportStep ==
    ASSUME TypeInv, GuardInv, ChunkInv, WholeInv, SnapInv, ImportInv, net = {},
           ~MaySplit, ~MayDelay, Export # Live, Export \in Conn, [Next]_vars
    PROVE  ImportInv'
<1>1. CASE UNCHANGED vars
  BY <1>1, ImportSame DEF vars, store, flushes, remote, bounds
<1> QED
  BY <1>1, ImportEnvironment, ImportCollect, ImportSync DEF Next

LEMMA ImportKeptStep ==
    ASSUME TypeInv, GuardInv, ChunkInv, WholeInv, ImportInv, ImportKept, net = {},
           ~MaySplit, ~MayDelay, Export \in Conn, [Next]_vars
    PROVE  ImportKept'
<1>1. ASSUME NEW p \in Proc, Flush(p) \/ Upload(p) PROVE ImportKept'
  <2>1. imports' = imports
    BY <1>1 DEF Flush, StartSync, NothingToSync, NoToken, FinishSync, TakeGroup, DropEmptyBatch,
           SplitOversize, SkipReceipted, StartUpload, record_receipt, PurgeUploaded,
           SyncStoreError, Upload, UploadAccepted, RetryUpload, UploadOffline,
           UploadUnauthorized, UploadDegraded, UploadSplit, Quarantine, bounds, Fault
  <2>2. \/ Stores(p, Export)
        \/ server'[Export] = server[Export] /\ AcceptedOf(Export)' = AcceptedOf(Export)
    BY <1>1, SourceStep DEF Takes, Sends, Purges, PurgesOther
  <2>3. CASE server'[Export] = server[Export] /\ AcceptedOf(Export)' = AcceptedOf(Export)
    BY <2>1, <2>3 DEF ImportKept, AcceptedOf
  <2> QED
    BY <2>1, <2>2, <2>3, ImportCommitted
<1>2. CASE UNCHANGED <<server, accepted, imports>>
  BY <1>2 DEF ImportKept
<1>3. ASSUME NEW days \in SUBSET Day, ImportExport(days) PROVE ImportKept'
  <2>1. imports' = imports + 1 /\ accepted' = accepted /\ imports \in Nat
    BY <1>3 DEF ImportExport, remote, TypeInv, TypeOK
  <2>2. \A e \in AcceptedOf(Export) : e.ver \in Nat /\ e.ver <= imports
    BY StockType DEF ImportInv, AcceptedOf
  <2>3. \A e \in AcceptedOf(Export) : e.ver # imports'
    BY <2>1, <2>2
  <2> QED
    BY <2>1, <2>3 DEF ImportKept, AcceptedOf
<1>4. (\E p \in Proc : Collect(p)) \/ UNCHANGED vars => UNCHANGED <<server, accepted, imports>>
  BY DEF Collect, LoadCheckpoint, NothingToCollect, ComputeManifest, ParseFiles,
         enqueue_events, set_checkpoint, CollectHeld, vars, remote, bounds, Fault
<1>5. Environment => \/ \E days \in SUBSET Day : ImportExport(days)
                     \/ UNCHANGED <<server, accepted, imports>>
  BY DEF Environment, LogActivity, LogErased, Edit, LateDelivery, DeletePending,
         Crash, remote, bounds, Fault
<1> QED
  BY <1>1, <1>2, <1>3, <1>4, <1>5 DEF Next

(***************************************************************************)
(* Any number of cycles at once, any batch limit, any lost answers,        *)
(* refusals, crashes, deletions and re-imports: a day of the last imported *)
(* archive that the service committed stays as committed, while no body is *)
(* split and no request arrives late.                                      *)
(***************************************************************************)
THEOREM ImportedDaysStay ==
    ASSUME ~MaySplit, ~MayDelay, Export # Live
    PROVE  Spec => []ImportKept
<1>1. CASE Export \in Conn
  <2>1. Init => /\ ChunkInv /\ GuardInv /\ WholeInv /\ SnapInv /\ ImportInv /\ net = {}
                /\ ImportKept
    <3>1. Init => ChunkInv /\ SnapInv /\ net = {} /\ ImportKept
      BY DEF Init, ChunkInv, Apart, SnapInv, ImportKept
    <3> QED
      BY <3>1, GuardInit, WholeInit, ImportInit
  <2>2. /\ TypeInv /\ ChunkInv /\ GuardInv /\ WholeInv /\ SnapInv /\ ImportInv /\ net = {}
        /\ ImportKept /\ [Next]_vars
        => /\ ChunkInv' /\ GuardInv' /\ WholeInv' /\ SnapInv' /\ ImportInv' /\ (net = {})'
           /\ ImportKept'
    BY <1>1, ChunkStep, GuardStep, WholeStep, SnapStep, ImportStep, NetStays, ImportKeptStep
  <2> QED
    BY <2>1, <2>2, TypeInvariance, PTL DEF Spec
<1>2. CASE Export \notin Conn
  <2>1. TypeInv => ImportKept
    BY <1>2 DEF TypeInv, TypeOK, Event, ImportKept
  <2> QED
    BY <2>1, TypeInvariance, PTL
<1> QED
  BY <1>1, <1>2
-----------------------------------------------------------------------------
(* The service shows the current content.                                  *)

\* The service accepted the day's current content, and nobody gave it up.
Delivered(d) == log[d] # NoRows /\ LiveEvent(d) \in accepted \ excused

\* Rows that go out together say again all that was delivered.
Full(rows) == rows = {} \/ \A d \in Day : Delivered(d) => LiveEvent(d) \in EventsOf(rows)

(***************************************************************************)
(* What was delivered is shown, and whatever the live connector is about   *)
(* to send, be it just read, pending or in hand, says it again: nothing    *)
(* delivered is in a window without being in the batch.  The live rows in  *)
(* hand are all the live rows there are.                                   *)
(***************************************************************************)
DeliveredInv ==
    /\ \A d \in Day : Delivered(d) => server[Live][d] = log[d]
    /\ Full(Of(Live, queue))
    /\ \A p \in Proc : Full(Mine(p, Live))
    /\ \A p \in Proc : Mine(p, Live) = {} \/ Of(Live, queue) \in {{}, Mine(p, Live)}
    /\ \A p \in Proc : pc[p] = "enqueue" =>
          \A d \in Day : Delivered(d) => LiveEvent(d) \in snap[p]

\* Nothing more is delivered when nothing more is accepted of the connector.
LEMMA DeliveredShrinks ==
    ASSUME log' = log, AcceptedOf(Live)' \subseteq AcceptedOf(Live), excused \subseteq excused'
    PROVE  \A d \in Day : Delivered(d)' => Delivered(d) /\ log'[d] = log[d]
BY DEF Delivered, LiveEvent, AcceptedOf

LEMMA DeliveredStable ==
    ASSUME DeliveredInv, server'[Live] = server[Live],
           \A d \in Day : Delivered(d)' => Delivered(d) /\ log'[d] = log[d],
           Of(Live, queue') \in {Of(Live, queue), {}},
           \A p \in Proc : Mine(p, Live)' \in {Mine(p, Live), {}},
           \A p \in Proc : pc'[p] = "enqueue" => pc[p] = "enqueue" /\ snap'[p] = snap[p]
    PROVE  DeliveredInv'
<1>1. \A d \in Day : Delivered(d)' => LiveEvent(d)' = LiveEvent(d)
  BY DEF LiveEvent
<1>2. \A rows : Full(rows)
        => rows = {} \/ \A d \in Day : Delivered(d)' => LiveEvent(d)' \in EventsOf(rows)
  BY <1>1 DEF Full
<1>3. \A d \in Day : Delivered(d)' => server'[Live][d] = log'[d]
  BY DEF DeliveredInv
<1>4. Full(Of(Live, queue))'
  BY <1>2 DEF DeliveredInv, Full, EventsOf
<1>5. \A p \in Proc : Full(Mine(p, Live))'
  BY <1>2 DEF DeliveredInv, Full, EventsOf
<1>6. \A p \in Proc : Mine(p, Live)' = {} \/ Of(Live, queue') \in {{}, Mine(p, Live)'}
  BY DEF DeliveredInv
<1>7. \A p \in Proc : pc'[p] = "enqueue" =>
         \A d \in Day : Delivered(d)' => LiveEvent(d)' \in snap'[p]
  BY <1>1 DEF DeliveredInv
<1> QED
  BY <1>3, <1>4, <1>5, <1>6, <1>7 DEF DeliveredInv, Of

\* No content is accepted that the log does not have yet.
LEMMA DeliveredEdit ==
    ASSUME TypeInv, VersionInv, Proc # {}, NEW d \in Day, LogActivity(d) \/ LogErased(d)
    PROVE  \A c \in Day : Delivered(c)' => Delivered(c) /\ log'[c] = log[c]
<1>1. /\ log' = [log EXCEPT ![d] = manifest + 1] \/ log' = [log EXCEPT ![d] = NoRows]
      /\ UNCHANGED <<accepted, excused>>
  BY DEF LogActivity, LogErased, Edit, remote
<1>2. log \in [Day -> Nat] /\ manifest \in Nat
  BY DEF TypeInv, TypeOK
<1> SUFFICES ASSUME NEW c \in Day, Delivered(c)' PROVE Delivered(c) /\ log'[c] = log[c]
  OBVIOUS
<1>3. CASE c # d
  BY <1>1, <1>2, <1>3 DEF Delivered, LiveEvent
<1>4. CASE c = d
  <2>1. LiveEvent(d)' \in accepted /\ log'[d] = manifest + 1
    BY <1>1, <1>2, <1>4 DEF Delivered
  <2>2. LiveEvent(d)' \in DatedEvents(accepted) /\ LiveEvent(d)'.ver = manifest + 1
    BY <2>1, DayAssumption DEF LiveEvent, DatedEvents
  <2>3. PICK p \in Proc : TRUE
    OBVIOUS
  <2>4. LiveEvent(d)' \in Known(p)
    BY <2>2 DEF Known, Pool, DatedEvents
  <2>5. manifest + 1 <= manifest
    BY <2>2, <2>4 DEF VersionInv
  <2> QED
    BY <1>2, <2>5
<1> QED
  BY <1>3, <1>4

\* A queue that fits in one batch is dequeued whole.
LEMMA WholeQueue ==
    ASSUME IsFiniteSet(queue), queue \in SUBSET Row, Cardinality(queue) <= Limit
    PROVE  Batch(queue) = queue
<1> SUFFICES ASSUME NEW r \in queue
             PROVE  Cardinality({q \in queue : q.id < r.id}) < Limit
  BY DEF Batch, dequeue_batch
<1> DEFINE below == {q \in queue : q.id < r.id}
<1>1. r.id \in Nat
  BY DEF Row
<1>2. below \in SUBSET (queue \ {r})
  BY <1>1
<1>3. IsFiniteSet(queue \ {r}) /\ Cardinality(queue \ {r}) = Cardinality(queue) - 1
  BY FS_RemoveElement
<1>4. Cardinality(below) <= Cardinality(queue \ {r}) /\ IsFiniteSet(below)
  BY <1>2, <1>3, FS_Subset
<1>5. Cardinality(below) \in Nat /\ Cardinality(queue) \in Nat /\ Limit \in Nat
  BY <1>4, FS_CardinalityType, BoundsAssumption
<1> QED
  BY <1>3, <1>4, <1>5

\* The batch becomes what the service shows.
LEMMA DeliveredCommit ==
    ASSUME TypeInv, OneCycle, VersionInv, QueueInv, DeliveredInv, NEW p \in Proc,
           UNCHANGED <<log, queue, snap>>, excused \subseteq excused',
           pc'[p] # "enqueue", Mine(p, Live)' \in {Mine(p, Live), {}},
           Mine(p, Live) # {},
           server'[Live] = IngestWindow(server[Live], Mine(p, Live)),
           AcceptedOf(Live)' = AcceptedOf(Live) \cup EventsOf(Mine(p, Live))
    PROVE  DeliveredInv'
<1> DEFINE mine == Mine(p, Live)
<1>0. \A q \in Proc : q = p
  BY DEF OneCycle
<1>1. \A d \in Day : LiveEvent(d)' = LiveEvent(d)
  BY DEF LiveEvent
<1>2. mine \subseteq Good /\ mine \in SUBSET Row /\ nextId \in Nat /\ \A r \in mine : r.id < nextId
  <2>1. mine \subseteq Good
    BY HeldIsParts, KnownType DEF Mine, Of
  <2> QED
    BY <2>1, GoodInRow DEF TypeInv, TypeOK
<1>3. mine \subseteq UNION Parts(p) /\ \A r \in mine : r.ev.conn = Live
  BY HeldIsParts DEF Mine, Of
<1>4. ASSUME NEW d \in Day, Delivered(d)' PROVE LiveEvent(d) \in EventsOf(mine)
  <2>1. log[d] # NoRows /\ LiveEvent(d) \notin excused
    BY <1>1, <1>4 DEF Delivered
  <2>2. LiveEvent(d) \in AcceptedOf(Live)'
    BY <1>1, <1>4 DEF Delivered, AcceptedOf, LiveEvent
  <2>3. CASE LiveEvent(d) \in AcceptedOf(Live)
    BY <2>1, <2>3 DEF Delivered, AcceptedOf, DeliveredInv, Full
  <2> QED
    BY <2>2, <2>3
<1>5. ASSUME NEW d \in Day, Delivered(d)' PROVE server'[Live][d] = log'[d]
  <2>1. PICK q \in mine : q.ev = LiveEvent(d)
    BY <1>4, <1>5 DEF EventsOf
  <2>2. q.ev.day = d /\ q.ev.ver = log[d] /\ d # NoDay /\ log[d] # NoRows
    BY <1>5, <2>1, DayAssumption DEF LiveEvent, Delivered
  <2>3. d \in DaysOf(mine)
    BY <2>2 DEF DaysOf
  <2>4. PICK r \in mine : /\ r.ev.day = d /\ LatestVersion(mine, d) = r.ev.ver
                          /\ \A x \in mine : x.ev.day = d => x.id <= r.id
    BY <1>2, <2>3, LatestRow
  <2>5. server'[Live][d] = r.ev.ver
    BY <2>3, <2>4 DEF IngestWindow
  <2>6. q \in Dated(queue \cup UNION Parts(p)) /\ r \in Dated(queue \cup UNION Parts(p))
    BY <1>3, <2>2, <2>4 DEF Dated
  <2>7. q.ev.ver <= r.ev.ver
    <3>1. Ordered(queue \cup UNION Parts(p))
      BY DEF QueueInv, InOrder
    <3> QED
      BY <2>2, <2>4, <2>6, <3>1 DEF Ordered
  <2>8. r.ev.ver <= log[d]
    <3>1. r.ev \in Known(p)
      BY <2>6 DEF Known, Pool, DatedEvents, Dated, EventsOf
    <3> QED
      BY <2>2, <2>4, <3>1 DEF VersionInv
  <2>9. r.ev.ver \in Nat /\ log[d] \in Nat
    BY <1>2 DEF Row, Event, TypeInv, TypeOK
  <2> QED
    BY <2>2, <2>5, <2>7, <2>8, <2>9
<1>6. Of(Live, queue') \in {{}, mine}
  BY DEF DeliveredInv
<1>7. \A rows \in {{}, mine} :
        rows = {} \/ \A d \in Day : Delivered(d)' => LiveEvent(d)' \in EventsOf(rows)
  BY <1>1, <1>4
<1>8. Full(Of(Live, queue))'
  BY <1>6, <1>7 DEF Full, EventsOf, Of
<1>9. \A q \in Proc : Full(Mine(q, Live))'
  BY <1>0, <1>7 DEF Full, EventsOf
<1>10. \A q \in Proc : Mine(q, Live)' = {} \/ Of(Live, queue') \in {{}, Mine(q, Live)'}
  BY <1>0, <1>6
<1>11. \A q \in Proc : pc'[q] # "enqueue"
  BY <1>0
<1> QED
  BY <1>5, <1>8, <1>9, <1>10, <1>11 DEF DeliveredInv, Of

\* With the queue in one batch, the cycle takes all the live rows.
LEMMA DeliveredTaken ==
    ASSUME TypeInv, OneCycle, QueueInv, DeliveredInv, Cardinality(queue) <= Limit, NEW p \in Proc,
           log' = log, excused \subseteq excused', pc'[p] # "enqueue", Takes(p, Live)
    PROVE  DeliveredInv'
<1>0. \A q \in Proc : q = p
  BY DEF OneCycle
<1>1. /\ Mine(p, Live)' = Of(Live, queue) /\ queue' = queue
      /\ server'[Live] = server[Live] /\ AcceptedOf(Live)' = AcceptedOf(Live)
  <2>1. IsFiniteSet(queue) /\ queue \in SUBSET Row
    BY DEF QueueInv, InOrder, TypeInv, TypeOK
  <2> QED
    BY <2>1, WholeQueue DEF Takes
<1>2. \A d \in Day : Delivered(d)' => Delivered(d) /\ LiveEvent(d)' = LiveEvent(d)
  BY <1>1, DeliveredShrinks DEF LiveEvent
<1>3. Full(Of(Live, queue))'
  BY <1>1, <1>2 DEF DeliveredInv, Full, EventsOf, Of
<1>4. \A q \in Proc : Full(Mine(q, Live))'
  BY <1>0, <1>1, <1>2 DEF DeliveredInv, Full, EventsOf
<1>5. \A d \in Day : Delivered(d)' => server'[Live][d] = log'[d]
  BY <1>1, <1>2 DEF DeliveredInv
<1>6. \A q \in Proc : Mine(q, Live)' = {} \/ Of(Live, queue') \in {{}, Mine(q, Live)'}
  BY <1>0, <1>1
<1>7. \A q \in Proc : pc'[q] # "enqueue"
  BY <1>0
<1> QED
  BY <1>3, <1>4, <1>5, <1>6, <1>7 DEF DeliveredInv, Of

LEMMA DeliveredSync ==
    ASSUME TypeInv, GuardInv, ChunkInv, WholeInv, OneCycle, VersionInv, QueueInv, DeliveredInv,
           Cardinality(queue) <= Limit, ~MaySplit, excused \subseteq excused',
           NEW p \in Proc, Flush(p) \/ Upload(p)
    PROVE  DeliveredInv'
<1>0. \A q \in Proc : q = p
  BY DEF OneCycle
<1>1. log' = log /\ snap' = snap
  BY SyncMoves
<1>2. pc'[p] # "enqueue"
  BY GotoType, ReleaseType DEF TypeInv, TypeOK, PC, UploadPC, Goto, Release,
       Flush, StartSync, NothingToSync, NoToken, FinishSync, TakeGroup, DropEmptyBatch,
         SplitOversize, SkipReceipted, StartUpload, record_receipt, PurgeUploaded,
         SyncStoreError, Upload, UploadAccepted, RetryUpload, UploadOffline,
         UploadUnauthorized, UploadDegraded, UploadSplit, Quarantine
<1>3. Takes(p, Live) \/ Sends(p, Live) \/ Purges(p, Live) \/ PurgesOther(p, Live)
  BY SourceStep, LiveAssumption DEF OneCycle
<1>4. CASE Takes(p, Live)
  BY <1>1, <1>2, <1>4, DeliveredTaken
<1>5. ASSUME Sends(p, Live), AcceptedOf(Live)' # AcceptedOf(Live) \/ server'[Live] # server[Live]
      PROVE  DeliveredInv'
  BY <1>1, <1>2, <1>5, DeliveredCommit DEF Sends, Stores
<1>6. ASSUME server'[Live] = server[Live], AcceptedOf(Live)' = AcceptedOf(Live),
             Of(Live, queue') \in {Of(Live, queue), {}},
             Mine(p, Live)' \in {Mine(p, Live), {}}
      PROVE  DeliveredInv'
  <2>1. \A d \in Day : Delivered(d)' => Delivered(d) /\ log'[d] = log[d]
    BY <1>1, <1>6, DeliveredShrinks
  <2>2. \A q \in Proc : Mine(q, Live)' \in {Mine(q, Live), {}}
    BY <1>0, <1>6
  <2>3. \A q \in Proc : pc'[q] # "enqueue"
    BY <1>0, <1>2
  <2> QED
    BY <1>6, <2>1, <2>2, <2>3, DeliveredStable
<1>7. CASE Purges(p, Live)
  <2>1. Of(Live, queue) \in {{}, Mine(p, Live)} \/ Mine(p, Live) = {}
    BY DEF DeliveredInv
  <2>2. Of(Live, queue') \in {Of(Live, queue), {}}
    BY <1>7, <2>1 DEF Purges, Of
  <2> QED
    BY <1>6, <1>7, <2>2 DEF Purges
<1>8. CASE PurgesOther(p, Live)
  BY <1>6, <1>8 DEF PurgesOther
<1> QED
  BY <1>3, <1>4, <1>5, <1>6, <1>7, <1>8 DEF Sends

LEMMA DeliveredEnvironment ==
    ASSUME TypeInv, OneCycle, VersionInv, QueueInv, DeliveredInv, Proc # {},
           excused \subseteq excused', Environment
    PROVE  DeliveredInv'
<1> USE DEF store, collects, flushes, remote
<1>1. ASSUME NEW d \in Day, LogActivity(d) \/ LogErased(d) PROVE DeliveredInv'
  <2>1. UNCHANGED <<queue, snap, pc, rest, stack, server>>
    BY <1>1 DEF LogActivity, LogErased, Edit
  <2>2. \A p \in Proc : Mine(p, Live)' = Mine(p, Live)
    BY <2>1 DEF Mine, Held, Of
  <2>3. \A c \in Day : Delivered(c)' => Delivered(c) /\ log'[c] = log[c]
    BY <1>1, DeliveredEdit
  <2> QED
    BY <2>1, <2>2, <2>3, DeliveredStable
<1>2. ASSUME NEW days \in SUBSET Day, ImportExport(days) PROVE DeliveredInv'
  <2> DEFINE evs == {[conn |-> Export, day |-> d, ver |-> imports + 1] : d \in days}
             new == FreshRows(queue, evs, nextId)
  <2>1. Export \in Conn /\ imports \in Nat
    BY <1>2, BoundsAssumption DEF ImportExport, TypeInv, TypeOK
  <2>2. evs \in SUBSET Event /\ OnePerDay(evs) /\ \A e \in evs : e.conn # Live
    BY <2>1 DEF Event, OnePerDay, OneCycle
  <2>3. queue' = queue \cup new /\ UNCHANGED <<log, snap, pc, rest, stack, server, accepted>>
    BY <1>2 DEF ImportExport, disk
  <2> HIDE DEF evs
  <2>4. \A n \in new : n.ev \in evs
    BY <2>2, NewRows
  <2> HIDE DEF new
  <2>5. Of(Live, queue') = Of(Live, queue)
    BY <2>2, <2>3, <2>4 DEF Of
  <2>6. \A p \in Proc : Mine(p, Live)' = Mine(p, Live)
    BY <2>3 DEF Mine, Held, Of
  <2>7. \A c \in Day : Delivered(c)' => Delivered(c) /\ log'[c] = log[c]
    BY <2>3, DeliveredShrinks DEF AcceptedOf
  <2> QED
    BY <2>3, <2>5, <2>6, <2>7, DeliveredStable
<1>3. CASE DeletePending
  <2>1. queue' = {} /\ UNCHANGED <<log, snap, pc, rest, stack, server, accepted>>
    BY <1>3 DEF DeletePending, disk
  <2>2. Of(Live, queue') = {}
    BY <2>1 DEF Of
  <2>3. \A p \in Proc : Mine(p, Live)' = Mine(p, Live)
    BY <2>1 DEF Mine, Held, Of
  <2>4. \A c \in Day : Delivered(c)' => Delivered(c) /\ log'[c] = log[c]
    BY <2>1, DeliveredShrinks DEF AcceptedOf
  <2> QED
    BY <2>1, <2>2, <2>3, <2>4, DeliveredStable
<1>4. CASE Crash
  <2>1. /\ UNCHANGED <<log, queue, server, accepted>>
        /\ \A p \in Proc : rest'[p] = {} /\ stack'[p] = <<>> /\ pc'[p] = "idle"
    BY <1>4 DEF Crash, disk
  <2>2. \A p \in Proc : Mine(p, Live)' = {}
    BY <2>1 DEF Mine, Held, Of
  <2>3. \A c \in Day : Delivered(c)' => Delivered(c) /\ log'[c] = log[c]
    BY <2>1, DeliveredShrinks DEF AcceptedOf
  <2> QED
    BY <2>1, <2>2, <2>3, DeliveredStable
<1>5. ~(\E chunk \in net : LateDelivery(chunk))
  BY DEF QueueInv
<1> QED
  BY <1>1, <1>2, <1>3, <1>4, <1>5 DEF Environment

LEMMA DeliveredCollect ==
    ASSUME TypeInv, GuardInv, OneCycle, DeliveredInv,
           excused \subseteq excused', NEW p \in Proc, Collect(p)
    PROVE  DeliveredInv'
<1> USE DEF store, flushes, remote
<1>0. \A q \in Proc : q = p
  BY DEF OneCycle
<1>1. UNCHANGED <<log, rest, stack, server, accepted>>
  BY DEF Collect, LoadCheckpoint, NothingToCollect, ComputeManifest, ParseFiles,
         enqueue_events, set_checkpoint, CollectHeld, disk
<1>2. \A q \in Proc : Mine(q, Live)' = Mine(q, Live)
  BY <1>1 DEF Mine, Held, Of
<1>3. \A d \in Day : Delivered(d)' => Delivered(d) /\ log'[d] = log[d]
  BY <1>1, DeliveredShrinks DEF AcceptedOf
<1>4. \A d \in Day : LiveEvent(d)' = LiveEvent(d)
  BY <1>1 DEF LiveEvent
<1>5. ASSUME NEW unreadable \in SUBSET Day, ParseFiles(p, unreadable) PROVE DeliveredInv'
  <2>1. /\ snap'[p] = {LiveEvent(d) : d \in {c \in Day : log[c] # NoRows} \ unreadable}
        /\ excused' = excused \cup {LiveEvent(d) : d \in unreadable}
        /\ queue' = queue
    BY <1>5 DEF ParseFiles, TypeInv, TypeOK
  <2>2. ASSUME NEW d \in Day, Delivered(d)' PROVE LiveEvent(d)' \in snap'[p]
    <3>1. log[d] # NoRows /\ LiveEvent(d) \notin excused'
      BY <1>1, <1>4, <2>2 DEF Delivered
    <3>2. d \notin unreadable
      BY <2>1, <3>1
    <3> QED
      BY <1>4, <2>1, <3>1, <3>2
  <2>3. \A d \in Day : Delivered(d)' => server'[Live][d] = log'[d]
    BY <1>1, <1>3 DEF DeliveredInv
  <2>4. Full(Of(Live, queue))' /\ \A q \in Proc : Full(Mine(q, Live))'
    BY <1>2, <1>3, <1>4, <2>1 DEF DeliveredInv, Full, EventsOf, Of
  <2>5. \A q \in Proc : Mine(q, Live)' = {} \/ Of(Live, queue)' \in {{}, Mine(q, Live)'}
    BY <1>2, <2>1 DEF DeliveredInv, Of
  <2> QED
    BY <1>0, <2>2, <2>3, <2>4, <2>5 DEF DeliveredInv
<1>6. CASE enqueue_events(p)
  <2>1. /\ pc[p] = "enqueue" /\ pc'[p] = "checkpoint"
        /\ queue' = queue \cup FreshRows(queue, snap[p], nextId)
    BY <1>6, GotoType DEF enqueue_events, TypeInv, TypeOK, PC
  <2>2. EventsOf(queue') = EventsOf(queue) \cup snap[p]
    <3>1. /\ queue \in SUBSET Row /\ nextId \in Nat
          /\ snap[p] \in SUBSET Event /\ OnePerDay(snap[p])
      BY DEF TypeInv, TypeOK, FramesWellFormed
    <3> QED
      BY <2>1, <3>1, OnePerDayFinite, FreshRowsFacts
  <2>3. ASSUME NEW d \in Day, Delivered(d)' PROVE LiveEvent(d)' \in EventsOf(Of(Live, queue'))
    <3>1. LiveEvent(d)' \in EventsOf(queue') /\ LiveEvent(d)'.conn = Live
      BY <1>3, <1>4, <2>1, <2>2, <2>3 DEF DeliveredInv, LiveEvent
    <3> QED
      BY <3>1 DEF EventsOf, Of
  <2>4. Mine(p, Live) = {}
    BY <2>1 DEF GuardInv, UploadPC, Mine, Held, Of
  <2>5. Full(Of(Live, queue))'
    BY <2>3 DEF Full, EventsOf, Of
  <2>6. \A q \in Proc : Mine(q, Live)' = {} /\ pc'[q] # "enqueue"
    BY <1>0, <1>2, <2>1, <2>4
  <2>7. \A d \in Day : Delivered(d)' => server'[Live][d] = log'[d]
    BY <1>1, <1>3 DEF DeliveredInv
  <2>8. \A q \in Proc : Full(Mine(q, Live))'
    BY <2>6 DEF Full
  <2> QED
    BY <2>5, <2>6, <2>7, <2>8 DEF DeliveredInv
<1>7. CASE \/ LoadCheckpoint(p) \/ NothingToCollect(p) \/ ComputeManifest(p)
           \/ set_checkpoint(p) \/ CollectHeld(p)
  <2>1. queue' = queue /\ pc'[p] # "enqueue"
    BY <1>7, GotoType DEF LoadCheckpoint, NothingToCollect, ComputeManifest, set_checkpoint,
           CollectHeld, EndCollect, TypeInv, TypeOK, PC
  <2>2. \A q \in Proc : pc'[q] # "enqueue"
    BY <1>0, <2>1
  <2> QED
    BY <1>1, <1>2, <1>3, <2>1, <2>2, DeliveredStable
<1> QED
  BY <1>5, <1>6, <1>7 DEF Collect

LEMMA DeliveredInit == Init => DeliveredInv
<1> SUFFICES ASSUME Init PROVE DeliveredInv
  OBVIOUS
<1>1. accepted = {} /\ \A p \in Proc : rest[p] = {} /\ stack[p] = <<>> /\ pc[p] = "idle"
  BY DEF Init
<1>2. \A p \in Proc : Mine(p, Live) = {}
  BY <1>1 DEF Mine, Held, Of
<1>3. \A d \in Day : ~Delivered(d)
  BY <1>1 DEF Delivered
<1> QED
  BY <1>1, <1>2, <1>3 DEF DeliveredInv, Full

LEMMA DeliveredStep ==
    ASSUME TypeInv, AckInv, GuardInv, ChunkInv, WholeInv, OneCycle, VersionInv, QueueInv,
           DeliveredInv, Cardinality(queue) <= Limit, ~MaySplit, Proc # {}, [Next]_vars
    PROVE  DeliveredInv'
<1>1. excused \subseteq excused'
  BY KeepsStep DEF Keeps
<1>2. CASE UNCHANGED vars
  <2>1. UNCHANGED <<log, queue, snap, pc, rest, stack, server, accepted>>
    BY <1>2 DEF vars, disk, store, collects, flushes, remote
  <2>2. \A p \in Proc : Mine(p, Live)' = Mine(p, Live)
    BY <2>1 DEF Mine, Held, Of
  <2>3. \A d \in Day : Delivered(d)' => Delivered(d) /\ log'[d] = log[d]
    BY <1>1, <2>1, DeliveredShrinks DEF AcceptedOf
  <2> QED
    BY <2>1, <2>2, <2>3, DeliveredStable
<1> QED
  BY <1>1, <1>2, DeliveredEnvironment, DeliveredCollect, DeliveredSync DEF Next

(***************************************************************************)
(* One cycle at a time, no late request, no split, and a queue that goes   *)
(* out in one batch: whatever else was lost, refused, deleted, imported or *)
(* interrupted, once everything has settled the service shows the current  *)
(* content of every day that was not given up.                             *)
(***************************************************************************)
THEOREM SettledDaysAreCurrent ==
    ASSUME OneCycle, Proc # {}, ~MaySplit
    PROVE  Spec /\ [](Cardinality(queue) <= Limit) => []SettledDayCurrent
<1>1. Init => /\ ChunkInv /\ GuardInv /\ WholeInv /\ VersionInv /\ QueueInv /\ CursorInv
              /\ DeliveredInv
  <2>1. Init => ChunkInv
    BY DEF Init, ChunkInv, Apart
  <2> QED
    BY <2>1, GuardInit, WholeInit, VersionInit, QueueInit, CursorInit, DeliveredInit
<1>2. /\ TypeInv /\ AckInv /\ ChunkInv /\ GuardInv /\ WholeInv /\ VersionInv /\ QueueInv
      /\ CursorInv /\ DeliveredInv /\ Cardinality(queue) <= Limit /\ [Next]_vars
      => /\ ChunkInv' /\ GuardInv' /\ WholeInv' /\ VersionInv' /\ QueueInv' /\ CursorInv'
         /\ DeliveredInv'
  <2>1. QueueInv => net = {}
    BY DEF QueueInv
  <2> QED
    BY <2>1, ChunkStep, GuardStep, WholeStep, VersionStep, QueueStep, CursorStep, DeliveredStep
<1>3. CursorInv /\ DeliveredInv => SettledDayCurrent
  <2> SUFFICES ASSUME CursorInv, DeliveredInv, Settled, NEW d \in Day, log[d] # NoRows
               PROVE  server[Live][d] = log[d] \/ LiveEvent(d) \in excused
    BY DEF SettledDayCurrent
  <2>1. log[d] <= checkpoint
    BY DEF CursorInv, Settled
  <2>2. LiveEvent(d) \in accepted \cup excused
    BY <2>1 DEF CursorInv, CoveredTo, Accounted, Settled, EventsOf
  <2> QED
    BY <2>2 DEF DeliveredInv, Delivered
<1> QED
  BY <1>1, <1>2, <1>3, AckInvariance, PTL DEF Spec

-----------------------------------------------------------------------------
(* The promise.                                                            *)

\* The live connector's contents, told apart by day and version.
LEMMA ContentsOf ==
    ASSUME NEW evs
    PROVE  /\ \A c \in Contents(evs) : \E e \in DatedEvents(evs) : e.day = c.day /\ e.ver = c.ver
           /\ \A e \in DatedEvents(evs) : [day |-> e.day, ver |-> e.ver] \in Contents(evs)
BY DEF Contents, DatedEvents

LEMMA ContentsType ==
    ASSUME NEW evs \in SUBSET Event
    PROVE  /\ \A d \in Day, v \in Nat :
                 [day |-> d, ver |-> v] \in Contents(evs)
                    <=> [conn |-> Live, day |-> d, ver |-> v] \in evs
           /\ \A c \in Contents(evs) : c \in [day : Day, ver : Nat]
<1>1. ASSUME NEW d \in Day, NEW v \in Nat, [conn |-> Live, day |-> d, ver |-> v] \in evs
      PROVE  [day |-> d, ver |-> v] \in Contents(evs)
  <2> DEFINE e == [conn |-> Live, day |-> d, ver |-> v]
  <2>1. e \in DatedEvents(evs) /\ e.day = d /\ e.ver = v
    BY <1>1, DayAssumption DEF DatedEvents
  <2> QED
    BY <2>1, ContentsOf
<1>2. ASSUME NEW d \in Day, NEW v \in Nat, [day |-> d, ver |-> v] \in Contents(evs)
      PROVE  [conn |-> Live, day |-> d, ver |-> v] \in evs
  <2>1. PICK e \in evs : e.conn = Live /\ [day |-> d, ver |-> v] = [day |-> e.day, ver |-> e.ver]
    BY <1>2 DEF Contents
  <2>2. e = [conn |-> Live, day |-> d, ver |-> v]
    BY <2>1 DEF Event
  <2> QED
    BY <2>2
<1>3. ASSUME NEW c \in Contents(evs) PROVE c \in [day : Day, ver : Nat]
  BY DEF Contents, Event
<1> QED
  BY <1>1, <1>2, <1>3

\* What a committed batch of the live connector makes of its days, ...
LEMMA CommitSets ==
    ASSUME TypeInv, ChunkInv, VersionInv, QueueInv, NEW p \in Proc, HasChunk(p), Commit(Chunk(p)),
           \A r \in Chunk(p) : r.ev.conn = Live,
           NEW d \in DaysOf(Chunk(p))
    PROVE  \E r \in Chunk(p) :
              /\ r.ev.day = d /\ server'[Live][d] = r.ev.ver
              /\ r.ev.ver <= manifest /\ (log[d] = NoRows \/ r.ev.ver <= log[d])
              /\ \A e \in DatedEvents(accepted') : e.day = d => e.ver <= r.ev.ver
<1> DEFINE chunk == Chunk(p)
           c == (CHOOSE r \in chunk : TRUE).ev.conn
<1>1. /\ chunk \in SUBSET Row /\ chunk \in SUBSET Good
      /\ server \in [Conn -> [Day -> Nat]] /\ accepted \in SUBSET Event /\ nextId \in Nat
  BY TopChunk DEF TypeInv, TypeOK, HasChunk
<1>2. /\ server' = [server EXCEPT ![c] = IngestWindow(server[c], chunk)]
      /\ accepted' = accepted \cup EventsOf(chunk)
  BY DEF Commit
<1>3. c = Live /\ chunk # {}
  <2>1. chunk # {}
    BY DEF DaysOf
  <2> QED
    BY <2>1
<1>4. /\ Together(chunk, queue, accepted) /\ Ordered(queue \cup UNION Parts(p))
      /\ chunk \in Parts(p)
  BY PartsOfStack DEF QueueInv, InOrder
<1>5. \A r \in chunk : r.id < nextId
  BY <1>1, GoodInRow
<1>6. d \in DaysOf(chunk) /\ \A r \in chunk : r.ev.conn = Live
  OBVIOUS
<1> HIDE DEF chunk, c
<1>7. d \in Day /\ d # NoDay
  BY <1>1, <1>6 DEF DaysOf, Row, Event
<1>8. PICK r \in chunk : /\ r.ev.day = d /\ LatestVersion(chunk, d) = r.ev.ver
                         /\ \A q \in chunk : q.ev.day = d => q.id <= r.id
  BY <1>1, <1>5, <1>6, LatestRow
<1>9. server'[Live][d] = r.ev.ver
  BY <1>1, <1>2, <1>3, <1>6, <1>7, <1>8, LiveAssumption DEF IngestWindow
<1>10. r \in Dated(chunk) /\ r.ev.ver \in Nat
  BY <1>1, <1>6, <1>7, <1>8 DEF Dated, Row, Event
<1>11. r.ev.ver <= manifest /\ (log[d] = NoRows \/ r.ev.ver <= log[d])
  <2>1. r.ev \in Known(p)
    BY <1>4, <1>10 DEF Known, Pool, DatedEvents, Dated, EventsOf
  <2> QED
    BY <1>8, <2>1 DEF VersionInv
<1>12. ASSUME NEW q \in Dated(chunk), q.ev.day = d PROVE q.ev.ver <= r.ev.ver
  <2>1. q \in chunk /\ q.id <= r.id
    BY <1>8, <1>12 DEF Dated
  <2>2. q \in Dated(queue \cup UNION Parts(p)) /\ r \in Dated(queue \cup UNION Parts(p))
    BY <1>4, <1>10 DEF Dated
  <2> QED
    BY <1>4, <1>8, <1>12, <2>1, <2>2 DEF Ordered
<1>13. ASSUME NEW e \in DatedEvents(accepted'), e.day = d PROVE e.ver <= r.ev.ver
  <2>1. e \in DatedEvents(accepted) \/ \E q \in Dated(chunk) : q.ev = e
    BY <1>2 DEF DatedEvents, EventsOf, Dated
  <2>2. CASE \E q \in Dated(chunk) : q.ev = e
    BY <1>12, <1>13, <2>2
  <2>3. CASE e \in DatedEvents(accepted)
    <3>1. Reaches(chunk, e)
      BY <1>4, <1>8, <1>10, <1>13, <2>3 DEF Together
    <3>2. PICK q \in Dated(chunk) : q.ev.day = e.day /\ e.ver <= q.ev.ver
      BY <3>1 DEF Reaches
    <3>3. q.ev.ver <= r.ev.ver
      BY <1>12, <1>13, <3>2
    <3>4. e.ver \in Nat /\ q.ev.ver \in Nat
      BY <1>1, <2>3 DEF DatedEvents, Dated, Row, Event
    <3> QED
      BY <1>10, <3>2, <3>3, <3>4
  <2> QED
    BY <2>1, <2>2, <2>3
<1> QED
  BY <1>8, <1>9, <1>11, <1>13 DEF chunk

\* ... and of the others.
LEMMA CommitLeaves ==
    ASSUME TypeInv, NEW p \in Proc, HasChunk(p), Commit(Chunk(p)),
           \A r \in Chunk(p) : r.ev.conn = Live, Chunk(p) # {},
           NEW d \in Day \ DaysOf(Chunk(p))
    PROVE  \/ server'[Live][d] = server[Live][d]
           \/ /\ server'[Live][d] = NoRows
              /\ \E a, b \in DaysOf(Chunk(p)) : a < d /\ d < b
<1> DEFINE chunk == Chunk(p)
           c == (CHOOSE r \in chunk : TRUE).ev.conn
<1>1. chunk \in SUBSET Row /\ server \in [Conn -> [Day -> Nat]]
  BY TopChunk DEF TypeInv, TypeOK, HasChunk
<1>2. c = Live
  OBVIOUS
<1>3. server' = [server EXCEPT ![c] = IngestWindow(server[c], chunk)]
  BY DEF Commit
<1> HIDE DEF c
<1>4. server'[Live][d] = IngestWindow(server[Live], chunk)[d]
  BY <1>1, <1>2, <1>3, LiveAssumption
<1>5. CASE d \in Window(chunk)
  <2>1. server'[Live][d] = NoRows
    BY <1>4, <1>5 DEF IngestWindow
  <2>2. PICK a \in DaysOf(chunk), b \in DaysOf(chunk) : a <= d /\ d <= b
    BY <1>5 DEF Window
  <2>3. a # d /\ b # d /\ a \in Nat /\ b \in Nat /\ d \in Nat
    <3>1. DaysOf(chunk) \subseteq Day
      BY <1>1 DEF DaysOf, Row, Event
    <3> QED
      BY <3>1, DayAssumption
  <2> QED
    BY <2>1, <2>2, <2>3
<1>6. CASE d \notin Window(chunk)
  BY <1>4, <1>6 DEF IngestWindow
<1> QED
  BY <1>5, <1>6


\* A live batch is a Push of its days, another source's nothing to see.
LEMMA CommitPushes ==
    ASSUME TypeInv, ChunkInv, VersionInv, QueueInv, TypeInv',
           NEW p \in Proc, HasChunk(p), Commit(Chunk(p)),
           \A r \in Chunk(p) : r.ev.conn = Live, Chunk(p) # {},
           UNCHANGED <<log, manifest, excused>>
    PROVE  DaysOf(Chunk(p)) \in SUBSET Day /\ Promise!Push(DaysOf(Chunk(p)))
<1> DEFINE days == DaysOf(Chunk(p))
<1>1. Chunk(p) \in SUBSET Row /\ accepted' = accepted \cup EventsOf(Chunk(p))
  BY TopChunk DEF TypeInv, TypeOK, HasChunk, Commit
<1>2. days \in SUBSET Day
  BY <1>1 DEF DaysOf, Row, Event
<1>3. Contents(accepted) \subseteq Contents(accepted')
  BY <1>1 DEF Contents
<1>4. \A c \in Contents(accepted') \ Contents(accepted) : c.day \in days
  <2> SUFFICES ASSUME NEW c \in Contents(accepted'), c \notin Contents(accepted)
               PROVE  c.day \in days
    OBVIOUS
  <2>1. PICK e \in accepted' : e.conn = Live /\ e.day # NoDay /\ c = [day |-> e.day, ver |-> e.ver]
    BY DEF Contents
  <2>2. e \notin accepted
    BY <2>1 DEF Contents
  <2> QED
    BY <1>1, <2>1, <2>2 DEF EventsOf, DaysOf
<1>5. ASSUME NEW d \in days
      PROVE  \E c \in Contents(accepted') :
                c.day = d /\ Promise!Had(c) /\ Promise!Newest(c, Contents(accepted'))
                /\ server'[Live][d] = c.ver
  <2>1. PICK r \in Chunk(p) :
              /\ r.ev.day = d /\ server'[Live][d] = r.ev.ver
              /\ r.ev.ver <= manifest /\ (log[d] = NoRows \/ r.ev.ver <= log[d])
              /\ \A e \in DatedEvents(accepted') : e.day = d => e.ver <= r.ev.ver
    BY CommitSets
  <2> DEFINE c == [day |-> d, ver |-> r.ev.ver]
  <2>2. r.ev \in DatedEvents(accepted')
    BY <1>1, <2>1 DEF DatedEvents, EventsOf, DaysOf
  <2>3. c \in Contents(accepted') /\ c.day = d /\ c.ver = r.ev.ver
    BY <2>1, <2>2, ContentsOf
  <2> HIDE DEF c
  <2>4. Promise!Had(c)
    BY <2>1, <2>3 DEF Promise!Had, Promise!Nothing, NoRows
  <2>5. Promise!Newest(c, Contents(accepted'))
    BY <2>1, <2>3, ContentsOf DEF Promise!Newest
  <2> QED
    BY <2>1, <2>3, <2>4, <2>5
<1>6. \A d \in Day \ days : server'[Live][d] = server[Live][d] \/ Promise!Erased(d, days)
  BY CommitLeaves DEF Promise!Erased, Promise!Nothing, NoRows
<1>7. server'[Live] \in [Day -> Nat]
  BY LiveAssumption DEF TypeInv, TypeOK
<1>8. UNCHANGED <<log, manifest, Contents(excused)>>
  BY DEF Contents
<1> HIDE DEF days
<1>9. Promise!Push(days)
  BY <1>3, <1>4, <1>5, <1>6, <1>7, <1>8 DEF Promise!Push
<1> QED
  BY <1>2, <1>9 DEF days

LEMMA CommitOther ==
    ASSUME TypeInv, NEW p \in Proc, HasChunk(p), Commit(Chunk(p)),
           \A r \in Chunk(p) : r.ev.conn # Live, Chunk(p) # {}
    PROVE  server'[Live] = server[Live] /\ Contents(accepted') = Contents(accepted)
<1> DEFINE c == (CHOOSE r \in Chunk(p) : TRUE).ev.conn
<1>1. /\ server \in [Conn -> [Day -> Nat]]
      /\ server' = [server EXCEPT ![c] = IngestWindow(server[c], Chunk(p))]
      /\ accepted' = accepted \cup EventsOf(Chunk(p))
  BY DEF Commit, TypeInv, TypeOK
<1>2. c # Live
  OBVIOUS
<1> HIDE DEF c
<1> QED
  BY <1>1, <1>2 DEF Contents, EventsOf

\* A step edits, commits the chunk in hand, or at most gives something up.
LEMMA ThreeKindsOfStep ==
    ASSUME TypeInv, AckInv, GuardInv, OneCycle, QueueInv, [Next]_vars
    PROVE  \/ \E d \in Day : LogActivity(d) \/ LogErased(d)
           \/ \E p \in Proc : /\ HasChunk(p) /\ Commit(Chunk(p))
                              /\ Flush(p) \/ Upload(p)
                              /\ UNCHANGED <<log, manifest, excused>>
           \/ UNCHANGED <<log, manifest, server, accepted>> /\ excused \subseteq excused'
<1>0. excused \subseteq excused'
  BY KeepsStep DEF Keeps
<1>1. ASSUME NEW p \in Proc, Flush(p) \/ Upload(p)
      PROVE  \/ HasChunk(p) /\ Commit(Chunk(p)) /\ UNCHANGED <<log, manifest, excused>>
             \/ UNCHANGED <<log, manifest, server, accepted>>
  <2>1. UNCHANGED excused \/ UNCHANGED <<server, accepted>>
    BY <1>1 DEF Flush, StartSync, NothingToSync, NoToken, FinishSync, TakeGroup,
           DropEmptyBatch, SplitOversize, SkipReceipted, StartUpload, record_receipt,
           PurgeUploaded, SyncStoreError, Upload, UploadAccepted, RetryUpload, UploadOffline,
           UploadUnauthorized, UploadDegraded, UploadSplit, Quarantine, remote
  <2> QED
    BY <1>1, <2>1, SyncMoves
<1>2. ASSUME NEW p \in Proc, Collect(p) PROVE UNCHANGED <<log, manifest, server, accepted>>
  BY <1>2 DEF Collect, LoadCheckpoint, NothingToCollect, ComputeManifest, ParseFiles,
         enqueue_events, set_checkpoint, CollectHeld, disk, remote
<1>3. Environment => \/ \E d \in Day : LogActivity(d) \/ LogErased(d)
                     \/ UNCHANGED <<log, manifest, server, accepted>>
  BY DEF Environment, ImportExport, LateDelivery, DeletePending, Crash, disk, remote, QueueInv
<1>4. UNCHANGED vars => UNCHANGED <<log, manifest, server, accepted>>
  BY DEF vars, disk, remote
<1> QED
  BY <1>0, <1>1, <1>2, <1>3, <1>4 DEF Next


LEMMA PromiseInit == Init => Promise!Init /\ WholePromise!Init
<1> SUFFICES ASSUME Init PROVE Promise!Init /\ WholePromise!Init
  OBVIOUS
<1>1. \E used \in SUBSET Day :
         /\ log = [d \in Day |-> IF d \in used THEN 1 ELSE 0]
         /\ manifest = IF used = {} THEN 0 ELSE 1
  BY DEF Init, NoRows
<1>2. Contents(accepted) = {} /\ Contents(excused) = {}
  BY DEF Init, Contents
<1>3. server[Live] = [d \in Day |-> 0]
  BY LiveAssumption DEF Init, NoRows
<1> QED
  BY <1>1, <1>2, <1>3 DEF Promise!Init, Promise!Nothing, WholePromise!Init, WholePromise!Nothing

LEMMA EditIsPromised ==
    ASSUME TypeInv, NEW d \in Day, LogActivity(d) \/ LogErased(d)
    PROVE  Promise!Edit(d) /\ WholePromise!Edit(d)
<1>1. /\ manifest' = manifest + 1
      /\ log' = [log EXCEPT ![d] = manifest + 1] \/ log' = [log EXCEPT ![d] = NoRows]
      /\ UNCHANGED <<server, accepted, excused>>
  BY DEF LogActivity, LogErased, Edit, remote
<1>2. UNCHANGED <<Contents(accepted), Contents(excused), server[Live]>>
  BY <1>1 DEF Contents
<1> QED
  BY <1>1, <1>2 DEF Promise!Edit, Promise!Nothing, WholePromise!Edit, WholePromise!Nothing, NoRows

LEMMA LossIsPromised ==
    ASSUME UNCHANGED <<log, manifest>>, server'[Live] = server[Live],
           Contents(accepted') = Contents(accepted), excused \subseteq excused'
    PROVE  Promise!Forgo /\ WholePromise!Forgo
<1>1. Contents(excused) \subseteq Contents(excused')
  BY DEF Contents
<1> QED
  BY <1>1 DEF Promise!Forgo, WholePromise!Forgo, Contents

LEMMA ChunkOfOneSource ==
    ASSUME TypeInv, ChunkInv, NEW p \in Proc, HasChunk(p)
    PROVE  /\ Chunk(p) # {}
           /\ \/ \A r \in Chunk(p) : r.ev.conn = Live
              \/ \A r \in Chunk(p) : r.ev.conn # Live
<1>1. stack[p] \in Seq(SUBSET Row) /\ stack[p] # <<>>
  BY DEF TypeInv, TypeOK, HasChunk
<1>2. 1 \in 1..Len(stack[p]) /\ Chunk(p) = stack[p][1]
  BY <1>1 DEF Chunk
<1>3. Chunk(p) # {} /\ \A r, q \in Chunk(p) : r.ev.conn = q.ev.conn
  BY <1>2 DEF ChunkInv, Apart
<1> QED
  BY <1>3

LEMMA PromiseStep ==
    ASSUME TypeInv, TypeInv', AckInv, ChunkInv, GuardInv, OneCycle, VersionInv, QueueInv,
           [Next]_vars
    PROVE  Promise!Next
<1>1. ASSUME NEW d \in Day, LogActivity(d) \/ LogErased(d) PROVE Promise!Next
  BY <1>1, EditIsPromised DEF Promise!Next
<1>2. CASE UNCHANGED <<log, manifest, server, accepted>> /\ excused \subseteq excused'
  BY <1>2, LossIsPromised DEF Promise!Next, Contents
<1>3. ASSUME NEW p \in Proc, HasChunk(p), Commit(Chunk(p)), UNCHANGED <<log, manifest, excused>>
      PROVE  Promise!Next
  <2>1. CASE \A r \in Chunk(p) : r.ev.conn = Live
    BY <1>3, <2>1, ChunkOfOneSource, CommitPushes DEF Promise!Next
  <2>2. CASE \A r \in Chunk(p) : r.ev.conn # Live
    <3>1. server'[Live] = server[Live] /\ Contents(accepted') = Contents(accepted)
      BY <1>3, <2>2, ChunkOfOneSource, CommitOther
    <3> QED
      BY <1>3, <3>1, LossIsPromised DEF Promise!Next
  <2> QED
    BY <1>3, <2>1, <2>2, ChunkOfOneSource
<1> QED
  BY <1>1, <1>2, <1>3, ThreeKindsOfStep

(***************************************************************************)
(* KeepsPromise holds: one cycle at a time with no late request implements *)
(* PromisedSync, for any edits, batch limit, splits, refusals, losses and  *)
(* crashes.                                                                *)
(***************************************************************************)
THEOREM ThePromiseIsKept ==
    ASSUME OneCycle PROVE Spec => KeepsPromise
<1>1. Init => ChunkInv /\ GuardInv /\ VersionInv /\ QueueInv
  <2>1. Init => ChunkInv
    BY DEF Init, ChunkInv, Apart
  <2> QED
    BY <2>1, GuardInit, VersionInit, QueueInit
<1>2. QueueInv => net = {}
  BY DEF QueueInv
<1>3. TypeInv /\ ChunkInv /\ GuardInv /\ VersionInv /\ QueueInv /\ [Next]_vars
      => ChunkInv' /\ GuardInv' /\ VersionInv' /\ QueueInv'
  BY <1>2, ChunkStep, GuardStep, VersionStep, QueueStep
<1>4. /\ TypeInv /\ TypeInv' /\ AckInv /\ ChunkInv /\ GuardInv /\ VersionInv /\ QueueInv
      /\ [Next]_vars
      => [Promise!Next]_(Promise!vars)
  BY PromiseStep
<1>5. Init => Promise!Init
  BY PromiseInit
<1> QED
  BY <1>1, <1>3, <1>4, <1>5, AckInvariance, PTL DEF Spec, KeepsPromise, Promise!Spec


\* A batch that says again all that was delivered erases none of it.
LEMMA WholePush ==
    ASSUME NEW days \in SUBSET Day, Promise!Push(days), TypeInv,
           \A d \in Day \ days : ~Delivered(d)
    PROVE  WholePromise!Push(days)
<1>1. ASSUME NEW d \in Day, WholePromise!Stands(d) PROVE Delivered(d)
  <2>1. log[d] \in Nat /\ accepted \in SUBSET Event /\ excused \in SUBSET Event
    BY DEF TypeInv, TypeOK
  <2>2. [day |-> d, ver |-> log[d]] \in Contents(accepted) \ Contents(excused) /\ log[d] # NoRows
    BY <1>1 DEF WholePromise!Stands, WholePromise!Now, WholePromise!Nothing, NoRows
  <2>3. [conn |-> Live, day |-> d, ver |-> log[d]] \in accepted \ excused
    BY <2>1, <2>2, ContentsType
  <2> QED
    BY <2>2, <2>3 DEF Delivered, LiveEvent
<1>2. \A d \in Day \ days : Promise!Erased(d, days) => WholePromise!Erased(d, days)
  BY <1>1 DEF Promise!Erased, WholePromise!Erased, Promise!Nothing, WholePromise!Nothing
<1>3. \A d \in days : \E c \in Contents(accepted') :
          c.day = d /\ WholePromise!Had(c) /\ WholePromise!Newest(c, Contents(accepted'))
          /\ server'[Live][d] = c.ver
  <2> SUFFICES ASSUME NEW d \in days
               PROVE  \E c \in Contents(accepted') :
                  c.day = d /\ WholePromise!Had(c) /\ WholePromise!Newest(c, Contents(accepted'))
                  /\ server'[Live][d] = c.ver
    OBVIOUS
  <2>1. PICK c \in Contents(accepted') :
           c.day = d /\ Promise!Had(c) /\ Promise!Newest(c, Contents(accepted'))
                  /\ server'[Live][d] = c.ver
    BY DEF Promise!Push
  <2>2. WholePromise!Had(c) /\ WholePromise!Newest(c, Contents(accepted'))
    BY <2>1 DEF Promise!Had, Promise!Newest, Promise!Nothing, WholePromise!Had,
                WholePromise!Newest, WholePromise!Nothing
  <2> QED
    BY <2>1, <2>2
<1> QED
  BY <1>2, <1>3 DEF Promise!Push, WholePromise!Push

LEMMA WholePromiseStep ==
    ASSUME TypeInv, TypeInv', AckInv, ChunkInv, GuardInv, WholeInv, OneCycle, VersionInv, QueueInv,
           DeliveredInv, [Next]_vars
    PROVE  WholePromise!Next
<1>1. ASSUME NEW d \in Day, LogActivity(d) \/ LogErased(d) PROVE WholePromise!Next
  BY <1>1, EditIsPromised DEF WholePromise!Next
<1>2. CASE UNCHANGED <<log, manifest, server, accepted>> /\ excused \subseteq excused'
  BY <1>2, LossIsPromised DEF WholePromise!Next, Contents
<1>3. ASSUME NEW p \in Proc, HasChunk(p), Commit(Chunk(p)), UNCHANGED <<log, manifest, excused>>
      PROVE  WholePromise!Next
  <2>1. CASE \A r \in Chunk(p) : r.ev.conn = Live
    <3>1. Chunk(p) # {} /\ Mine(p, Live) = Chunk(p)
      BY <1>3, <2>1, WholeChunk, LiveAssumption
    <3>2. \A d \in Day \ DaysOf(Chunk(p)) : ~Delivered(d)
      <4>1. \A d \in Day : Delivered(d) => LiveEvent(d) \in EventsOf(Chunk(p))
        BY <3>1 DEF DeliveredInv, Full
      <4>2. \A d \in Day : LiveEvent(d) \in EventsOf(Chunk(p)) => d \in DaysOf(Chunk(p))
        BY DayAssumption DEF EventsOf, DaysOf, LiveEvent
      <4> QED
        BY <4>1, <4>2
    <3>3. DaysOf(Chunk(p)) \in SUBSET Day /\ Promise!Push(DaysOf(Chunk(p)))
      BY <1>3, <2>1, <3>1, CommitPushes
    <3>4. WholePromise!Push(DaysOf(Chunk(p)))
      BY <3>2, <3>3, WholePush
    <3> QED
      BY <3>3, <3>4 DEF WholePromise!Next
  <2>2. CASE \A r \in Chunk(p) : r.ev.conn # Live
    <3>1. server'[Live] = server[Live] /\ Contents(accepted') = Contents(accepted)
      BY <1>3, <2>2, ChunkOfOneSource, CommitOther
    <3> QED
      BY <1>3, <3>1, LossIsPromised DEF WholePromise!Next
  <2> QED
    BY <1>3, <2>1, <2>2, ChunkOfOneSource
<1> QED
  BY <1>1, <1>2, <1>3, ThreeKindsOfStep

(***************************************************************************)
(* KeepsWholePromise holds where no batch is cut: while the queue fits in  *)
(* one batch and no body is split, no push erases a day whose current      *)
(* content stands.                                                         *)
(***************************************************************************)
THEOREM TheWholePromiseIsKept ==
    ASSUME OneCycle, Proc # {}, ~MaySplit
    PROVE  Spec /\ [](Cardinality(queue) <= Limit) => KeepsWholePromise
<1>1. Init => ChunkInv /\ GuardInv /\ WholeInv /\ VersionInv /\ QueueInv /\ DeliveredInv
  <2>1. Init => ChunkInv
    BY DEF Init, ChunkInv, Apart
  <2> QED
    BY <2>1, GuardInit, WholeInit, VersionInit, QueueInit, DeliveredInit
<1>2. QueueInv => net = {}
  BY DEF QueueInv
<1>3. /\ TypeInv /\ AckInv /\ ChunkInv /\ GuardInv /\ WholeInv /\ VersionInv /\ QueueInv
      /\ DeliveredInv /\ Cardinality(queue) <= Limit /\ [Next]_vars
      => ChunkInv' /\ GuardInv' /\ WholeInv' /\ VersionInv' /\ QueueInv' /\ DeliveredInv'
  BY <1>2, ChunkStep, GuardStep, WholeStep, VersionStep, QueueStep, DeliveredStep
<1>4. /\ TypeInv /\ TypeInv' /\ AckInv /\ ChunkInv /\ GuardInv /\ WholeInv /\ VersionInv
      /\ QueueInv /\ DeliveredInv /\ [Next]_vars
      => [WholePromise!Next]_(WholePromise!vars)
  BY WholePromiseStep
<1>5. Init => WholePromise!Init
  BY PromiseInit
<1> QED
  BY <1>1, <1>3, <1>4, <1>5, AckInvariance, PTL DEF Spec, KeepsWholePromise, WholePromise!Spec


(***************************************************************************)
(* What the promise is worth: NewestShown follows from it.                 *)
(***************************************************************************)
PromisedNewest ==
    \A c \in Contents(accepted) : server[Live][c.day] = NoRows \/ c.ver <= server[Live][c.day]

THEOREM ThePromiseShowsTheNewest ==
    KeepsPromise /\ []TypeOK => []NewestShown
<1>1. Promise!Init => PromisedNewest
  BY DEF Promise!Init, PromisedNewest
<1>2. TypeOK /\ PromisedNewest /\ [Promise!Next]_(Promise!vars) => PromisedNewest'
  <2> SUFFICES ASSUME TypeOK, PromisedNewest, [Promise!Next]_(Promise!vars)
               PROVE  PromisedNewest'
    OBVIOUS
  <2>1. \A c \in Contents(accepted) : c.day \in Day
    BY ContentsType DEF TypeOK
  <2>2. ASSUME NEW days \in SUBSET Day, Promise!Push(days) PROVE PromisedNewest'
    <3> SUFFICES ASSUME NEW c \in Contents(accepted')
                 PROVE  server'[Live][c.day] = NoRows \/ c.ver <= server'[Live][c.day]
      BY DEF PromisedNewest
    <3>1. CASE c.day \in days
      BY <2>2, <3>1 DEF Promise!Push, Promise!Newest
    <3>2. CASE c.day \notin days
      <4>1. c \in Contents(accepted)
        BY <2>2, <3>2 DEF Promise!Push
      <4>2. server'[Live][c.day] \in {server[Live][c.day], NoRows}
        BY <2>1, <2>2, <3>2, <4>1 DEF Promise!Push, Promise!Erased, Promise!Nothing, NoRows
      <4> QED
        BY <4>1, <4>2 DEF PromisedNewest
    <3> QED
      BY <3>1, <3>2
  <2>3. ASSUME UNCHANGED <<Contents(accepted), server[Live]>> PROVE PromisedNewest'
    BY <2>3 DEF PromisedNewest
  <2>4. Promise!Forgo \/ (\E d \in Day : Promise!Edit(d)) \/ UNCHANGED Promise!vars
        => UNCHANGED <<Contents(accepted), server[Live]>>
    BY DEF Promise!Forgo, Promise!Edit, Promise!vars
  <2> QED
    BY <2>2, <2>3, <2>4 DEF Promise!Next
<1>3. TypeOK /\ PromisedNewest => NewestShown
  <2> SUFFICES ASSUME TypeOK, PromisedNewest, NEW e \in accepted, e.conn = Live, e.day # NoDay,
                      server[Live][e.day] # NoRows
               PROVE  e.ver <= server[Live][e.day]
    BY DEF NewestShown
  <2>1. [day |-> e.day, ver |-> e.ver] \in Contents(accepted)
    BY ContentsOf DEF DatedEvents
  <2> QED
    BY <2>1 DEF PromisedNewest
<1> QED
  BY <1>1, <1>2, <1>3, PTL DEF KeepsPromise, Promise!Spec

(***************************************************************************)
(* ... and, where no batch is cut and nothing is forgotten,                *)
(* SettledDayCurrent.                                                      *)
(***************************************************************************)
PromisedCurrent ==
    /\ \A c \in Contents(accepted) : c.ver <= manifest
    /\ \A d \in Day : WholePromise!Stands(d) => server[Live][d] = log[d]

THEOREM TheWholePromiseShowsTheCurrent ==
    KeepsWholePromise /\ []TypeOK /\ []CursorInv => []SettledDayCurrent
<1>1. WholePromise!Init => PromisedCurrent
  BY DEF WholePromise!Init, WholePromise!Stands, PromisedCurrent
<1>2. TypeOK /\ TypeOK' /\ PromisedCurrent /\ [WholePromise!Next]_(WholePromise!vars)
      => PromisedCurrent'
  <2> SUFFICES ASSUME TypeOK, TypeOK', PromisedCurrent, [WholePromise!Next]_(WholePromise!vars)
               PROVE  PromisedCurrent'
    OBVIOUS
  <2> USE DEF WholePromise!Nothing
  <2>0. /\ \A c \in Contents(accepted) : c.day \in Day /\ c.ver \in Nat
        /\ \A c \in Contents(accepted') : c.day \in Day /\ c.ver \in Nat
        /\ log \in [Day -> Nat] /\ manifest \in Nat
    <3>1. accepted \in SUBSET Event /\ accepted' \in SUBSET Event
      BY DEF TypeOK
    <3>2. Contents(accepted) \subseteq [day : Day, ver : Nat]
      BY <3>1, ContentsType
    <3>3. Contents(accepted') \subseteq [day : Day, ver : Nat]
      BY <3>1, ContentsType
    <3> QED
      BY <3>2, <3>3 DEF TypeOK
  <2>1. ASSUME NEW d \in Day, WholePromise!Edit(d) PROVE PromisedCurrent'
    <3>1. /\ manifest' = manifest + 1 /\ server'[Live] = server[Live]
          /\ Contents(accepted') = Contents(accepted) /\ Contents(excused') = Contents(excused)
          /\ log' = [log EXCEPT ![d] = manifest + 1] \/ log' = [log EXCEPT ![d] = 0]
      BY <2>1 DEF WholePromise!Edit
    <3>2. ASSUME NEW c \in Contents(accepted') PROVE c.ver <= manifest'
      <4>1. c \in Contents(accepted)
        BY <3>1
      <4>2. c.ver \in Nat /\ c.ver <= manifest
        BY <2>0, <4>1 DEF PromisedCurrent
      <4> QED
        BY <2>0, <3>1, <4>2
    <3>3. [day |-> d, ver |-> manifest + 1] \notin Contents(accepted)
      BY <2>0 DEF PromisedCurrent
    <3>4. ASSUME NEW c \in Day, WholePromise!Stands(c)' PROVE server'[Live][c] = log'[c]
      <4>1. c # d
        BY <2>0, <3>1, <3>3, <3>4 DEF WholePromise!Stands, WholePromise!Now
      <4> QED
        BY <2>0, <3>1, <3>4, <4>1 DEF WholePromise!Stands, WholePromise!Now, PromisedCurrent
    <3> QED
      BY <3>2, <3>4 DEF PromisedCurrent
  <2>2. ASSUME NEW days \in SUBSET Day, WholePromise!Push(days) PROVE PromisedCurrent'
    <3>1. ASSUME NEW c \in Contents(accepted'), c.day \in days
          PROVE  /\ c.ver <= server'[Live][c.day] /\ server'[Live][c.day] <= manifest
                 /\ server'[Live][c.day] \in Nat
                 /\ log[c.day] = 0 \/ server'[Live][c.day] <= log[c.day]
      BY <2>0, <2>2, <3>1 DEF WholePromise!Push, WholePromise!Newest, WholePromise!Had
    <3>2. \A c \in Contents(accepted') : c.day \notin days => c \in Contents(accepted)
      BY <2>2 DEF WholePromise!Push
    <3>3. UNCHANGED <<log, manifest, Contents(excused)>>
      BY <2>2 DEF WholePromise!Push
    <3>4. \A c \in Contents(accepted') : c.ver <= manifest'
      BY <2>0, <3>1, <3>2, <3>3 DEF PromisedCurrent
    <3>5. ASSUME NEW d \in Day, WholePromise!Stands(d)' PROVE server'[Live][d] = log'[d]
      <4>1. /\ log[d] # 0 /\ log[d] \in Nat
            /\ [day |-> d, ver |-> log[d]] \in Contents(accepted') \ Contents(excused)
        BY <2>0, <3>3, <3>5 DEF WholePromise!Stands, WholePromise!Now
      <4>2. CASE d \in days
        BY <3>1, <3>3, <4>1, <4>2
      <4>3. CASE d \notin days
        <5>1. WholePromise!Stands(d)
          BY <3>2, <4>1, <4>3 DEF WholePromise!Stands, WholePromise!Now
        <5>2. server'[Live][d] = server[Live][d]
          BY <2>2, <4>3, <5>1 DEF WholePromise!Push, WholePromise!Erased
        <5> QED
          BY <3>3, <5>1, <5>2 DEF PromisedCurrent
      <4> QED
        BY <4>2, <4>3
    <3> QED
      BY <3>4, <3>5 DEF PromisedCurrent
  <2>3. CASE WholePromise!Forgo
    <3>1. /\ UNCHANGED <<log, manifest, Contents(accepted)>> /\ server'[Live] = server[Live]
          /\ Contents(excused) \subseteq Contents(excused')
      BY <2>3 DEF WholePromise!Forgo
    <3> QED
      BY <3>1 DEF PromisedCurrent, WholePromise!Stands, WholePromise!Now
  <2>4. CASE UNCHANGED WholePromise!vars
    <3>1. /\ UNCHANGED <<log, manifest, Contents(accepted), Contents(excused)>>
          /\ server'[Live] = server[Live]
      BY <2>4 DEF WholePromise!vars
    <3> QED
      BY <3>1 DEF PromisedCurrent, WholePromise!Stands, WholePromise!Now
  <2> QED
    BY <2>1, <2>2, <2>3, <2>4 DEF WholePromise!Next
<1>3. TypeOK /\ CursorInv /\ PromisedCurrent => SettledDayCurrent
  <2> SUFFICES ASSUME TypeOK, CursorInv, PromisedCurrent, Settled, NEW d \in Day, log[d] # NoRows,
                      LiveEvent(d) \notin excused
               PROVE  server[Live][d] = log[d]
    BY DEF SettledDayCurrent
  <2>1. LiveEvent(d) \in accepted
    BY DEF CursorInv, CoveredTo, Accounted, Settled, EventsOf
  <2>2. log[d] \in Nat /\ accepted \in SUBSET Event /\ excused \in SUBSET Event
    BY DEF TypeOK
  <2>3. [day |-> d, ver |-> log[d]] \in Contents(accepted) \ Contents(excused)
    BY <2>1, <2>2, ContentsType DEF LiveEvent
  <2>4. WholePromise!Stands(d)
    BY <2>3 DEF WholePromise!Stands, WholePromise!Now, WholePromise!Nothing, NoRows
  <2> QED
    BY <2>4 DEF PromisedCurrent
<1> QED
  BY <1>1, <1>2, <1>3, PTL DEF KeepsWholePromise, WholePromise!Spec
=============================================================================

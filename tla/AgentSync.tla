----------------------------- MODULE AgentSync -----------------------------
(***************************************************************************)
(* The desktop agent's collect -> queue -> upload pipeline against the     *)
(* ingest endpoint.                                                        *)
(*                                                                         *)
(* Several cycles may run at once: the 15 minute loop and every "Sync now" *)
(* click call the same run_cycle.  Only sync_once is guarded by in_flight; *)
(* collection is not.  The local store survives a crash, everything held   *)
(* by a cycle does not.                                                    *)
(*                                                                         *)
(* The session logs are abstracted to log[d], the number of the last edit  *)
(* that touched day d (NoRows when the day has no usage records), and the  *)
(* manifest over (path, size, mtime) to the number of edits so far: every  *)
(* edit changes it, and equal manifests mean equal logs.                   *)
(***************************************************************************)
EXTENDS SyncBatch

CONSTANTS Proc,        \* concurrent run_cycle calls
          Export,      \* the claude_export connector
          Limit,       \* MAX_EVENTS_PER_BATCH
          MaxAttempts, \* RetryPolicy::max_attempts
          MaySplit,    \* may a body be too large or refused with 413/422?
          MayDelay,    \* may the server run a request the client gave up on?
          LegacyRow,   \* may the queue hold a row this build cannot decode?
          MaxEdits,    \* bound: edits of the session logs
          MaxImports,  \* bound: imports of a Claude export archive
          MaxFaults    \* bound: failures and crashes

ASSUME BoundsAssumption ==
    /\ Limit \in Nat \ {0}
    /\ MaxAttempts \in Nat \ {0}
    /\ {MaxEdits, MaxImports, MaxFaults} \subseteq Nat
    /\ {MaySplit, MayDelay, LegacyRow} \subseteq BOOLEAN
    /\ MaxImports > 0 => Export \in Conn

VARIABLES
    log, manifest,                          \* session files on disk
    checkpoint, queue, nextId, receipts,    \* the local store (durable)
    inFlight,                               \* SyncEngine.in_flight
    pc, listed, snap, rest, stack, attempt, \* one frame per run_cycle call
    server, net,                            \* server rows; requests given up on
    accepted, excused,                      \* history: see below
    imports, faults                         \* bounds

(***************************************************************************)
(* accepted: events of every batch the server committed.                   *)
(* excused:  events the agent gave up on in the open: a day the server     *)
(*           refused, a row it could not decode, an unreadable file        *)
(*           disclosed as a gap, or pending data the user deleted.         *)
(***************************************************************************)
disk     == <<log, manifest>>
store    == <<checkpoint, queue, nextId, receipts>>
collects == <<listed, snap>>
flushes  == <<inFlight, rest, stack, attempt>>
remote   == <<server, net, accepted>>
bounds   == <<imports, faults>>
vars     == <<disk, store, collects, flushes, pc, remote, excused, bounds>>

UploadPC == {"flush", "upload", "receipt", "purge"}
PC == {"idle", "list", "read", "enqueue", "checkpoint", "sync"} \cup UploadPC

LiveEvent(d) == [conn |-> Live, day |-> d, ver |-> log[d]]

TypeOK ==
    /\ log \in [Day -> Nat]
    /\ manifest \in Nat
    /\ checkpoint \in Nat
    /\ queue \subseteq Row
    /\ nextId \in Nat
    /\ receipts \subseteq SUBSET Event
    /\ inFlight \in BOOLEAN
    /\ pc \in [Proc -> PC]
    /\ listed \in [Proc -> Nat]
    /\ snap \in [Proc -> SUBSET Event]
    /\ rest \in [Proc -> SUBSET Row]
    /\ stack \in [Proc -> Seq(SUBSET Row)]
    /\ attempt \in [Proc -> Nat]
    /\ server \in [Conn -> [Day -> Nat]]
    /\ net \subseteq SUBSET Row
    /\ accepted \subseteq Event
    /\ excused \subseteq Event
    /\ imports \in Nat
    /\ faults \in Nat

\* A queue written by an older build may hold a row this one cannot decode.
UndecodableRow == [id |-> 0, ev |-> [conn |-> Live, day |-> NoDay, ver |-> 0]]

\* Claude Code was in use before the agent was installed: `used` days have
\* records, which count as edit number 1.
Init ==
    /\ \E used \in SUBSET Day :
        /\ log = [d \in Day |-> IF d \in used THEN 1 ELSE NoRows]
        /\ manifest = IF used = {} THEN 0 ELSE 1
    /\ checkpoint = 0
    /\ queue \in {{}, IF LegacyRow THEN {UndecodableRow} ELSE {}}
    /\ nextId = 1
    /\ receipts = {}
    /\ inFlight = FALSE
    /\ pc = [p \in Proc |-> "idle"]
    /\ listed = [p \in Proc |-> 0]
    /\ snap = [p \in Proc |-> {}]
    /\ rest = [p \in Proc |-> {}]
    /\ stack = [p \in Proc |-> <<>>]
    /\ attempt = [p \in Proc |-> 0]
    /\ server = [c \in Conn |-> [d \in Day |-> NoRows]]
    /\ net = {}
    /\ accepted = {}
    /\ excused = {}
    /\ imports = 0
    /\ faults = 0

Goto(p, label) == pc' = [pc EXCEPT ![p] = label]

Fault == faults < MaxFaults /\ faults' = faults + 1 /\ UNCHANGED imports
-----------------------------------------------------------------------------
(* The user and the environment.                                           *)

Edit(d, content) ==
    /\ manifest < MaxEdits
    /\ manifest' = manifest + 1
    /\ log' = [log EXCEPT ![d] = content]
    /\ UNCHANGED <<store, collects, flushes, pc, remote, excused, bounds>>

\* Claude Code appends records for day d to a session file.
LogActivity(d) == Edit(d, manifest + 1)

\* The session files holding day d's records are deleted; others remain.
LogErased(d) == log[d] # NoRows /\ Edit(d, NoRows)

\* import_claude_export: the archive's days are enqueued under their own id.
\* Its cursor is stored and never read back.
ImportExport(days) ==
    LET evs == {[conn |-> Export, day |-> d, ver |-> imports + 1] : d \in days}
    IN  /\ imports < MaxImports
        /\ imports' = imports + 1
        /\ queue' = queue \cup FreshRows(queue, evs, nextId)
        /\ nextId' = nextId + Cardinality(FreshEvents(queue, evs))
        /\ UNCHANGED <<disk, checkpoint, receipts, collects, flushes, pc,
                       remote, excused, faults>>

\* delete_pending_data: touches the local outbox only.
DeletePending ==
    /\ queue # {}
    /\ queue' = {}
    /\ excused' = excused \cup EventsOf(queue)
    /\ UNCHANGED <<disk, checkpoint, nextId, receipts, collects, flushes, pc,
                   remote, bounds>>

\* The process dies: the cycles' frames and the in-flight flag are gone.
Crash ==
    /\ Fault
    /\ pc' = [p \in Proc |-> "idle"]
    /\ inFlight' = FALSE
    /\ listed' = [p \in Proc |-> 0]
    /\ snap' = [p \in Proc |-> {}]
    /\ rest' = [p \in Proc |-> {}]
    /\ stack' = [p \in Proc |-> <<>>]
    /\ attempt' = [p \in Proc |-> 0]
    /\ UNCHANGED <<disk, store, remote, excused>>
-----------------------------------------------------------------------------
(* Collection: load the checkpoint, list the files, parse them, enqueue,   *)
(* then (a second commit) advance the checkpoint.                          *)

LoadCheckpoint(p) ==
    /\ pc[p] = "idle"
    /\ Goto(p, "list")
    /\ listed' = [listed EXCEPT ![p] = checkpoint]
    /\ UNCHANGED <<disk, store, snap, flushes, remote, excused, bounds>>

\* No files, or nothing on disk moved: no event and no new checkpoint.
NothingToCollect(p) ==
    /\ pc[p] = "list"
    /\ manifest \in {0, listed[p]}
    /\ Goto(p, "sync")
    /\ listed' = [listed EXCEPT ![p] = 0]
    /\ UNCHANGED <<disk, store, snap, flushes, remote, excused, bounds>>

ComputeManifest(p) ==
    /\ pc[p] = "list"
    /\ manifest \notin {0, listed[p]}
    /\ Goto(p, "read")
    /\ listed' = [listed EXCEPT ![p] = manifest]
    /\ UNCHANGED <<disk, store, snap, flushes, remote, excused, bounds>>

\* Every day with records becomes one event, the unreadable ones excepted.
ParseFiles(p, unreadable) ==
    LET present == {d \in Day : log[d] # NoRows}
    IN  /\ pc[p] = "read"
        /\ unreadable \subseteq present
        /\ IF unreadable = {} THEN UNCHANGED bounds ELSE Fault
        /\ snap' = [snap EXCEPT ![p] = {LiveEvent(d) : d \in present \ unreadable}]
        /\ excused' = excused \cup {LiveEvent(d) : d \in unreadable}
        /\ Goto(p, "enqueue")
        /\ UNCHANGED <<disk, store, listed, flushes, remote>>

enqueue_events(p) ==
    /\ pc[p] = "enqueue"
    /\ queue' = queue \cup FreshRows(queue, snap[p], nextId)
    /\ nextId' = nextId + Cardinality(FreshEvents(queue, snap[p]))
    /\ Goto(p, "checkpoint")
    /\ UNCHANGED <<disk, checkpoint, receipts, collects, flushes, remote, excused, bounds>>

EndCollect(p) ==
    /\ Goto(p, "sync")
    /\ listed' = [listed EXCEPT ![p] = 0]
    /\ snap' = [snap EXCEPT ![p] = {}]

\* Mistaken: the manifest recomputed after the files were parsed.
SetCheckpointToCurrent(p) ==
    /\ pc[p] = "checkpoint"
    /\ checkpoint' = manifest
    /\ EndCollect(p)
    /\ UNCHANGED <<disk, queue, nextId, receipts, flushes, remote, excused, bounds>>

set_checkpoint(p) ==
    /\ pc[p] = "checkpoint"
    /\ checkpoint' = listed[p]
    /\ EndCollect(p)
    /\ UNCHANGED <<disk, queue, nextId, receipts, flushes, remote, excused, bounds>>

\* Blocked policy, a candidate that fails validation, or a store error: what
\* is committed stays, the checkpoint is held, and the cycle goes on to sync.
CollectHeld(p) ==
    /\ pc[p] \in {"list", "read", "enqueue", "checkpoint"}
    /\ Fault
    /\ EndCollect(p)
    /\ UNCHANGED <<disk, store, flushes, remote, excused>>
-----------------------------------------------------------------------------
(* The sync engine.                                                        *)

\* Mistaken: a fresh engine per click, so a guard nobody shares.
StartSyncUnguarded(p) ==
    /\ pc[p] = "sync"
    /\ queue # {}
    /\ inFlight' = TRUE
    /\ rest' = [rest EXCEPT ![p] = dequeue_batch(queue, Limit)]
    /\ Goto(p, "flush")
    /\ UNCHANGED <<disk, store, collects, stack, attempt, remote, excused, bounds>>

\* InFlightGuard::acquire, then dequeue_batch.
StartSync(p) ==
    /\ pc[p] = "sync"
    /\ ~inFlight
    /\ queue # {}
    /\ inFlight' = TRUE
    /\ rest' = [rest EXCEPT ![p] = dequeue_batch(queue, Limit)]
    /\ Goto(p, "flush")
    /\ UNCHANGED <<disk, store, collects, stack, attempt, remote, excused, bounds>>

\* Busy (another cycle holds the guard) or Idle (the queue is empty).
NothingToSync(p) ==
    /\ pc[p] = "sync"
    /\ inFlight \/ queue = {}
    /\ Goto(p, "idle")
    /\ UNCHANGED <<disk, store, collects, flushes, remote, excused, bounds>>

\* No device token in the keychain.
NoToken(p) ==
    /\ pc[p] = "sync"
    /\ Fault
    /\ Goto(p, "idle")
    /\ UNCHANGED <<disk, store, collects, flushes, remote, excused>>

\* Mistaken: an early return that leaves the flag set.
ReleaseKeepingGuard(p) ==
    /\ inFlight' = inFlight
    /\ rest' = [rest EXCEPT ![p] = {}]
    /\ stack' = [stack EXCEPT ![p] = <<>>]
    /\ attempt' = [attempt EXCEPT ![p] = 0]
    /\ Goto(p, "idle")

\* sync_once returns: the guard is dropped, unsent rows stay queued.
Release(p) ==
    /\ inFlight' = FALSE
    /\ rest' = [rest EXCEPT ![p] = {}]
    /\ stack' = [stack EXCEPT ![p] = <<>>]
    /\ attempt' = [attempt EXCEPT ![p] = 0]
    /\ Goto(p, "idle")

FinishSync(p) ==
    /\ pc[p] = "flush"
    /\ stack[p] = <<>> /\ rest[p] = {}
    /\ Release(p)
    /\ UNCHANGED <<disk, store, collects, remote, excused, bounds>>

\* group_by_connector: the next single-source group becomes the work stack.
TakeGroup(p) ==
    /\ pc[p] = "flush"
    /\ stack[p] = <<>> /\ rest[p] # {}
    /\ stack' = [stack EXCEPT ![p] = <<NextGroup(rest[p])>>]
    /\ rest' = [rest EXCEPT ![p] = @ \ NextGroup(@)]
    /\ UNCHANGED <<disk, store, collects, inFlight, attempt, pc, remote, excused, bounds>>

Chunk(p) == Head(stack[p])
HasChunk(p) == stack[p] # <<>>

Pop(p) == stack' = [stack EXCEPT ![p] = Tail(@)]

\* purge_events deletes by row id.
PurgeChunk(p) == queue' = {r \in queue : \A q \in Chunk(p) : r.id # q.id}

\* left is pushed first, so right is popped first.
PushHalves(p) ==
    LET halves == split_events_by_day(Chunk(p))
    IN  stack' = [stack EXCEPT ![p] = <<halves[2], halves[1]>> \o Tail(@)]

\* Nothing to persist: purged without a POST, and reported as degraded.
DropEmptyBatch(p) ==
    /\ pc[p] = "flush" /\ HasChunk(p)
    /\ DaysOf(Chunk(p)) = {}
    /\ PurgeChunk(p)
    /\ excused' = excused \cup EventsOf(Chunk(p))
    /\ Pop(p)
    /\ UNCHANGED <<disk, checkpoint, nextId, receipts, collects, inFlight, rest,
                   attempt, pc, remote, bounds>>

\* Over MAX_COMPRESSED_BYTES with more than one day.
SplitOversize(p) ==
    /\ MaySplit
    /\ pc[p] = "flush" /\ HasChunk(p)
    /\ distinct_day_count(Chunk(p)) > 1
    /\ PushHalves(p)
    /\ UNCHANGED <<disk, store, collects, inFlight, rest, attempt, pc, remote,
                   excused, bounds>>

\* A receipt for this exact set of events: purge without sending.
SkipReceipted(p) ==
    /\ pc[p] = "flush" /\ HasChunk(p)
    /\ DaysOf(Chunk(p)) # {}
    /\ deterministic_batch_id(Chunk(p)) \in receipts
    /\ PurgeChunk(p)
    /\ Pop(p)
    /\ UNCHANGED <<disk, checkpoint, nextId, receipts, collects, inFlight, rest,
                   attempt, pc, remote, excused, bounds>>

StartUpload(p) ==
    /\ pc[p] = "flush" /\ HasChunk(p)
    /\ DaysOf(Chunk(p)) # {}
    /\ deterministic_batch_id(Chunk(p)) \notin receipts
    /\ attempt' = [attempt EXCEPT ![p] = 1]
    /\ Goto(p, "upload")
    /\ UNCHANGED <<disk, store, collects, inFlight, rest, stack, remote, excused, bounds>>
-----------------------------------------------------------------------------
(* The ingest endpoint, and the answers upload can get from it.            *)

\* ingestAgentBatch commits a batch: delete the window, upsert the rows.
Commit(chunk) ==
    LET c == (CHOOSE r \in chunk : TRUE).ev.conn
    IN  /\ server' = [server EXCEPT ![c] = IngestWindow(@, chunk)]
        /\ accepted' = accepted \cup EventsOf(chunk)

\* A request no 2xx came back for: never committed, committed all the same,
\* or still on its way when the client stops waiting.
Unanswered(chunk) ==
    \/ UNCHANGED remote
    \/ Commit(chunk) /\ UNCHANGED net
    \/ MayDelay /\ net' = net \cup {chunk} /\ UNCHANGED <<server, accepted>>

\* The server runs a request its client no longer waits for.
LateDelivery(chunk) ==
    /\ chunk \in net
    /\ net' = net \ {chunk}
    /\ Commit(chunk)
    /\ UNCHANGED <<disk, store, collects, flushes, pc, excused, bounds>>

UploadAccepted(p) ==
    /\ pc[p] = "upload"
    /\ Commit(Chunk(p))
    /\ Goto(p, "receipt")
    /\ UNCHANGED <<disk, store, collects, flushes, net, excused, bounds>>

\* Backoff and another attempt, for a transport error or a 408/425/429/5xx.
RetryUpload(p) ==
    /\ pc[p] = "upload"
    /\ attempt[p] < MaxAttempts
    /\ Fault
    /\ Unanswered(Chunk(p))
    /\ attempt' = [attempt EXCEPT ![p] = @ + 1]
    /\ UNCHANGED <<disk, store, collects, inFlight, rest, stack, pc, excused>>

\* Transport errors exhausted.
UploadOffline(p) ==
    /\ pc[p] = "upload"
    /\ attempt[p] >= MaxAttempts
    /\ Fault
    /\ Unanswered(Chunk(p))
    /\ Release(p)
    /\ UNCHANGED <<disk, store, collects, excused>>

\* 401/403: stop the whole cycle.
UploadUnauthorized(p) ==
    /\ pc[p] = "upload"
    /\ Fault
    /\ Release(p)
    /\ UNCHANGED <<disk, store, collects, remote, excused>>

\* Transient statuses exhausted, or 400/409: the chunk stays queued.
UploadDegraded(p) ==
    /\ pc[p] = "upload"
    /\ Fault
    /\ \/ UNCHANGED remote
       \/ attempt[p] >= MaxAttempts /\ Unanswered(Chunk(p))
    /\ attempt' = [attempt EXCEPT ![p] = 0]
    /\ Pop(p)
    /\ Goto(p, "flush")
    /\ UNCHANGED <<disk, store, collects, inFlight, rest, excused>>

\* 413/422 on several days: bisect on a day boundary.
UploadSplit(p) ==
    /\ MaySplit
    /\ pc[p] = "upload"
    /\ distinct_day_count(Chunk(p)) > 1
    /\ PushHalves(p)
    /\ attempt' = [attempt EXCEPT ![p] = 0]
    /\ Goto(p, "flush")
    /\ UNCHANGED <<disk, store, collects, inFlight, rest, remote, excused, bounds>>

\* 413/422 on a single day: quarantine it.
Quarantine(p) ==
    /\ MaySplit
    /\ pc[p] = "upload"
    /\ distinct_day_count(Chunk(p)) <= 1
    /\ PurgeChunk(p)
    /\ excused' = excused \cup EventsOf(Chunk(p))
    /\ attempt' = [attempt EXCEPT ![p] = 0]
    /\ Pop(p)
    /\ Goto(p, "flush")
    /\ UNCHANGED <<disk, checkpoint, nextId, receipts, collects, inFlight, rest,
                   remote, bounds>>

record_receipt(p) ==
    /\ pc[p] = "receipt"
    /\ receipts' = receipts \cup {deterministic_batch_id(Chunk(p))}
    /\ Goto(p, "purge")
    /\ UNCHANGED <<disk, checkpoint, queue, nextId, collects, flushes, remote,
                   excused, bounds>>

PurgeUploaded(p) ==
    /\ pc[p] = "purge"
    /\ PurgeChunk(p)
    /\ attempt' = [attempt EXCEPT ![p] = 0]
    /\ Pop(p)
    /\ Goto(p, "flush")
    /\ UNCHANGED <<disk, checkpoint, nextId, receipts, collects, inFlight, rest,
                   remote, excused, bounds>>

\* A store error inside sync_once: the cycle ends, the guard is dropped.
SyncStoreError(p) ==
    /\ pc[p] \in {"flush", "receipt", "purge"}
    /\ Fault
    /\ Release(p)
    /\ UNCHANGED <<disk, store, collects, remote, excused>>
-----------------------------------------------------------------------------
Collect(p) ==
    \/ LoadCheckpoint(p) \/ NothingToCollect(p) \/ ComputeManifest(p)
    \/ \E unreadable \in SUBSET Day : ParseFiles(p, unreadable)
    \/ enqueue_events(p) \/ set_checkpoint(p) \/ CollectHeld(p)

Flush(p) ==
    \/ StartSync(p) \/ NothingToSync(p) \/ NoToken(p)
    \/ FinishSync(p) \/ TakeGroup(p)
    \/ DropEmptyBatch(p) \/ SplitOversize(p) \/ SkipReceipted(p) \/ StartUpload(p)
    \/ record_receipt(p) \/ PurgeUploaded(p) \/ SyncStoreError(p)

Upload(p) ==
    \/ UploadAccepted(p) \/ RetryUpload(p) \/ UploadOffline(p)
    \/ UploadUnauthorized(p) \/ UploadDegraded(p) \/ UploadSplit(p) \/ Quarantine(p)

Environment ==
    \/ \E d \in Day : LogActivity(d) \/ LogErased(d)
    \/ \E days \in SUBSET Day \ {{}} : ImportExport(days)
    \/ \E chunk \in net : LateDelivery(chunk)
    \/ DeletePending \/ Crash

Next == Environment \/ \E p \in Proc : Collect(p) \/ Flush(p) \/ Upload(p)

Spec == Init /\ [][Next]_vars

\* The loop runs for as long as the app does, its I/O completes or fails in
\* bounded time (10 s per request, at most MaxAttempts of them), and the
\* bound on faults says the server answers in the end.
Fairness == \A p \in Proc : WF_vars(Collect(p) \/ Flush(p) \/ Upload(p))

FairSpec == Spec /\ Fairness
-----------------------------------------------------------------------------
(* Properties.                                                             *)

Held(p) == rest[p] \cup UNION {stack[p][i] : i \in 1..Len(stack[p])}

(***************************************************************************)
(* Queue-before-checkpoint and purge-after-2xx together (store/queue.rs    *)
(* "duplicate, never a gap"; sync/mod.rs "never loss"): a day whose last   *)
(* change the checkpoint already covers, so that no later pass will emit   *)
(* it again, is still queued, was committed by the server, or was given up *)
(* in the open.                                                            *)
(***************************************************************************)
NothingForgotten ==
    \A d \in Day : log[d] # NoRows /\ log[d] <= checkpoint =>
        LiveEvent(d) \in EventsOf(queue) \cup accepted \cup excused

(***************************************************************************)
(* No row leaves the queue before the server committed its content, unless *)
(* it is one the agent or the user gave up in the open.  The purge is by   *)
(* row id and may run long after the dequeue: it must not take rows that   *)
(* were enqueued meanwhile.                                                *)
(***************************************************************************)
PurgeOnlyAccounted ==
    [][\A r \in queue : r \notin queue' => r.ev \in accepted' \cup excused']_vars

(***************************************************************************)
(* The P0 invariant of sync/batch.rs: the chunks waiting in one flush have *)
(* disjoint windows, so no chunk's window delete erases what another just  *)
(* committed; each chunk is of one source and none is empty.               *)
(***************************************************************************)
DisjointChunks ==
    \A p \in Proc : \A i \in 1..Len(stack[p]) :
        /\ stack[p][i] # {}
        /\ \A r, q \in stack[p][i] : r.ev.conn = q.ev.conn
        /\ \A j \in 1..Len(stack[p]) :
              i # j => Window(stack[p][i]) \cap Window(stack[p][j]) = {}

(***************************************************************************)
(* The shared engine's guard serialises the loop and "Sync now": no two    *)
(* cycles ever hold the same row for upload (commands.rs, sync_now).       *)
(***************************************************************************)
NoDoubleUpload ==
    \A p, q \in Proc : p # q => Held(p) \cap Held(q) = {}

(***************************************************************************)
(* With one cycle at a time, and no request that arrives late, the service *)
(* never goes back to an older content of a day: what it shows is the      *)
(* newest it accepted, however batches are cut, halved, refused, repeated  *)
(* after a lost answer and taken up again after a crash (sync/mod.rs,      *)
(* group_by_connector, "FIFO event order"; metrics.ts, upsertRecords,      *)
(* "last entry wins").                                                     *)
(***************************************************************************)
NewestShown ==
    \A e \in accepted : e.conn = Live /\ e.day # NoDay /\ server[Live][e.day] # NoRows =>
        e.ver <= server[Live][e.day]

\* Nothing left to collect, to send or to be delivered.
Settled ==
    /\ checkpoint = manifest
    /\ queue = {} /\ net = {}
    /\ \A p \in Proc : pc[p] \in {"idle", "sync"}

(***************************************************************************)
(* Once everything has settled, a day that has records on this device has  *)
(* rows on the server: only a day that lost its local source may be erased *)
(* by another batch's window (connectors/claude_code.rs, "The one residual *)
(* assumption").                                                           *)
(***************************************************************************)
SettledDayPresent ==
    Settled => \A d \in Day : log[d] # NoRows =>
        server[Live][d] # NoRows \/ LiveEvent(d) \in excused

(***************************************************************************)
(* ... and they are the rows of its current content: a purge on a receipt  *)
(* only skips what the server still holds.                                 *)
(***************************************************************************)
SettledDayCurrent ==
    Settled => \A d \in Day : log[d] # NoRows =>
        server[Live][d] = log[d] \/ LiveEvent(d) \in excused

(***************************************************************************)
(* Batches are single-source and the server's delete is scoped to their    *)
(* source (commands.rs, import_claude_export: an import that overlaps the  *)
(* live connector's days is not clobbered): once the server committed an   *)
(* imported day its rows stay, whatever the live connector re-sends.       *)
(***************************************************************************)
ImportKept ==
    \A e \in accepted : e.conn = Export /\ e.ver = imports =>
        server[Export][e.day] = e.ver

(***************************************************************************)
(* The agent converges: whatever crashes and failures came before, in the  *)
(* end the queue stays empty and the server shows the current content of   *)
(* every day that was not given up in the open.                            *)
(***************************************************************************)
Converges ==
    <>[](/\ queue = {}
         /\ \A d \in Day : log[d] # NoRows =>
               server[Live][d] = log[d] \/ LiveEvent(d) \in excused)

(***************************************************************************)
(* What all this keeps of the promise to whoever reads the service         *)
(* (PromisedSync), one cycle at a time and with no request that arrives    *)
(* late: however batches are cut, split, refused, repeated or interrupted, *)
(* a day is set to the newest content published of it, or erased between   *)
(* two days that are set with it (agent-ingest.ts, the window delete).     *)
(***************************************************************************)
Contents(evs) ==
    {[day |-> e.day, ver |-> e.ver] : e \in {f \in evs : f.conn = Live /\ f.day # NoDay}}

Promise == INSTANCE PromisedSync WITH
    MayCut <- TRUE, edits <- manifest, shown <- server[Live],
    published <- Contents(accepted), forgone <- Contents(excused)

KeepsPromise == Promise!Spec

\* ... and when no batch is cut, no current content is erased either.
WholePromise == INSTANCE PromisedSync WITH
    MayCut <- FALSE, edits <- manifest, shown <- server[Live],
    published <- Contents(accepted), forgone <- Contents(excused)

KeepsWholePromise == WholePromise!Spec
=============================================================================

----------------------------- MODULE SyncStatus -----------------------------
(***************************************************************************)
(* What the desktop agent tells its user about syncing: the outcome of     *)
(* each cycle, the condition flags it folds into, the sticky `degraded`    *)
(* flag and its persisted copy, and the pause switch.                      *)
(*                                                                         *)
(* Cycles overlap (the loop and "Sync now"): the engine's guard covers     *)
(* sync_once only, so two of them may record and persist at once.  Sync    *)
(* itself is abstracted to the results of its chunks; AgentSync models it. *)
(***************************************************************************)
EXTENDS Integers

CONSTANTS Proc,       \* concurrent run_cycle calls
          MaxChunks,  \* bound: chunks in one cycle
          MaxFaults   \* bound: store errors

ASSUME BoundsAssumption ==
    /\ MaxChunks \in Nat \ {0}
    /\ MaxFaults \in Nat

VARIABLES
    paused,                         \* CollectionControl.paused
    status,                         \* SyncStatus.inputs
    storedPaused, storedDegraded,   \* the local_settings row (durable)
    inFlight,                       \* SyncEngine.in_flight
    pc, worst, cycle, chunks, read, \* one frame per run_cycle call
    blemished, droppedIn,           \* history, see below
    ui, pauseKept, faults

(***************************************************************************)
(* blemished[p]: a chunk of p's cycle was dropped, refused or left queued. *)
(* droppedIn[p]: a chunk of p's cycle was dropped for good.                *)
(* pauseKept:    the user's pause was committed and not taken back, and    *)
(*               every launch since could read it.                         *)
(***************************************************************************)
settings == <<storedPaused, storedDegraded>>
flush    == <<worst, chunks, blemished, droppedIn>>
frames   == <<pc, cycle, read, flush>>
pausing  == <<paused, storedPaused, ui, pauseKept>>
vars     == <<status, storedDegraded, inFlight, frames, pausing, faults>>

Outcome == {"Healthy", "Idle", "Busy", "Offline", "AuthenticationRequired", "Degraded"}

\* A flush that runs has something to report.
FlushOutcome == Outcome \ {"Idle", "Busy"}

TypeOK ==
    /\ {paused, storedPaused, storedDegraded, inFlight, pauseKept} \subseteq BOOLEAN
    /\ status \in [offline : BOOLEAN, authentication_required : BOOLEAN, degraded : BOOLEAN]
    /\ pc \in [Proc -> {"idle", "sync", "flush", "record", "read", "persist"}]
    /\ worst \in [Proc -> FlushOutcome]
    /\ cycle \in [Proc -> Outcome]
    /\ chunks \in [Proc -> 0..MaxChunks]
    /\ read \in [Proc -> BOOLEAN]
    /\ blemished \in [Proc -> BOOLEAN]
    /\ droppedIn \in [Proc -> BOOLEAN]
    /\ ui \in {"idle", "pausing", "resuming"}
    /\ faults \in 0..MaxFaults

\* SyncStatus::restored
restored(degraded) ==
    [offline |-> FALSE, authentication_required |-> FALSE, degraded |-> degraded]

Init ==
    /\ paused = FALSE
    /\ status = restored(FALSE)
    /\ storedPaused = FALSE /\ storedDegraded = FALSE
    /\ inFlight = FALSE
    /\ pc = [p \in Proc |-> "idle"]
    /\ worst = [p \in Proc |-> "Healthy"]
    /\ cycle = [p \in Proc |-> "Healthy"]
    /\ chunks = [p \in Proc |-> 0]
    /\ read = [p \in Proc |-> FALSE]
    /\ blemished = [p \in Proc |-> FALSE]
    /\ droppedIn = [p \in Proc |-> FALSE]
    /\ ui = "idle" /\ pauseKept = FALSE
    /\ faults = 0

Fault == faults < MaxFaults /\ faults' = faults + 1
-----------------------------------------------------------------------------
(* Outcomes.                                                               *)

rank(outcome) ==
    CASE outcome \in {"Idle", "Busy", "Healthy"} -> 0
      [] outcome = "Degraded" -> 1
      [] outcome = "Offline" -> 2
      [] outcome = "AuthenticationRequired" -> 3

\* Mistaken: the last outcome wins.
WorsenToLast(a, b) == b

worsen(a, b) == IF rank(b) > rank(a) THEN b ELSE a

\* Mistaken: an empty queue counts as a success.
ApplyIdleAsHealthy(outcome, inputs) ==
    [offline |-> outcome = "Offline",
     authentication_required |-> outcome = "AuthenticationRequired",
     degraded |-> outcome = "Degraded" \/ (inputs.degraded /\ outcome \notin {"Healthy", "Idle"})]

\* `degraded` is sticky: set by Degraded, cleared by Healthy alone.
apply(outcome, inputs) ==
    IF outcome \in {"Idle", "Busy"} THEN inputs
    ELSE [offline |-> outcome = "Offline",
          authentication_required |-> outcome = "AuthenticationRequired",
          degraded |-> outcome = "Degraded" \/ (inputs.degraded /\ outcome # "Healthy")]
-----------------------------------------------------------------------------
(* One cycle.                                                              *)

Goto(p, label) == pc' = [pc EXCEPT ![p] = label]

\* run_cycle returns: its locals are gone.
Return(p) ==
    /\ Goto(p, "idle")
    /\ worst' = [worst EXCEPT ![p] = "Healthy"]
    /\ cycle' = [cycle EXCEPT ![p] = "Healthy"]
    /\ chunks' = [chunks EXCEPT ![p] = 0]
    /\ read' = [read EXCEPT ![p] = FALSE]
    /\ blemished' = [blemished EXCEPT ![p] = FALSE]
    /\ droppedIn' = [droppedIn EXCEPT ![p] = FALSE]

\* The gate of run_cycle; enrolled throughout, no mandatory update pending.
StartCycle(p) ==
    /\ pc[p] = "idle"
    /\ ~paused
    /\ Goto(p, "sync")
    /\ UNCHANGED <<status, storedDegraded, inFlight, cycle, read, flush, pausing, faults>>

\* The token is gone from the keychain, another cycle holds the guard, or
\* the queue is empty: no upload.
SyncNothing(p, outcome) ==
    /\ pc[p] = "sync"
    /\ \/ outcome = "AuthenticationRequired"
       \/ outcome = "Busy" /\ inFlight
       \/ outcome = "Idle" /\ ~inFlight
    /\ cycle' = [cycle EXCEPT ![p] = outcome]
    /\ Goto(p, "record")
    /\ UNCHANGED <<status, storedDegraded, inFlight, read, flush, pausing, faults>>

StartSync(p) ==
    /\ pc[p] = "sync"
    /\ ~inFlight
    /\ inFlight' = TRUE
    /\ Goto(p, "flush")
    /\ UNCHANGED <<status, storedDegraded, cycle, read, flush, pausing, faults>>

NextChunk(p) ==
    /\ pc[p] = "flush"
    /\ chunks[p] < MaxChunks
    /\ chunks' = [chunks EXCEPT ![p] = @ + 1]
    /\ UNCHANGED <<status, storedDegraded, cycle, read, pausing, faults>>

\* A 2xx, a receipt from an earlier run, or an empty batch without gaps.
ChunkAccepted(p) ==
    /\ NextChunk(p)
    /\ UNCHANGED <<inFlight, pc, worst, blemished, droppedIn>>

\* 400, 409 or exhausted retries leave the chunk queued; a quarantined day
\* and an undecodable batch are purged for good.
ChunkDegraded(p, dropped) ==
    /\ NextChunk(p)
    /\ worst' = [worst EXCEPT ![p] = worsen(@, "Degraded")]
    /\ blemished' = [blemished EXCEPT ![p] = TRUE]
    /\ droppedIn' = [droppedIn EXCEPT ![p] = @ \/ dropped]
    /\ UNCHANGED <<inFlight, pc>>

\* flush returns at once, with this outcome in place of what it gathered,
\* and sync_once leaves its loop.
ChunkStops(p, outcome) ==
    /\ NextChunk(p)
    /\ worst' = [worst EXCEPT ![p] = outcome]
    /\ blemished' = [blemished EXCEPT ![p] = TRUE]
    /\ inFlight' = FALSE
    /\ Goto(p, "record")
    /\ UNCHANGED droppedIn

\* Mistaken: flush starts from Idle, as if nothing was queued.
NextGroupFromIdle(p) ==
    /\ pc[p] = "flush"
    /\ chunks[p] \in 1..(MaxChunks - 1)
    /\ cycle' = [cycle EXCEPT ![p] = worsen(@, worst[p])]
    /\ worst' = [worst EXCEPT ![p] = "Idle"]
    /\ UNCHANGED <<status, storedDegraded, inFlight, pc, chunks, read, blemished, droppedIn,
                   pausing, faults>>

\* A connector's group is flushed; flush starts afresh on the next one.
NextGroup(p) ==
    /\ pc[p] = "flush"
    /\ chunks[p] \in 1..(MaxChunks - 1)
    /\ cycle' = [cycle EXCEPT ![p] = worsen(@, worst[p])]
    /\ worst' = [worst EXCEPT ![p] = "Healthy"]
    /\ UNCHANGED <<status, storedDegraded, inFlight, pc, chunks, read, blemished, droppedIn,
                   pausing, faults>>

EndSync(p) ==
    /\ pc[p] = "flush"
    /\ chunks[p] > 0
    /\ inFlight' = FALSE
    /\ Goto(p, "record")
    /\ UNCHANGED <<status, storedDegraded, cycle, read, flush, pausing, faults>>

\* A store error inside sync_once: the cycle records nothing.
SyncFailed(p) ==
    /\ pc[p] = "flush"
    /\ Fault
    /\ inFlight' = FALSE
    /\ Return(p)
    /\ UNCHANGED <<status, storedDegraded, pausing>>

OutcomeOf(p) == worsen(cycle[p], worst[p])

record(p) ==
    /\ pc[p] = "record"
    /\ status' = apply(OutcomeOf(p), status)
    /\ Goto(p, "read")
    /\ UNCHANGED <<storedDegraded, inFlight, cycle, read, flush, pausing, faults>>

\* status.current().degraded, the argument of the call below.
ReadDegraded(p) ==
    /\ pc[p] = "read"
    /\ read' = [read EXCEPT ![p] = status.degraded]
    /\ Goto(p, "persist")
    /\ UNCHANGED <<status, storedDegraded, inFlight, cycle, flush, pausing, faults>>

\* A failure to write is logged and the cycle ends all the same.
set_degraded_setting(p) ==
    /\ pc[p] = "persist"
    /\ \/ storedDegraded' = read[p] /\ UNCHANGED faults
       \/ UNCHANGED storedDegraded /\ Fault
    /\ Return(p)
    /\ UNCHANGED <<status, inFlight, pausing>>
-----------------------------------------------------------------------------
(* The pause switch: set in memory, then persisted, on the main thread.    *)

set_paused(pause) ==
    /\ ui = "idle"
    /\ paused' = pause
    /\ ui' = IF pause THEN "pausing" ELSE "resuming"
    /\ pauseKept' = (pauseKept /\ pause)
    /\ UNCHANGED <<status, settings, inFlight, frames, faults>>

persist_paused ==
    /\ ui # "idle"
    /\ ui' = "idle"
    /\ \/ /\ storedPaused' = (ui = "pausing")
          /\ pauseKept' = (ui = "pausing")
          /\ UNCHANGED faults
       \/ UNCHANGED <<storedPaused, pauseKept>> /\ Fault
    /\ UNCHANGED <<paused, status, storedDegraded, inFlight, frames>>
-----------------------------------------------------------------------------
(* The process dies, or the user quits, and starts again: setup restores   *)
(* the settings row before the loops run.                                  *)

Restart(pause, degraded) ==
    /\ paused' = pause
    /\ status' = restored(degraded)
    /\ inFlight' = FALSE
    /\ pc' = [p \in Proc |-> "idle"]
    /\ worst' = [p \in Proc |-> "Healthy"]
    /\ cycle' = [p \in Proc |-> "Healthy"]
    /\ chunks' = [p \in Proc |-> 0]
    /\ read' = [p \in Proc |-> FALSE]
    /\ blemished' = [p \in Proc |-> FALSE]
    /\ droppedIn' = [p \in Proc |-> FALSE]
    /\ ui' = "idle"
    /\ UNCHANGED settings

\* Mistaken: a fresh CollectionControl, never seeded.
SetupForgettingPause == Restart(FALSE, storedDegraded) /\ UNCHANGED <<pauseKept, faults>>

setup == Restart(storedPaused, storedDegraded) /\ UNCHANGED <<pauseKept, faults>>

\* unwrap_or_default: settings that cannot be read are the defaults.
SetupMisread == Fault /\ Restart(FALSE, FALSE) /\ pauseKept' = FALSE
-----------------------------------------------------------------------------
run_cycle(p) ==
    \/ StartCycle(p) \/ StartSync(p)
    \/ \E outcome \in {"AuthenticationRequired", "Busy", "Idle"} : SyncNothing(p, outcome)
    \/ ChunkAccepted(p)
    \/ \E dropped \in BOOLEAN : ChunkDegraded(p, dropped)
    \/ \E outcome \in {"Offline", "AuthenticationRequired"} : ChunkStops(p, outcome)
    \/ NextGroup(p) \/ EndSync(p) \/ SyncFailed(p)
    \/ record(p) \/ ReadDegraded(p) \/ set_degraded_setting(p)

Next ==
    \/ \E p \in Proc : run_cycle(p)
    \/ \E pause \in BOOLEAN : set_paused(pause)
    \/ persist_paused
    \/ setup \/ SetupMisread

Spec == Init /\ [][Next]_vars
-----------------------------------------------------------------------------
(* Properties.                                                             *)

(***************************************************************************)
(* A cycle reports Healthy, and so clears the sticky drop signal, only     *)
(* when every chunk of every group went through (sync/mod.rs, SyncOutcome: *)
(* "Deliberately never fabricates Healthy").                               *)
(***************************************************************************)
HealthyMeansClean ==
    \A p \in Proc : pc[p] = "record" /\ OutcomeOf(p) = "Healthy" =>
        chunks[p] > 0 /\ ~blemished[p]

(***************************************************************************)
(* The drop signal goes away with a clean upload or not at all: no idle,   *)
(* busy, offline or unauthorised cycle and no pause takes it (sync/mod.rs, *)
(* apply, M1).  A restart shows the persisted copy it reads.               *)
(***************************************************************************)
OnlyCleanUploadClears ==
    [][status.degraded /\ ~status'.degraded =>
          \/ \E p \in Proc : /\ pc[p] = "record" /\ pc'[p] = "read"
                             /\ chunks[p] > 0 /\ ~blemished[p]
          \/ setup /\ ~storedDegraded
          \/ SetupMisread]_vars

(***************************************************************************)
(* When no cycle is past its upload the persisted drop signal is the one   *)
(* on display, so a relaunch loses none (runtime.rs, SyncStatus: "a real   *)
(* drop signal is no longer lost on relaunch").                            *)
(***************************************************************************)
RelaunchKeepsSignal ==
    (\A p \in Proc : pc[p] \in {"idle", "sync", "flush"}) => storedDegraded = status.degraded

(***************************************************************************)
(* A cycle that dropped data for good leaves the drop signal set when it   *)
(* reports: it is the drop's "only visible trace" (sync/mod.rs, apply).    *)
(***************************************************************************)
DropIsShown ==
    [][\A p \in Proc : pc[p] = "record" /\ pc'[p] = "read" /\ droppedIn[p] =>
          status'.degraded]_vars

(***************************************************************************)
(* A pause that reached the settings row holds until the user resumes,     *)
(* through any crash or restart that can read that row (lib.rs, setup: "a  *)
(* device the user paused stays paused across a reboot").                  *)
(***************************************************************************)
PauseSurvives == pauseKept => paused
=============================================================================

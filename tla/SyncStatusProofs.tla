-------------------------- MODULE SyncStatusProofs --------------------------
(***************************************************************************)
(* What the displayed status promises, for any number of overlapping       *)
(* cycles, chunks and store errors.                                        *)
(***************************************************************************)
EXTENDS SyncStatus, TLAPS

(***************************************************************************)
(* CleanInv: a cycle remembers, as its own outcome or as the flush's, that *)
(* some chunk did not go through; and a cycle that reports without having  *)
(* flushed anything has an outcome that claims nothing was uploaded.       *)
(***************************************************************************)
CleanOf(p) ==
    /\ pc[p] \in {"idle", "sync"} => ~blemished[p]
    /\ pc[p] \in {"flush", "record"} /\ blemished[p] =>
           rank(worst[p]) > 0 \/ rank(cycle[p]) > 0
    /\ pc[p] = "record" /\ chunks[p] = 0 =>
           cycle[p] \in {"Idle", "Busy", "AuthenticationRequired"}

CleanInv == \A p \in Proc : CleanOf(p)

(***************************************************************************)
(* PauseInv: a committed pause is in memory and in the settings row, and   *)
(* no write in progress takes it back.                                     *)
(***************************************************************************)
PauseInv ==
    /\ pauseKept => paused /\ storedPaused /\ ui # "resuming"
    /\ ui = "pausing" => paused
-----------------------------------------------------------------------------
(* Outcomes.                                                               *)

(* The worse of two outcomes is one of them, at least as severe as both.   *)
LEMMA WorsenBounds ==
    ASSUME NEW a \in Outcome, NEW b \in Outcome
    PROVE  /\ worsen(a, b) \in {a, b}
           /\ rank(a) \in 0..3
           /\ rank(worsen(a, b)) >= rank(a) /\ rank(worsen(a, b)) >= rank(b)
    BY DEF worsen, rank, Outcome

(* No severity separates Healthy from an empty queue; all else outranks it.*)
LEMMA RankOfHealthy ==
    /\ rank("Healthy") = 0 /\ rank("Idle") = 0 /\ rank("Busy") = 0
    /\ rank("Degraded") = 1 /\ rank("Offline") = 2 /\ rank("AuthenticationRequired") = 3
    BY DEF rank

(* Folding an outcome keeps the flags' types.                              *)
LEMMA ApplyType ==
    ASSUME NEW outcome \in Outcome,
           NEW inputs \in [offline : BOOLEAN, authentication_required : BOOLEAN,
                           degraded : BOOLEAN]
    PROVE  apply(outcome, inputs) \in [offline : BOOLEAN,
                                       authentication_required : BOOLEAN,
                                       degraded : BOOLEAN]
<1>1. \A o \in {"Offline", "AuthenticationRequired"} : (outcome = o) \in BOOLEAN
    OBVIOUS
<1>2. (outcome = "Degraded" \/ (inputs.degraded /\ outcome # "Healthy")) \in BOOLEAN
    OBVIOUS
<1> QED
    BY <1>1, <1>2 DEF apply
-----------------------------------------------------------------------------
(* Types.                                                                  *)

LEMMA TypeInit == Init => TypeOK
<1> SUFFICES ASSUME Init PROVE TypeOK
    OBVIOUS
<1>1. {paused, storedPaused, storedDegraded, inFlight, pauseKept} \subseteq BOOLEAN
    BY DEF Init
<1>2. status \in [offline : BOOLEAN, authentication_required : BOOLEAN, degraded : BOOLEAN]
    BY DEF Init, restored
<1>3. /\ read \in [Proc -> BOOLEAN]
      /\ blemished \in [Proc -> BOOLEAN]
      /\ droppedIn \in [Proc -> BOOLEAN]
    BY DEF Init
<1>4. /\ pc \in [Proc -> {"idle", "sync", "flush", "record", "read", "persist"}]
      /\ worst \in [Proc -> FlushOutcome]
      /\ cycle \in [Proc -> Outcome]
      /\ chunks \in [Proc -> 0..MaxChunks]
      /\ ui \in {"idle", "pausing", "resuming"}
      /\ faults \in 0..MaxFaults
    BY BoundsAssumption DEF Init, FlushOutcome, Outcome
<1> QED
    BY <1>1, <1>2, <1>3, <1>4 DEF TypeOK

(* A cycle's return keeps the types of its frame.                          *)
LEMMA ReturnType ==
    ASSUME TypeOK, NEW p \in Proc, Return(p)
    PROVE  /\ pc' \in [Proc -> {"idle", "sync", "flush", "record", "read", "persist"}]
           /\ worst' \in [Proc -> FlushOutcome]
           /\ cycle' \in [Proc -> Outcome]
           /\ chunks' \in [Proc -> 0..MaxChunks]
           /\ read' \in [Proc -> BOOLEAN]
           /\ blemished' \in [Proc -> BOOLEAN]
           /\ droppedIn' \in [Proc -> BOOLEAN]
<1>1. 0 \in 0..MaxChunks
    BY BoundsAssumption
<1> QED
    BY <1>1 DEF TypeOK, Return, Goto, FlushOutcome, Outcome

(* So does a restart, whatever it read.                                    *)
LEMMA RestartType ==
    ASSUME TypeOK, NEW pause \in BOOLEAN, NEW degraded \in BOOLEAN, Restart(pause, degraded),
           pauseKept' \in BOOLEAN, faults' \in 0..MaxFaults
    PROVE  TypeOK'
<1>1. {paused', storedPaused', storedDegraded', inFlight', pauseKept'} \subseteq BOOLEAN
    BY DEF TypeOK, Restart, settings
<1>2. status' \in [offline : BOOLEAN, authentication_required : BOOLEAN, degraded : BOOLEAN]
    BY DEF Restart, restored
<1>3. /\ read' \in [Proc -> BOOLEAN]
      /\ blemished' \in [Proc -> BOOLEAN]
      /\ droppedIn' \in [Proc -> BOOLEAN]
    BY DEF Restart
<1>4. /\ pc' \in [Proc -> {"idle", "sync", "flush", "record", "read", "persist"}]
      /\ worst' \in [Proc -> FlushOutcome]
      /\ cycle' \in [Proc -> Outcome]
      /\ chunks' \in [Proc -> 0..MaxChunks]
      /\ ui' \in {"idle", "pausing", "resuming"}
    BY BoundsAssumption DEF Restart, FlushOutcome, Outcome
<1> QED
    BY <1>1, <1>2, <1>3, <1>4 DEF TypeOK

LEMMA TypeStep == TypeOK /\ [Next]_vars => TypeOK'
<1> SUFFICES ASSUME TypeOK, [Next]_vars PROVE TypeOK'
    OBVIOUS
<1> USE BoundsAssumption
<1>f. Fault => faults' \in 0..MaxFaults
    BY DEF Fault, TypeOK
<1>g. FlushOutcome \subseteq Outcome /\ {"Offline", "AuthenticationRequired"} \subseteq FlushOutcome
    BY DEF FlushOutcome, Outcome
<1>n. ASSUME NEW p \in Proc, NextChunk(p)
      PROVE  chunks' \in [Proc -> 0..MaxChunks]
    BY <1>n DEF NextChunk, TypeOK
<1>1. ASSUME NEW p \in Proc, StartCycle(p) PROVE TypeOK'
    BY <1>1 DEF StartCycle, Goto, TypeOK, flush, pausing
<1>2. ASSUME NEW p \in Proc,
             NEW outcome \in {"AuthenticationRequired", "Busy", "Idle"}, SyncNothing(p, outcome)
      PROVE  TypeOK'
    <2>1. outcome \in Outcome
        BY DEF Outcome
    <2> QED
        BY <1>2, <2>1 DEF SyncNothing, Goto, TypeOK, flush, pausing
<1>3. ASSUME NEW p \in Proc, StartSync(p) PROVE TypeOK'
    BY <1>3 DEF StartSync, Goto, TypeOK, flush, pausing
<1>4. ASSUME NEW p \in Proc, ChunkAccepted(p) PROVE TypeOK'
    BY <1>4, <1>n DEF ChunkAccepted, NextChunk, TypeOK, pausing
<1>5. ASSUME NEW p \in Proc, NEW dropped \in BOOLEAN, ChunkDegraded(p, dropped) PROVE TypeOK'
    <2>1. worsen(worst[p], "Degraded") \in FlushOutcome
        BY DEF worsen, TypeOK, FlushOutcome, Outcome
    <2>2. (droppedIn[p] \/ dropped) \in BOOLEAN
        OBVIOUS
    <2>3. droppedIn' \in [Proc -> BOOLEAN] /\ blemished' \in [Proc -> BOOLEAN]
        BY <1>5, <2>2 DEF ChunkDegraded, TypeOK
    <2>4. worst' \in [Proc -> FlushOutcome]
        BY <1>5, <2>1 DEF ChunkDegraded, TypeOK
    <2> QED
        BY <1>5, <1>n, <2>3, <2>4 DEF ChunkDegraded, NextChunk, TypeOK, pausing
<1>6. ASSUME NEW p \in Proc, NEW outcome \in {"Offline", "AuthenticationRequired"},
             ChunkStops(p, outcome)
      PROVE  TypeOK'
    BY <1>6, <1>n, <1>g DEF ChunkStops, NextChunk, Goto, TypeOK, pausing
<1>7. ASSUME NEW p \in Proc, NextGroup(p) PROVE TypeOK'
    <2>1. worsen(cycle[p], worst[p]) \in Outcome
        BY <1>g DEF worsen, TypeOK
    <2>2. "Healthy" \in FlushOutcome
        BY DEF FlushOutcome, Outcome
    <2> QED
        BY <1>7, <2>1, <2>2 DEF NextGroup, TypeOK, pausing
<1>8. ASSUME NEW p \in Proc, EndSync(p) PROVE TypeOK'
    BY <1>8 DEF EndSync, Goto, TypeOK, flush, pausing
<1>9. ASSUME NEW p \in Proc, SyncFailed(p) PROVE TypeOK'
    BY <1>9, <1>f, ReturnType DEF SyncFailed, TypeOK, pausing
<1>10. ASSUME NEW p \in Proc, record(p) PROVE TypeOK'
    <2>1. OutcomeOf(p) \in Outcome
        BY <1>g DEF OutcomeOf, worsen, TypeOK
    <2>2. apply(OutcomeOf(p), status) \in [offline : BOOLEAN,
                                           authentication_required : BOOLEAN,
                                           degraded : BOOLEAN]
        BY <2>1, ApplyType DEF TypeOK
    <2> QED
        BY <1>10, <2>2 DEF record, Goto, TypeOK, flush, pausing
<1>11. ASSUME NEW p \in Proc, ReadDegraded(p) PROVE TypeOK'
    BY <1>11 DEF ReadDegraded, Goto, TypeOK, flush, pausing
<1>12. ASSUME NEW p \in Proc, set_degraded_setting(p) PROVE TypeOK'
    <2>1. storedDegraded' \in BOOLEAN /\ faults' \in 0..MaxFaults
        BY <1>12, <1>f DEF set_degraded_setting, TypeOK
    <2> QED
        BY <1>12, <2>1, ReturnType DEF set_degraded_setting, TypeOK, pausing
<1>13. ASSUME NEW pause \in BOOLEAN, set_paused(pause) PROVE TypeOK'
    <2>1. (pauseKept /\ pause) \in BOOLEAN
        OBVIOUS
    <2>2. {paused', storedPaused', storedDegraded', inFlight', pauseKept'} \subseteq BOOLEAN
        BY <1>13, <2>1 DEF set_paused, TypeOK, settings
    <2>3. ui' \in {"idle", "pausing", "resuming"}
        BY <1>13 DEF set_paused
    <2> QED
        BY <1>13, <2>2, <2>3 DEF set_paused, TypeOK, frames, flush
<1>14. ASSUME persist_paused PROVE TypeOK'
    <2>1. (ui = "pausing") \in BOOLEAN
        OBVIOUS
    <2>2. {paused', storedPaused', storedDegraded', inFlight', pauseKept'} \subseteq BOOLEAN
        BY <1>14, <2>1 DEF persist_paused, TypeOK
    <2>3. ui' \in {"idle", "pausing", "resuming"} /\ faults' \in 0..MaxFaults
        BY <1>14, <1>f DEF persist_paused, TypeOK
    <2> QED
        BY <1>14, <2>2, <2>3 DEF persist_paused, TypeOK, frames, flush
<1>15. setup => TypeOK'
    BY RestartType DEF setup, TypeOK
<1>16. SetupMisread => TypeOK'
    BY <1>f, RestartType DEF SetupMisread
<1>17. UNCHANGED vars => TypeOK'
    BY DEF vars, frames, flush, pausing, TypeOK
<1> QED
    BY <1>1, <1>2, <1>3, <1>4, <1>5, <1>6, <1>7, <1>8, <1>9, <1>10, <1>11, <1>12, <1>13,
       <1>14, <1>15, <1>16, <1>17 DEF Next, run_cycle

(* Every variable keeps its type: in particular a flush never reports      *)
(* Idle or Busy.                                                           *)
THEOREM TypeCorrect == Spec => []TypeOK
    BY TypeInit, TypeStep, PTL DEF Spec
-----------------------------------------------------------------------------
(* Healthy is never fabricated.                                            *)

\* What a step of p, or of nobody, leaves alone.
OthersKept(p) ==
    \A q \in Proc : q # p =>
        /\ pc'[q] = pc[q] /\ worst'[q] = worst[q] /\ cycle'[q] = cycle[q]
        /\ chunks'[q] = chunks[q] /\ blemished'[q] = blemished[q]

(* A step of p preserves CleanInv if it preserves p's part of it.          *)
LEMMA OneCleans ==
    ASSUME CleanInv, NEW p \in Proc, OthersKept(p), CleanOf(p)'
    PROVE  CleanInv'
<1> SUFFICES ASSUME NEW q \in Proc, q # p PROVE CleanOf(q)'
    BY DEF CleanInv
<1> QED
    BY DEF CleanInv, CleanOf, OthersKept

LEMMA CleanStep == TypeOK /\ CleanInv /\ [Next]_vars => CleanInv'
<1> SUFFICES ASSUME TypeOK, CleanInv, [Next]_vars PROVE CleanInv'
    OBVIOUS
<1> USE RankOfHealthy
<1>t. /\ pc \in [Proc -> {"idle", "sync", "flush", "record", "read", "persist"}]
      /\ worst \in [Proc -> FlushOutcome] /\ cycle \in [Proc -> Outcome]
      /\ chunks \in [Proc -> 0..MaxChunks] /\ blemished \in [Proc -> BOOLEAN]
    BY DEF TypeOK
<1>w. ASSUME NEW p \in Proc PROVE worst[p] \in Outcome /\ cycle[p] \in Outcome
    BY <1>t DEF FlushOutcome
<1>r. ASSUME NEW p \in Proc, Return(p) PROVE CleanInv'
    <2>1. OthersKept(p)
        BY <1>r, <1>t DEF Return, Goto, OthersKept
    <2>2. CleanOf(p)'
        BY <1>r, <1>t DEF Return, Goto, CleanOf
    <2> QED
        BY <2>1, <2>2, OneCleans
<1>n. ASSUME NEW p \in Proc, NextChunk(p) PROVE chunks'[p] # 0
    BY <1>n, <1>t DEF NextChunk
<1>1. ASSUME NEW p \in Proc, StartCycle(p) \/ StartSync(p) PROVE CleanInv'
    <2>1. OthersKept(p)
        BY <1>1, <1>t DEF StartCycle, StartSync, Goto, OthersKept, flush
    <2>2. CleanOf(p)'
        BY <1>1, <1>t DEF StartCycle, StartSync, Goto, CleanOf, CleanInv, flush
    <2> QED
        BY <2>1, <2>2, OneCleans
<1>2. ASSUME NEW p \in Proc,
             NEW outcome \in {"AuthenticationRequired", "Busy", "Idle"}, SyncNothing(p, outcome)
      PROVE  CleanInv'
    <2>1. OthersKept(p)
        BY <1>2, <1>t DEF SyncNothing, Goto, OthersKept, flush
    <2>2. CleanOf(p)'
        BY <1>2, <1>t DEF SyncNothing, Goto, CleanOf, CleanInv, flush
    <2> QED
        BY <2>1, <2>2, OneCleans
<1>4. ASSUME NEW p \in Proc, ChunkAccepted(p) PROVE CleanInv'
    <2>1. OthersKept(p)
        BY <1>4, <1>t DEF ChunkAccepted, NextChunk, OthersKept
    <2>2. CleanOf(p)'
        BY <1>4, <1>t, <1>n DEF ChunkAccepted, NextChunk, CleanOf, CleanInv
    <2> QED
        BY <2>1, <2>2, OneCleans
<1>5. ASSUME NEW p \in Proc, NEW dropped \in BOOLEAN, ChunkDegraded(p, dropped) PROVE CleanInv'
    <2>1. OthersKept(p)
        BY <1>5, <1>t DEF ChunkDegraded, NextChunk, OthersKept
    <2>2. rank(worsen(worst[p], "Degraded")) >= 1 /\ rank(worst'[p]) > 0
        <3>1. worst'[p] = worsen(worst[p], "Degraded")
            BY <1>5, <1>t DEF ChunkDegraded
        <3>2. "Degraded" \in Outcome
            BY DEF Outcome
        <3>3. /\ rank(worsen(worst[p], "Degraded")) >= rank("Degraded")
              /\ rank(worsen(worst[p], "Degraded")) \in 0..3
            <4>1. worsen(worst[p], "Degraded") \in Outcome
                BY <1>w, <3>2 DEF worsen
            <4> QED
                BY <1>w, <3>2, <4>1, WorsenBounds
        <3> QED
            BY <3>1, <3>3
    <2>3. CleanOf(p)'
        BY <1>5, <1>t, <1>n, <2>2 DEF ChunkDegraded, NextChunk, CleanOf
    <2> QED
        BY <2>1, <2>3, OneCleans
<1>6. ASSUME NEW p \in Proc, NEW outcome \in {"Offline", "AuthenticationRequired"},
             ChunkStops(p, outcome)
      PROVE  CleanInv'
    <2>1. OthersKept(p)
        BY <1>6, <1>t DEF ChunkStops, NextChunk, Goto, OthersKept
    <2>2. rank(worst'[p]) > 0
        BY <1>6, <1>t DEF ChunkStops
    <2>3. CleanOf(p)'
        BY <1>6, <1>t, <1>n, <2>2 DEF ChunkStops, NextChunk, Goto, CleanOf
    <2> QED
        BY <2>1, <2>3, OneCleans
<1>7. ASSUME NEW p \in Proc, NextGroup(p) PROVE CleanInv'
    <2>1. OthersKept(p)
        BY <1>7, <1>t DEF NextGroup, OthersKept
    <2>2. blemished[p] => rank(cycle'[p]) > 0
        \* the flush's outcome is folded into the cycle's before it is reset
        <3>1. cycle'[p] = worsen(cycle[p], worst[p])
            BY <1>7, <1>t DEF NextGroup
        <3>2. /\ rank(worsen(cycle[p], worst[p])) >= rank(cycle[p])
              /\ rank(worsen(cycle[p], worst[p])) >= rank(worst[p])
            BY <1>w, WorsenBounds
        <3>3. rank(cycle[p]) \in 0..3 /\ rank(worst[p]) \in 0..3 /\ rank(cycle'[p]) \in 0..3
            <4>1. worsen(cycle[p], worst[p]) \in Outcome
                BY <1>w DEF worsen
            <4> QED
                BY <1>w, <3>1, <4>1, WorsenBounds
        <3>4. blemished[p] => rank(worst[p]) > 0 \/ rank(cycle[p]) > 0
            BY <1>7 DEF NextGroup, CleanInv, CleanOf
        <3> QED
            BY <3>1, <3>2, <3>3, <3>4
    <2>3. CleanOf(p)'
        BY <1>7, <1>t, <2>2 DEF NextGroup, CleanOf, CleanInv
    <2> QED
        BY <2>1, <2>3, OneCleans
<1>8. ASSUME NEW p \in Proc, EndSync(p) PROVE CleanInv'
    <2>1. OthersKept(p)
        BY <1>8, <1>t DEF EndSync, Goto, OthersKept, flush
    <2>2. CleanOf(p)'
        BY <1>8, <1>t DEF EndSync, Goto, CleanOf, CleanInv, flush
    <2> QED
        BY <2>1, <2>2, OneCleans
<1>9. ASSUME NEW p \in Proc, SyncFailed(p) \/ set_degraded_setting(p) PROVE CleanInv'
    BY <1>9, <1>r DEF SyncFailed, set_degraded_setting
<1>10. ASSUME NEW p \in Proc, record(p) \/ ReadDegraded(p) PROVE CleanInv'
    <2>1. OthersKept(p)
        BY <1>10, <1>t DEF record, ReadDegraded, Goto, OthersKept, flush
    <2>2. CleanOf(p)'
        BY <1>10, <1>t DEF record, ReadDegraded, Goto, CleanOf, flush
    <2> QED
        BY <2>1, <2>2, OneCleans
<1>11. ASSUME NEW pause \in BOOLEAN, set_paused(pause) PROVE CleanInv'
    BY <1>11 DEF set_paused, frames, flush, CleanInv, CleanOf
<1>12. persist_paused => CleanInv'
    BY DEF persist_paused, frames, flush, CleanInv, CleanOf
<1>13. ASSUME NEW pause, NEW degraded, Restart(pause, degraded) PROVE CleanInv'
    BY <1>13 DEF Restart, CleanInv, CleanOf
<1>14. setup \/ SetupMisread => CleanInv'
    BY <1>13 DEF setup, SetupMisread
<1>15. UNCHANGED vars => CleanInv'
    BY DEF vars, frames, flush, CleanInv, CleanOf
<1> QED
    BY <1>1, <1>2, <1>4, <1>5, <1>6, <1>7, <1>8, <1>9, <1>10, <1>11, <1>12, <1>14, <1>15
       DEF Next, run_cycle

LEMMA CleanInit == Init => CleanInv
    BY DEF Init, CleanInv, CleanOf

(* A cycle about to report Healthy uploaded something and saw nothing fail.*)
LEMMA CleanReports == TypeOK /\ CleanInv => HealthyMeansClean
<1> SUFFICES ASSUME TypeOK, CleanInv, NEW p \in Proc,
                    pc[p] = "record", OutcomeOf(p) = "Healthy"
             PROVE  chunks[p] > 0 /\ ~blemished[p]
    BY DEF HealthyMeansClean
<1>t. /\ worst[p] \in FlushOutcome /\ cycle[p] \in Outcome
      /\ chunks[p] \in 0..MaxChunks
    BY DEF TypeOK
<1>o. worst[p] \in Outcome
    BY <1>t DEF FlushOutcome
<1>1. rank(worst[p]) = 0 /\ rank(cycle[p]) = 0
    <2>1. rank("Healthy") >= rank(cycle[p]) /\ rank("Healthy") >= rank(worst[p])
        BY <1>t, <1>o, WorsenBounds DEF OutcomeOf
    <2>2. rank(cycle[p]) \in 0..3 /\ rank(worst[p]) \in 0..3
        BY <1>t, <1>o, WorsenBounds
    <2> QED
        BY <2>1, <2>2, RankOfHealthy
<1>2. ~blemished[p]
    BY <1>1 DEF CleanInv, CleanOf
<1>3. cycle[p] = "Healthy"
    BY <1>1 DEF OutcomeOf, worsen
<1>4. chunks[p] # 0
    BY <1>3 DEF CleanInv, CleanOf
<1> QED
    BY <1>t, <1>2, <1>4, BoundsAssumption

(* A cycle never fabricates Healthy: it says so only when at least one     *)
(* chunk was uploaded and none, of any connector, was refused or dropped.  *)
THEOREM HealthyIsEarned == Spec => []HealthyMeansClean
    BY TypeInit, TypeStep, CleanInit, CleanStep, CleanReports, PTL DEF Spec
-----------------------------------------------------------------------------
(* The sticky flag.                                                        *)

(* A step that takes the drop signal away is a clean upload's report or a  *)
(* restart.                                                                *)
LEMMA ClearStep ==
    ASSUME TypeOK, HealthyMeansClean, [Next]_vars, status.degraded, ~status'.degraded
    PROVE  \/ \E p \in Proc : /\ pc[p] = "record" /\ pc'[p] = "read"
                              /\ chunks[p] > 0 /\ ~blemished[p]
           \/ setup /\ ~storedDegraded
           \/ SetupMisread
<1>1. status' # status
    OBVIOUS
<1>2. ASSUME NEW p \in Proc, record(p)
      PROVE  pc[p] = "record" /\ pc'[p] = "read" /\ chunks[p] > 0 /\ ~blemished[p]
    <2>1. pc[p] = "record" /\ pc'[p] = "read" /\ status' = apply(OutcomeOf(p), status)
        BY <1>2 DEF record, Goto, TypeOK
    <2>2. OutcomeOf(p) = "Healthy"
        BY <2>1 DEF apply
    <2> QED
        BY <2>1, <2>2 DEF HealthyMeansClean
<1>3. setup => ~storedDegraded
    BY DEF setup, Restart, restored
<1>4. ASSUME NEW p \in Proc, run_cycle(p) PROVE record(p)
    BY <1>1, <1>4 DEF run_cycle, StartCycle, StartSync, SyncNothing, ChunkAccepted,
       ChunkDegraded, ChunkStops, NextChunk, NextGroup, EndSync, SyncFailed, ReadDegraded,
       set_degraded_setting
<1>5. ASSUME NEW pause \in BOOLEAN, set_paused(pause) PROVE FALSE
    BY <1>1, <1>5 DEF set_paused
<1>6. ~persist_paused
    BY <1>1 DEF persist_paused
<1>7. ~UNCHANGED vars
    BY <1>1 DEF vars
<1> QED
    BY <1>2, <1>3, <1>4, <1>5, <1>6, <1>7 DEF Next

(* No idle, busy, offline or unauthorised cycle and no pause takes the     *)
(* drop signal off the display.                                            *)
THEOREM OnlyACleanUploadClears == Spec => OnlyCleanUploadClears
<1>1. TypeOK /\ HealthyMeansClean /\ [Next]_vars =>
          [status.degraded /\ ~status'.degraded =>
              \/ \E p \in Proc : /\ pc[p] = "record" /\ pc'[p] = "read"
                                 /\ chunks[p] > 0 /\ ~blemished[p]
              \/ setup /\ ~storedDegraded
              \/ SetupMisread]_vars
    BY ClearStep
<1> QED
    BY <1>1, TypeCorrect, HealthyIsEarned, PTL DEF Spec, OnlyCleanUploadClears
-----------------------------------------------------------------------------
(* The pause.                                                              *)

LEMMA PauseStep ==
    ASSUME PauseInv, TypeOK, [Next]_vars
    PROVE  PauseInv'
<1>1. ASSUME NEW p \in Proc, run_cycle(p) PROVE PauseInv'
    BY <1>1 DEF run_cycle, StartCycle, StartSync, SyncNothing, ChunkAccepted,
       ChunkDegraded, ChunkStops, NextChunk, NextGroup, EndSync, SyncFailed, record, ReadDegraded,
       set_degraded_setting, pausing, PauseInv
<1>2. ASSUME NEW pause \in BOOLEAN, set_paused(pause) PROVE PauseInv'
    BY <1>2 DEF set_paused, settings, PauseInv
<1>3. ASSUME persist_paused PROVE PauseInv'
    <2>1. ui' = "idle" /\ paused' = paused
        BY <1>3 DEF persist_paused
    <2>2. CASE storedPaused' = (ui = "pausing") /\ pauseKept' = (ui = "pausing")
        \* the write went through
        <3>1. CASE ui = "pausing"
            BY <2>1, <2>2, <3>1, Zenon DEF PauseInv
        <3>2. CASE ui # "pausing"
            BY <2>1, <2>2, <3>2, Zenon DEF PauseInv
        <3> QED
            BY <3>1, <3>2
    <2>3. CASE storedPaused' = storedPaused /\ pauseKept' = pauseKept
        BY <2>1, <2>3, Zenon DEF PauseInv
    <2> QED
        BY <1>3, <2>2, <2>3 DEF persist_paused
<1>4. setup => PauseInv'
    BY DEF setup, Restart, settings, PauseInv
<1>5. SetupMisread => PauseInv'
    BY DEF SetupMisread, Restart, PauseInv
<1>6. UNCHANGED vars => PauseInv'
    BY DEF vars, pausing, PauseInv
<1> QED
    BY <1>1, <1>2, <1>3, <1>4, <1>5, <1>6 DEF Next

(* A pause that reached the settings row survives every crash and restart, *)
(* whatever else fails, for as long as launches can read their settings.   *)
THEOREM APauseHolds == Spec => []PauseSurvives
<1>1. Init => PauseInv
    BY DEF Init, PauseInv
<1>2. PauseInv => PauseSurvives
    BY DEF PauseInv, PauseSurvives
<1>3. TypeOK /\ PauseInv /\ [Next]_vars => PauseInv'
    BY PauseStep
<1> QED
    BY <1>1, <1>2, <1>3, TypeInit, TypeStep, PTL DEF Spec
=============================================================================

---------------------------- MODULE UpdateCheck ----------------------------
(***************************************************************************)
(* The desktop agent's update checks and the block a mandatory release     *)
(* puts on collection.  The background loop, the tray item and the Status  *)
(* screen button all call check_once; one slot serialises them.  The       *)
(* release service may publish, supersede or halt a release at any time.   *)
(***************************************************************************)
EXTENDS Integers

CONSTANTS Checker,    \* concurrent check_once calls
          UpdateLoop, \* the one of them that recurs by itself
          Release,    \* versions published after the running one, as naturals
          MaxFaults   \* bound: failed checks and installations

\* The build the user installed.
FirstVersion == 0

ASSUME BoundsAssumption ==
    /\ UpdateLoop \in Checker
    /\ Release \subseteq Nat \ {FirstVersion}
    /\ MaxFaults \in Nat

VARIABLES
    version,                  \* the running build
    installed,                \* the build the next launch will run
    offer,                    \* what the release service serves
    updateRequired, checking, \* CollectionControl
    upc, answer,              \* one frame per check_once call
    faults

builds == <<version, installed>>
checks == <<checking, upc, answer>>
vars   == <<builds, offer, updateRequired, checks, faults>>

None  == [version |-> FirstVersion, mandatory |-> FALSE]
Offer == [version : {FirstVersion} \cup Release, mandatory : BOOLEAN]

TypeOK ==
    /\ {version, installed} \subseteq {FirstVersion} \cup Release
    /\ offer \in Offer
    /\ {updateRequired, checking} \subseteq BOOLEAN
    /\ upc \in [Checker -> {"idle", "asked", "install"}]
    /\ answer \in [Checker -> Offer]
    /\ \A u \in Checker : upc[u] = "install" => answer[u].version \in Release
    /\ faults \in 0..MaxFaults

Init ==
    /\ version = FirstVersion /\ installed = FirstVersion
    /\ offer = None
    /\ updateRequired = FALSE /\ checking = FALSE
    /\ upc = [u \in Checker |-> "idle"]
    /\ answer = [u \in Checker |-> None]
    /\ faults = 0

Fault == faults < MaxFaults /\ faults' = faults + 1
-----------------------------------------------------------------------------
\* The release service publishes, supersedes or halts a release; a halted
\* release leaves nothing on offer.
Publish(release) ==
    /\ offer' = release
    /\ UNCHANGED <<builds, updateRequired, checks, faults>>

\* What the endpoint serves a build: a newer release, or 204.
Served == IF offer.version > version THEN offer ELSE None

required(release) == release.mandatory /\ release.version > version

\* UpdateCheckGuard: the slot is released however the check ends.
EndCheck(u) ==
    /\ checking' = FALSE
    /\ upc' = [upc EXCEPT ![u] = "idle"]
    /\ answer' = [answer EXCEPT ![u] = None]

\* Mistaken: no claim on the slot.
AskUnguarded(u) ==
    /\ upc[u] = "idle"
    /\ checking' = TRUE
    /\ upc' = [upc EXCEPT ![u] = "asked"]
    /\ answer' = [answer EXCEPT ![u] = Served]
    /\ UNCHANGED <<builds, offer, updateRequired, faults>>

\* try_begin_update_check, then the request.  A refused claim
\* (AlreadyChecking) changes nothing.
Ask(u) ==
    /\ upc[u] = "idle"
    /\ ~checking
    /\ checking' = TRUE
    /\ upc' = [upc EXCEPT ![u] = "asked"]
    /\ answer' = [answer EXCEPT ![u] = Served]
    /\ UNCHANGED <<builds, offer, updateRequired, faults>>

\* Up to date, halted or outside the rollout: lift the block.
AnsweredNone(u) ==
    /\ upc[u] = "asked"
    /\ answer[u] = None
    /\ updateRequired' = FALSE
    /\ EndCheck(u)
    /\ UNCHANGED <<builds, offer, faults>>

\* Mistaken: an optional release leaves an earlier one's block standing.
AnsweredReleaseStickily(u) ==
    /\ upc[u] = "asked"
    /\ answer[u] # None
    /\ updateRequired' = (updateRequired \/ required(answer[u]))
    /\ upc' = [upc EXCEPT ![u] = "install"]
    /\ UNCHANGED <<builds, offer, checking, answer, faults>>

\* Mistaken: 204 is installed too.
AnsweredAnything(u) ==
    /\ upc[u] = "asked"
    /\ updateRequired' = required(answer[u])
    /\ upc' = [upc EXCEPT ![u] = "install"]
    /\ UNCHANGED <<builds, offer, checking, answer, faults>>

\* The block takes the computed value, then the release is installed.
AnsweredRelease(u) ==
    /\ upc[u] = "asked"
    /\ answer[u] # None
    /\ updateRequired' = required(answer[u])
    /\ upc' = [upc EXCEPT ![u] = "install"]
    /\ UNCHANGED <<builds, offer, checking, answer, faults>>

\* The check failed, or the download, verification or installation did.
CheckFailed(u) ==
    /\ upc[u] # "idle"
    /\ Fault
    /\ EndCheck(u)
    /\ UNCHANGED <<builds, offer, updateRequired>>

Installed(u) ==
    /\ upc[u] = "install"
    /\ installed' = answer[u].version
    /\ EndCheck(u)
    /\ UNCHANGED <<version, offer, updateRequired, faults>>

\* The next launch runs the installed build; CollectionControl::default().
Relaunch ==
    /\ version' = installed
    /\ updateRequired' = FALSE
    /\ checking' = FALSE
    /\ upc' = [u \in Checker |-> "idle"]
    /\ answer' = [u \in Checker |-> None]
    /\ UNCHANGED <<installed, offer, faults>>
-----------------------------------------------------------------------------
check_once(u) ==
    Ask(u) \/ AnsweredNone(u) \/ AnsweredRelease(u) \/ CheckFailed(u) \/ Installed(u)

Next ==
    \/ \E release \in {None} \cup [version : Release, mandatory : BOOLEAN] : Publish(release)
    \/ \E u \in Checker : check_once(u)
    \/ Relaunch

Spec == Init /\ [][Next]_vars

\* The loop checks at startup and every six hours; a check that has started
\* is answered, installed or failed in bounded time.
Fairness ==
    /\ WF_vars(check_once(UpdateLoop))
    /\ \A u \in Checker :
          WF_vars(AnsweredNone(u) \/ AnsweredRelease(u) \/ CheckFailed(u) \/ Installed(u))

FairSpec == Spec /\ Fairness
-----------------------------------------------------------------------------
(* Properties.                                                             *)

(***************************************************************************)
(* The loop and the two manual triggers never download and install at the  *)
(* same time (runtime.rs, update_check_in_flight).                         *)
(***************************************************************************)
OneInstaller ==
    \A u, v \in Checker : upc[u] = "install" /\ upc[v] = "install" => u = v

(***************************************************************************)
(* A mandatory release that is halted or superseded by an optional one     *)
(* stops blocking sync in the end (update.rs, check_once: "clear any stale *)
(* block so a pulled (halted) mandatory release stops blocking sync").     *)
(***************************************************************************)
BlockLifts == <>[](~offer.mandatory) => <>[](~updateRequired)
=============================================================================

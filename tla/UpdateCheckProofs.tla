------------------------- MODULE UpdateCheckProofs -------------------------
(***************************************************************************)
(* One update check at a time, for any number of callers and releases.     *)
(***************************************************************************)
EXTENDS UpdateCheck, TLAPS

(***************************************************************************)
(* A pending answer is a published release or none: the build that asked   *)
(* is no older than the first, so nothing newer than it is.                *)
(***************************************************************************)
AnswerInv ==
    \A u \in Checker : upc[u] = "asked" => answer[u] = None \/ answer[u].version \in Release

(***************************************************************************)
(* SlotInv: whoever runs a check holds the slot, and nobody else does.     *)
(***************************************************************************)
SlotInv ==
    \A u \in Checker : upc[u] # "idle" =>
        checking /\ \A v \in Checker : upc[v] # "idle" => v = u

TypeInv == TypeOK /\ AnswerInv
-----------------------------------------------------------------------------
(* What the release service serves is an offer: none, or a release.        *)
LEMMA ServedType ==
    ASSUME TypeOK
    PROVE  Served \in Offer /\ (Served = None \/ Served.version \in Release)
<1>1. /\ FirstVersion = 0 /\ Release \subseteq Nat
      /\ version \in {0} \cup Release
      /\ offer \in [version : {0} \cup Release, mandatory : BOOLEAN]
    BY BoundsAssumption DEF TypeOK, Offer, FirstVersion
<1>2. None \in Offer
    BY DEF None, Offer
<1>3. CASE offer.version > version
    <2>1. offer.version # 0
        BY <1>1, <1>3
    <2>2. offer.version \in Release
        BY <1>1, <2>1
    <2> QED
        BY <1>1, <1>3, <2>2 DEF Served, Offer, FirstVersion
<1>4. CASE ~(offer.version > version)
    BY <1>2, <1>4 DEF Served
<1> QED
    BY <1>3, <1>4

(* What the service may publish is an offer.                               *)
LEMMA PublishedType == {None} \cup [version : Release, mandatory : BOOLEAN] \subseteq Offer
<1>1. None \in Offer
    BY DEF None, Offer
<1>2. ASSUME NEW r \in [version : Release, mandatory : BOOLEAN] PROVE r \in Offer
    BY DEF Offer
<1> QED
    BY <1>1, <1>2

(* TypeInv holds at the start.                                             *)
LEMMA TypeInit == Init => TypeInv
<1> SUFFICES ASSUME Init PROVE TypeInv
    OBVIOUS
<1>1. None \in Offer
    BY PublishedType
<1>2. {updateRequired, checking} \subseteq BOOLEAN
    BY DEF Init
<1>3. /\ {version, installed} \subseteq {FirstVersion} \cup Release
      /\ offer \in Offer
      /\ answer \in [Checker -> Offer]
    BY <1>1 DEF Init
<1>4. /\ upc \in [Checker -> {"idle", "asked", "install"}]
      /\ \A u \in Checker : upc[u] # "install"
      /\ faults \in 0..MaxFaults
    BY BoundsAssumption DEF Init
<1>5. TypeOK
    BY <1>2, <1>3, <1>4 DEF TypeOK
<1>6. AnswerInv
    BY DEF Init, AnswerInv
<1> QED
    BY <1>5, <1>6 DEF TypeInv

(* Every step keeps TypeInv.                                               *)
LEMMA TypeStep == TypeInv /\ [Next]_vars => TypeInv'
<1> SUFFICES ASSUME TypeInv, [Next]_vars PROVE TypeInv'
    OBVIOUS
<1> USE BoundsAssumption DEF TypeInv
<1>f. Fault => faults' \in 0..MaxFaults
    BY DEF Fault, TypeOK
<1>e. ASSUME NEW u \in Checker, EndCheck(u)
      PROVE  /\ checking' \in BOOLEAN
             /\ upc' \in [Checker -> {"idle", "asked", "install"}]
             /\ answer' \in [Checker -> Offer]
             /\ \A v \in Checker : upc'[v] = "install" => answer'[v].version \in Release
             /\ AnswerInv'
    BY <1>e DEF EndCheck, TypeOK, AnswerInv, None, Offer
<1>1. ASSUME NEW release \in {None} \cup [version : Release, mandatory : BOOLEAN],
             Publish(release)
      PROVE  TypeInv'
    <2>1. release \in Offer
        BY PublishedType
    <2> QED
        BY <1>1, <2>1 DEF Publish, TypeOK, AnswerInv, builds, checks
<1>2. ASSUME NEW u \in Checker, Ask(u) PROVE TypeInv'
    BY <1>2, ServedType DEF Ask, TypeOK, AnswerInv, builds
<1>3. ASSUME NEW u \in Checker, AnsweredNone(u) PROVE TypeInv'
    BY <1>3, <1>e DEF AnsweredNone, TypeOK, builds
<1>4. ASSUME NEW u \in Checker, AnsweredRelease(u) PROVE TypeInv'
    <2>1. answer[u] \in Offer /\ answer[u].version \in Release
        BY <1>4 DEF AnsweredRelease, TypeOK, AnswerInv
    <2>2. required(answer[u]) \in BOOLEAN
        BY DEF required
    <2> QED
        BY <1>4, <2>1, <2>2 DEF AnsweredRelease, TypeOK, AnswerInv, builds
<1>5. ASSUME NEW u \in Checker, CheckFailed(u) PROVE TypeInv'
    BY <1>5, <1>e, <1>f DEF CheckFailed, TypeOK, builds
<1>6. ASSUME NEW u \in Checker, Installed(u) PROVE TypeInv'
    <2>1. installed' \in {FirstVersion} \cup Release
        BY <1>6 DEF Installed, TypeOK
    <2> QED
        BY <1>6, <1>e, <2>1 DEF Installed, TypeOK
<1>7. ASSUME Relaunch PROVE TypeInv'
    <2>1. {version', installed'} \subseteq {FirstVersion} \cup Release
        BY <1>7 DEF Relaunch, TypeOK
    <2>2. {updateRequired', checking'} \subseteq BOOLEAN
        BY <1>7 DEF Relaunch
    <2>3. /\ upc' \in [Checker -> {"idle", "asked", "install"}]
          /\ answer' \in [Checker -> Offer]
          /\ \A u \in Checker : upc'[u] = "idle"
        BY <1>7 DEF Relaunch, None, Offer
    <2> QED
        BY <1>7, <2>1, <2>2, <2>3 DEF Relaunch, TypeOK, AnswerInv
<1>8. UNCHANGED vars => TypeInv'
    BY DEF vars, builds, checks, TypeOK, AnswerInv
<1> QED
    BY <1>1, <1>2, <1>3, <1>4, <1>5, <1>6, <1>7, <1>8 DEF Next, check_once

(* Every variable keeps its type, and only a published release is ever     *)
(* handed to the installer.                                                *)
THEOREM TypeCorrect == Spec => []TypeOK
<1>1. TypeInv => TypeOK
    BY DEF TypeInv
<1> QED
    BY <1>1, TypeInit, TypeStep, PTL DEF Spec

(* Every step keeps SlotInv.                                               *)
LEMMA SlotStep == TypeInv /\ SlotInv /\ [Next]_vars => SlotInv'
<1> SUFFICES ASSUME TypeInv, SlotInv, [Next]_vars PROVE SlotInv'
    OBVIOUS
<1>t. upc \in [Checker -> {"idle", "asked", "install"}]
    BY DEF TypeInv, TypeOK
<1>e. ASSUME NEW u \in Checker, upc[u] # "idle", EndCheck(u) PROVE SlotInv'
    \* u was the only one running a check, and is no longer
    <2>1. \A v \in Checker : v # u => upc[v] = "idle"
        BY <1>e DEF SlotInv
    <2>2. \A v \in Checker : upc'[v] = "idle"
        BY <1>e, <1>t, <2>1 DEF EndCheck
    <2> QED
        BY <2>2 DEF SlotInv
<1>1. ASSUME NEW release, Publish(release) PROVE SlotInv'
    BY <1>1 DEF Publish, SlotInv, checks
<1>2. ASSUME NEW u \in Checker, Ask(u) PROVE SlotInv'
    <2>1. \A v \in Checker : upc[v] = "idle"
        BY <1>2 DEF Ask, SlotInv
    <2> QED
        BY <1>2, <1>t, <2>1 DEF Ask, SlotInv
<1>3. ASSUME NEW u \in Checker, AnsweredNone(u) PROVE SlotInv'
    BY <1>3, <1>e DEF AnsweredNone
<1>4. ASSUME NEW u \in Checker, AnsweredRelease(u) PROVE SlotInv'
    BY <1>4, <1>t DEF AnsweredRelease, SlotInv
<1>5. ASSUME NEW u \in Checker, CheckFailed(u) PROVE SlotInv'
    BY <1>5, <1>e DEF CheckFailed
<1>6. ASSUME NEW u \in Checker, Installed(u) PROVE SlotInv'
    BY <1>6, <1>e DEF Installed
<1>7. Relaunch => SlotInv'
    BY DEF Relaunch, SlotInv
<1>8. UNCHANGED vars => SlotInv'
    BY DEF vars, checks, SlotInv
<1> QED
    BY <1>1, <1>2, <1>3, <1>4, <1>5, <1>6, <1>7, <1>8 DEF Next, check_once

(* The update loop and the manual triggers never download and install at   *)
(* the same time, however checks fail and the agent restarts.              *)
THEOREM OneInstallerAtATime == Spec => []OneInstaller
<1>1. Init => SlotInv
    BY DEF Init, SlotInv
<1>2. SlotInv => OneInstaller
    BY DEF SlotInv, OneInstaller
<1> QED
    BY <1>1, <1>2, TypeInit, TypeStep, SlotStep, PTL DEF Spec
=============================================================================

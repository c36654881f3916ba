------------------------- MODULE DeviceAccessProofs -------------------------
(***************************************************************************)
(* Revoked devices and destroyed tokens stay out, and a rotation leaves    *)
(* every row readable, for any devices, requests and issues.               *)
(***************************************************************************)
EXTENDS DeviceAccess, TLAPS

(***************************************************************************)
(* RevokedInv: a revoked device is paused or deleted, and a request that   *)
(* came later has read so.                                                 *)
(***************************************************************************)
RevokedInv ==
    /\ \A d \in revoked : conn[d] \in {"paused", "deleted"}
    /\ \A r \in Request :
           frame[r].pc = "compare" /\ frame[r].late => frame[r].status = "paused"

(***************************************************************************)
(* SecretInv: secrets are numbered as they are minted; one that was stale  *)
(* when a request brought it is stale for good: it is neither stored nor   *)
(* about to be.                                                            *)
(***************************************************************************)
SecretInv ==
    /\ \A i \in Issuer : issue[i] # Idle => issue[i].secret \in 1..Len(secrets)
    /\ \A r \in Request : frame[r].pc = "compare" =>
           /\ frame[r].secret \in 1..Len(secrets)
           /\ frame[r].stale =>
                  /\ cred[frame[r].device].secret # frame[r].secret
                  /\ \A i \in Issuer : issue[i] # Idle => issue[i].secret # frame[r].secret

(***************************************************************************)
(* SweepInv: apart from the rows that were raced, every stored token is    *)
(* under its own data key; what a sweep has read and not yet written is    *)
(* still so; and the sweep still has every row it needs, until there are   *)
(* none.                                                                   *)
(***************************************************************************)
Settled(d) == cred[d] # NoCred /\ ~cred[d].raced

SweepInv ==
    /\ sweep # {} => kek = "window"
    /\ \A d \in Device : cred[d] # NoCred => cred[d].row # 0 /\ cred[d].kek \in {1, 2}
    /\ \A d \in Device : Settled(d) => cred[d].dek = cred[d].secret
    /\ \A item \in sweep :
           /\ item.old.row # 0
           /\ Settled(item.device) /\ cred[item.device].row = item.old.row =>
                  item.old.dek = cred[item.device].dek
    /\ sweep # {} => \A d \in Device : Settled(d) /\ cred[d].kek = 1 =>
           \E item \in sweep : item.device = d /\ item.old.row = cred[d].row
    /\ kek \in {"swept", "dropped"} => \A d \in Device : Settled(d) => cred[d].kek = 2
-----------------------------------------------------------------------------
(* What the fields of a frame can be.                                      *)
LEMMA FrameFields ==
    ASSUME TypeOK, NEW r \in Request
    PROVE  /\ frame[r] = Idle \/ frame[r] \in Frames
           /\ frame[r].pc \in {"compare", "serve"} => frame[r] \in Frames /\ frame[r] # Idle
           /\ frame[r] = Idle => frame[r].pc = "idle"
BY DEF TypeOK, Frames, Idle

LEMMA IssueFields ==
    ASSUME TypeOK, NEW i \in Issuer, issue[i] # Idle
    PROVE  issue[i] \in Issues
BY DEF TypeOK

LEMMA NoFrameIsIdle == Idle \notin Frames /\ Idle \notin Issues
BY DEF Idle, Frames, Issues

LEMMA NoCredIsACred == NoCred \in Creds
BY DEF NoCred, Creds

LEMMA StoredCredType ==
    ASSUME TypeOK, NEW i \in Issuer, issue[i] # Idle
    PROVE  /\ StoredCred(i) \in Creds
           /\ StoredCred(i).secret = issue[i].secret /\ StoredCred(i).dek = issue[i].secret
           /\ StoredCred(i).kek = issue[i].kek
           /\ StoredCred(i).raced = (sweep # {} \/ issue[i].kek # currentKek)
           /\ StoredCred(i).row = IF cred[issue[i].device] = NoCred THEN issue[i].secret
                                  ELSE cred[issue[i].device].row
<1>1. issue[i] \in Issues /\ cred[issue[i].device] \in Creds
    BY IssueFields DEF TypeOK, Issues
<1> QED
    BY <1>1 DEF StoredCred, Creds, Issues

LEMMA RewrappedType ==
    ASSUME NEW d \in Device, NEW old \in Creds, cred[d] \in Creds
    PROVE  /\ Rewrapped(d, old) \in Creds
           /\ Rewrapped(d, old).secret = cred[d].secret /\ Rewrapped(d, old).row = cred[d].row
           /\ Rewrapped(d, old).raced = cred[d].raced
           /\ cred[d].row # old.row => Rewrapped(d, old) = cred[d]
           /\ cred[d].row = old.row => Rewrapped(d, old).dek = old.dek /\ Rewrapped(d, old).kek = 2
<1>1. CASE cred[d].row = old.row
    <2>1. Rewrapped(d, old) = [cred[d] EXCEPT !.dek = old.dek, !.kek = 2]
        BY <1>1 DEF Rewrapped
    <2> QED
        BY <1>1, <2>1 DEF Creds
<1>2. CASE cred[d].row # old.row
    BY <1>2 DEF Rewrapped
<1> QED
    BY <1>1, <1>2

LEMMA NeedRewrapType ==
    ASSUME TypeOK
    PROVE  NeedRewrap \subseteq [device : Device, old : Creds]
<1> SUFFICES ASSUME NEW item \in NeedRewrap PROVE item \in [device : Device, old : Creds]
    OBVIOUS
<1>1. PICK d \in Device : item = [device |-> d, old |-> cred[d]]
    BY DEF NeedRewrap
<1> QED
    BY <1>1 DEF TypeOK
-----------------------------------------------------------------------------
LEMMA TypeInit == Init => TypeOK
BY NoCredIsACred DEF Init, TypeOK, Status

(* Every step keeps the types.                                             *)
LEMMA TypeStep == TypeOK /\ [Next]_vars => TypeOK'
<1> SUFFICES ASSUME TypeOK, [Next]_vars PROVE TypeOK'
    OBVIOUS
<1>1. ASSUME NEW i \in Issuer, NEW d \in Device, BeginIssue(i, d) PROVE TypeOK'
    <2>1. [pc |-> "store", device |-> d, secret |-> Len(secrets) + 1, kek |-> currentKek] \in Issues
        BY DEF TypeOK, Issues, currentKek
    <2>2. secrets' \in Seq(Device)
        BY <1>1 DEF BeginIssue, TypeOK
    <2> QED
        BY <1>1, <2>1, <2>2 DEF BeginIssue, TypeOK, Status, tokens, revokes, keys
<1>2. ASSUME NEW i \in Issuer, storeCredential(i) PROVE TypeOK'
    BY <1>2, StoredCredType, IssueFields DEF storeCredential, TypeOK, tokens, revokes, keys
<1>3. ASSUME NEW i \in Issuer, IssueDies(i) PROVE TypeOK'
    BY <1>3 DEF IssueDies, TypeOK, tokens, revokes, keys
<1>4. ASSUME NEW r \in Request, NEW d \in Device, NEW s \in 1..Len(secrets), BeginWithSecret(r, d, s)
      PROVE  TypeOK'
    <2>1. [pc |-> "compare", device |-> d, secret |-> s, status |-> conn[d],
           late |-> d \in revoked, stale |-> cred[d].secret # s] \in Frames
        BY DEF TypeOK, Frames
    <2> QED
        BY <1>4, <2>1 DEF BeginWithSecret, TypeOK, tokens, revokes, keys
<1>5. ASSUME NEW r \in Request, Compare(r) PROVE TypeOK'
    <2>1. frame[r] \in Frames
        BY <1>5, FrameFields DEF Compare
    <2>2. [frame[r] EXCEPT !.pc = "serve"] \in Frames
        BY <2>1 DEF Frames
    <2> QED
        BY <1>5, <2>2 DEF Compare, TypeOK, tokens, revokes, keys
<1>6. ASSUME NEW r \in Request, NEW d \in Device, BeginWithAccess(r, d) PROVE TypeOK'
    <2>1. [pc |-> "serve", device |-> d, secret |-> 0, status |-> conn[d],
           late |-> d \in revoked, stale |-> FALSE] \in Frames
        BY DEF TypeOK, Frames
    <2> QED
        BY <1>6, <2>1 DEF BeginWithAccess, TypeOK, tokens, revokes, keys
<1>7. ASSUME NEW r \in Request, markSynced(r) PROVE TypeOK'
    <2>1. frame[r].device \in Device
        BY <1>7, FrameFields DEF markSynced, Frames
    <2> QED
        BY <1>7, <2>1 DEF markSynced, Finish, TypeOK, Status, tokens, revokes, keys
<1>8. ASSUME NEW r \in Request, issueDesktopAccessToken(r) PROVE TypeOK'
    <2>1. frame[r].device \in Device
        BY <1>8, FrameFields DEF issueDesktopAccessToken, Frames
    <2> QED
        BY <1>8, <2>1 DEF issueDesktopAccessToken, Finish, TypeOK, revokes, keys
<1>9. ASSUME NEW d \in Device, revokeDevice(d) PROVE TypeOK'
    BY <1>9, NoCredIsACred DEF revokeDevice, RevokePauses, deleteCredential, RevokeDies, TypeOK, Status,
                               tokens, revokes, keys
<1>10. ASSUME NEW d \in Device, deleteConnection(d) PROVE TypeOK'
    BY <1>10, NoCredIsACred DEF deleteConnection, TypeOK, Status, tokens, revokes, keys
<1>11. ASSUME NEW d \in Device, NEW status \in {"active", "paused"}, updateConnection(d, status) PROVE TypeOK'
    BY <1>11 DEF updateConnection, TypeOK, Status, tokens, keys
<1>12. ASSUME NEW d \in Device, AccessExpires(d) PROVE TypeOK'
    BY <1>12 DEF AccessExpires, TypeOK, revokes, keys
<1>13. CASE DeployKek \/ SweepDies \/ DropPrevious
    BY <1>13 DEF DeployKek, SweepDies, DropPrevious, TypeOK, tokens, revokes
<1>14. CASE BeginSweep
    BY <1>14, NeedRewrapType DEF BeginSweep, TypeOK, tokens, revokes
<1>15. ASSUME NEW item \in sweep, rewrapCredential(item) PROVE TypeOK'
    <2>1. item.device \in Device /\ item.old \in Creds /\ sweep' \subseteq sweep
        BY <1>15 DEF TypeOK, rewrapCredential
    <2>2. Rewrapped(item.device, item.old) \in Creds
        BY <2>1, RewrappedType DEF TypeOK
    <2>3. kek' \in {"before", "window", "swept", "dropped"} /\ cred' \in [Device -> Creds]
        BY <1>15, <2>1, <2>2 DEF rewrapCredential, TypeOK
    <2> QED
        BY <1>15, <2>1, <2>3 DEF rewrapCredential, TypeOK, tokens, revokes
<1>16. CASE UNCHANGED vars
    BY <1>16 DEF vars, TypeOK, tokens, revokes, keys
<1> QED
    BY <1>1, <1>2, <1>3, <1>4, <1>5, <1>6, <1>7, <1>8, <1>9, <1>10, <1>11, <1>12, <1>13, <1>14, <1>15, <1>16
    DEF Next, Issuing, Serving, Rotation

(***************************************************************************)
(* Every variable keeps its type.                                          *)
(***************************************************************************)
THEOREM TypeCorrect == Spec => []TypeOK
BY TypeInit, TypeStep, PTL DEF Spec
-----------------------------------------------------------------------------
(* Every step keeps RevokedInv and RevokedStaysOut.                        *)
LEMMA RevokedStep ==
    TypeOK /\ RevokedInv /\ RevokedStaysOut /\ [Next]_vars => RevokedInv' /\ RevokedStaysOut'
<1> SUFFICES ASSUME TypeOK, RevokedInv, RevokedStaysOut, [Next]_vars
             PROVE  RevokedInv' /\ RevokedStaysOut'
    OBVIOUS
<1>1. ASSUME NEW i \in Issuer, NEW d \in Device, BeginIssue(i, d) PROVE RevokedInv' /\ RevokedStaysOut'
    BY <1>1 DEF BeginIssue, RevokedInv, RevokedStaysOut, TypeOK, tokens, revokes, keys
<1>2. ASSUME NEW r \in Request, NEW d \in Device, NEW s \in 1..Len(secrets), BeginWithSecret(r, d, s)
      PROVE  RevokedInv' /\ RevokedStaysOut'
    BY <1>2 DEF BeginWithSecret, Exists, RevokedInv, RevokedStaysOut, TypeOK, tokens, revokes, keys
<1>3. ASSUME NEW r \in Request, Compare(r) PROVE RevokedInv' /\ RevokedStaysOut'
    <2>1. frame[r] \in Frames /\ frame[r].pc = "compare"
        BY <1>3, FrameFields DEF Compare
    <2>2. CASE Matches(r) /\ frame[r].status # "paused"
        <3>1. ~frame[r].late
            BY <2>1, <2>2 DEF RevokedInv
        <3>2. frame' = [frame EXCEPT ![r] = [frame[r] EXCEPT !.pc = "serve"]]
            BY <1>3, <2>2 DEF Compare
        <3>3. /\ [frame[r] EXCEPT !.pc = "serve"].pc = "serve"
              /\ [frame[r] EXCEPT !.pc = "serve"].late = frame[r].late
            BY <2>1 DEF Frames
        <3> QED
            BY <1>3, <3>1, <3>2, <3>3 DEF Compare, RevokedInv, RevokedStaysOut, TypeOK, revokes
    <2>3. CASE ~(Matches(r) /\ frame[r].status # "paused")
        BY <1>3, <2>3 DEF Compare, Idle, RevokedInv, RevokedStaysOut, TypeOK, revokes
    <2> QED
        BY <2>2, <2>3
<1>4. ASSUME NEW r \in Request, NEW d \in Device, BeginWithAccess(r, d)
      PROVE  RevokedInv' /\ RevokedStaysOut'
    <2>1. d \notin revoked
        BY <1>4 DEF BeginWithAccess, AccessOpens, Exists, RevokedInv
    <2> QED
        BY <1>4, <2>1 DEF BeginWithAccess, RevokedInv, RevokedStaysOut, TypeOK, tokens, revokes, keys
<1>5. ASSUME NEW r \in Request, markSynced(r) \/ issueDesktopAccessToken(r)
      PROVE  RevokedInv' /\ RevokedStaysOut'
    <2>1. \A d \in revoked : conn'[d] = conn[d]
        BY <1>5 DEF markSynced, issueDesktopAccessToken, Syncs, Exists, RevokedInv, TypeOK
    <2>2. revoked' = revoked
        BY <1>5 DEF markSynced, issueDesktopAccessToken, revokes
    <2>3. \A q \in Request : frame'[q] = frame[q] \/ frame'[q].pc = "idle"
        BY <1>5 DEF markSynced, issueDesktopAccessToken, Finish, Idle, TypeOK
    <2> QED
        BY <2>1, <2>2, <2>3 DEF RevokedInv, RevokedStaysOut, TypeOK
<1>6. ASSUME NEW d \in Device,
             \/ revokeDevice(d) \/ deleteConnection(d)
             \/ \E status \in {"active", "paused"} : updateConnection(d, status)
      PROVE  RevokedInv' /\ RevokedStaysOut'
    BY <1>6 DEF revokeDevice, RevokePauses, deleteCredential, RevokeDies, deleteConnection, updateConnection,
                RevokedInv, RevokedStaysOut, TypeOK, revokes
<1>7. CASE UNCHANGED <<conn, revoked, frame>>
    BY <1>7 DEF RevokedInv, RevokedStaysOut
<1>8. \A i \in Issuer : Issuing(i) => UNCHANGED <<conn, revoked, frame>>
    BY DEF Issuing, storeCredential, IssueDies, revokes
<1>9. \A d \in Device : AccessExpires(d) => UNCHANGED <<conn, revoked, frame>>
    BY DEF AccessExpires, revokes
<1>10. Rotation \/ UNCHANGED vars => UNCHANGED <<conn, revoked, frame>>
    BY DEF Rotation, DeployKek, BeginSweep, SweepDies, DropPrevious, rewrapCredential, vars, revokes
<1> QED
    BY <1>1, <1>2, <1>3, <1>4, <1>5, <1>6, <1>7, <1>8, <1>9, <1>10 DEF Next, Serving

(***************************************************************************)
(* Nobody is served after a completed revocation.                          *)
(***************************************************************************)
THEOREM TheRevokedStayOut == Spec => []RevokedStaysOut
<1>1. Init => RevokedInv /\ RevokedStaysOut
    BY DEF Init, RevokedInv, RevokedStaysOut, Idle
<1> QED
    BY <1>1, TypeInit, TypeStep, RevokedStep, PTL DEF Spec
-----------------------------------------------------------------------------
(* Every step keeps SecretInv and DestroyedStaysDestroyed.                 *)
LEMMA SecretStep ==
    TypeOK /\ SecretInv /\ DestroyedStaysDestroyed /\ [Next]_vars =>
        SecretInv' /\ DestroyedStaysDestroyed'
<1> SUFFICES ASSUME TypeOK, SecretInv, DestroyedStaysDestroyed, [Next]_vars
             PROVE  SecretInv' /\ DestroyedStaysDestroyed'
    OBVIOUS
<1>a. Len(secrets) \in Nat
    BY DEF TypeOK
<1>1. ASSUME NEW i \in Issuer, NEW d \in Device, BeginIssue(i, d)
      PROVE  SecretInv' /\ DestroyedStaysDestroyed'
    <2>1. Len(secrets') = Len(secrets) + 1
        BY <1>1 DEF BeginIssue, TypeOK
    <2>2. /\ issue'[i].secret = Len(secrets) + 1
          /\ \A j \in Issuer \ {i} : issue'[j] = issue[j]
        BY <1>1 DEF BeginIssue, TypeOK
    <2>3. SecretInv'
        BY <1>a, <1>1, <2>1, <2>2 DEF BeginIssue, SecretInv
    <2> QED
        BY <1>1, <2>3 DEF BeginIssue, DestroyedStaysDestroyed
<1>2. ASSUME NEW i \in Issuer, storeCredential(i) PROVE SecretInv' /\ DestroyedStaysDestroyed'
    <2>1. /\ issue'[i] = Idle /\ \A j \in Issuer \ {i} : issue'[j] = issue[j]
          /\ issue[i] # Idle /\ issue[i].device \in Device
        BY <1>2, IssueFields DEF storeCredential, TypeOK, Issues
    <2>2. ASSUME NEW d \in Device
          PROVE  cred'[d].secret = cred[d].secret \/ cred'[d].secret = issue[i].secret
        BY <1>2, <2>1, StoredCredType DEF storeCredential, TypeOK
    <2>3. UNCHANGED <<frame, secrets>>
        BY <1>2 DEF storeCredential, tokens
    <2>4. \A r \in Request : frame[r].pc = "compare" => frame[r].device \in Device
        BY FrameFields DEF Frames
    <2>5. SecretInv'
        BY <2>1, <2>2, <2>3, <2>4 DEF SecretInv
    <2> QED
        BY <2>3, <2>5 DEF DestroyedStaysDestroyed
<1>3. ASSUME NEW i \in Issuer, IssueDies(i) PROVE SecretInv' /\ DestroyedStaysDestroyed'
    BY <1>3 DEF IssueDies, SecretInv, DestroyedStaysDestroyed, TypeOK, tokens
<1>4. ASSUME NEW r \in Request, NEW d \in Device, NEW s \in 1..Len(secrets), BeginWithSecret(r, d, s)
      PROVE  SecretInv' /\ DestroyedStaysDestroyed'
    BY <1>4 DEF BeginWithSecret, SecretInv, DestroyedStaysDestroyed, TypeOK, tokens
<1>5. ASSUME NEW r \in Request, Compare(r) PROVE SecretInv' /\ DestroyedStaysDestroyed'
    <2>1. frame[r] \in Frames /\ frame[r].pc = "compare"
        BY <1>5, FrameFields DEF Compare
    <2>2. CASE Matches(r) /\ frame[r].status # "paused"
        <3>1. ~frame[r].stale
            BY <2>1, <2>2 DEF Matches, SecretInv
        <3>2. frame' = [frame EXCEPT ![r] = [frame[r] EXCEPT !.pc = "serve"]]
            BY <1>5, <2>2 DEF Compare
        <3>3. /\ [frame[r] EXCEPT !.pc = "serve"].pc = "serve"
              /\ [frame[r] EXCEPT !.pc = "serve"].stale = frame[r].stale
            BY <2>1 DEF Frames
        <3>4. \A q \in Request : frame'[q] = frame[q] \/ (frame'[q].pc = "serve" /\ ~frame'[q].stale)
            BY <3>1, <3>2, <3>3 DEF TypeOK
        <3>5. UNCHANGED <<cred, secrets, issue>>
            BY <1>5 DEF Compare, tokens
        <3> QED
            BY <3>4, <3>5 DEF SecretInv, DestroyedStaysDestroyed
    <2>3. CASE ~(Matches(r) /\ frame[r].status # "paused")
        <3>1. \A q \in Request : frame'[q] = frame[q] \/ frame'[q].pc = "idle"
            BY <1>5, <2>3 DEF Compare, Idle, TypeOK
        <3> QED
            BY <1>5, <3>1 DEF Compare, SecretInv, DestroyedStaysDestroyed, tokens
    <2> QED
        BY <2>2, <2>3
<1>6. ASSUME NEW r \in Request, NEW d \in Device, BeginWithAccess(r, d)
      PROVE  SecretInv' /\ DestroyedStaysDestroyed'
    <2>1. \A q \in Request : frame'[q] = frame[q] \/ (frame'[q].pc = "serve" /\ ~frame'[q].stale)
        BY <1>6 DEF BeginWithAccess, TypeOK
    <2> QED
        BY <1>6, <2>1 DEF BeginWithAccess, SecretInv, DestroyedStaysDestroyed, tokens
<1>7. ASSUME NEW r \in Request, markSynced(r) \/ issueDesktopAccessToken(r)
      PROVE  SecretInv' /\ DestroyedStaysDestroyed'
    <2>1. \A q \in Request : frame'[q] = frame[q] \/ frame'[q].pc = "idle"
        BY <1>7 DEF markSynced, issueDesktopAccessToken, Finish, Idle, TypeOK
    <2>2. UNCHANGED <<cred, secrets, issue>>
        BY <1>7 DEF markSynced, issueDesktopAccessToken, tokens
    <2> QED
        BY <2>1, <2>2 DEF SecretInv, DestroyedStaysDestroyed
<1>8. ASSUME NEW d \in Device, cred' = [cred EXCEPT ![d] = NoCred], UNCHANGED <<frame, secrets, issue>>
      PROVE  SecretInv' /\ DestroyedStaysDestroyed'
    <2>1. \A e \in Device : cred'[e].secret = cred[e].secret \/ cred'[e].secret = 0
        BY <1>8 DEF TypeOK, NoCred
    <2>2. \A r \in Request : frame[r].pc = "compare" => frame[r].device \in Device
        BY FrameFields DEF Frames
    <2> QED
        BY <1>8, <2>1, <2>2 DEF SecretInv, DestroyedStaysDestroyed
<1>9. CASE UNCHANGED <<cred, secrets, frame, issue>>
    BY <1>9 DEF SecretInv, DestroyedStaysDestroyed
<1>10. ASSUME NEW d \in Device, revokeDevice(d) \/ deleteConnection(d)
       PROVE  SecretInv' /\ DestroyedStaysDestroyed'
    <2>1. /\ UNCHANGED <<secrets, frame, issue>>
          /\ cred' = cred \/ cred' = [cred EXCEPT ![d] = NoCred]
        BY <1>10 DEF revokeDevice, RevokePauses, deleteCredential, RevokeDies, deleteConnection, tokens
    <2> QED
        BY <1>8, <1>9, <2>1
<1>11. ASSUME NEW d \in Device,
              AccessExpires(d) \/ \E status \in {"active", "paused"} : updateConnection(d, status)
       PROVE  SecretInv' /\ DestroyedStaysDestroyed'
    BY <1>9, <1>11 DEF AccessExpires, updateConnection, tokens
<1>12. ASSUME NEW item \in sweep, rewrapCredential(item) PROVE SecretInv' /\ DestroyedStaysDestroyed'
    <2>1. item.device \in Device /\ item.old \in Creds
        BY <1>12 DEF TypeOK
    <2>2. \A d \in Device : cred'[d].secret = cred[d].secret
        BY <1>12, <2>1, RewrappedType DEF rewrapCredential, TypeOK
    <2>3. \A r \in Request : frame[r].pc = "compare" => frame[r].device \in Device
        BY FrameFields DEF Frames
    <2>4. UNCHANGED <<secrets, frame, issue>>
        BY <1>12 DEF rewrapCredential, tokens
    <2> QED
        BY <2>2, <2>3, <2>4 DEF SecretInv, DestroyedStaysDestroyed
<1>13. CASE DeployKek \/ BeginSweep \/ SweepDies \/ DropPrevious \/ UNCHANGED vars
    BY <1>9, <1>13 DEF DeployKek, BeginSweep, SweepDies, DropPrevious, vars, tokens
<1> QED
    BY <1>1, <1>2, <1>3, <1>4, <1>5, <1>6, <1>7, <1>10, <1>11, <1>12, <1>13
    DEF Next, Issuing, Serving, Rotation

(***************************************************************************)
(* A destroyed token does not come back.                                   *)
(***************************************************************************)
THEOREM TheDestroyedStayDestroyed == Spec => []DestroyedStaysDestroyed
<1>1. Init => SecretInv /\ DestroyedStaysDestroyed
    BY DEF Init, SecretInv, DestroyedStaysDestroyed, Idle
<1> QED
    BY <1>1, TypeInit, TypeStep, SecretStep, PTL DEF Spec
-----------------------------------------------------------------------------
(* SweepInv speaks of the rows, the sweep, the rotation and the issues.    *)
LEMMA SweepFrame ==
    ASSUME SweepInv, UNCHANGED <<cred, sweep, kek>>
    PROVE  SweepInv'
BY DEF SweepInv, Settled

(* A row that is deleted, or stored as raced, is not settled.              *)
LEMMA SweepUnsettles ==
    ASSUME TypeOK, SweepInv, NEW d \in Device, NEW c \in Creds,
           c = NoCred \/ (c.raced /\ c.row # 0 /\ c.kek \in {1, 2}),
           cred' = [cred EXCEPT ![d] = c], UNCHANGED <<sweep, kek>>
    PROVE  SweepInv'
<1>1. cred'[d] = c /\ \A e \in Device \ {d} : cred'[e] = cred[e]
    BY DEF TypeOK
<1>2. ~Settled(d)'
    BY <1>1 DEF Settled
<1>3. \A e \in Device : Settled(e)' => Settled(e) /\ cred'[e] = cred[e]
    BY <1>1, <1>2 DEF Settled
<1>4. \A e \in Device : cred'[e] # NoCred => cred'[e].row # 0 /\ cred'[e].kek \in {1, 2}
    BY <1>1 DEF SweepInv
<1>5. \A item \in sweep : item.device \in Device
    BY DEF TypeOK
<1> QED
    BY <1>3, <1>4, <1>5 DEF SweepInv

(* A row stored outside a sweep, and not across the deploy, is settled.    *)
LEMMA SweepSettles ==
    ASSUME TypeOK, SweepInv, NEW d \in Device, NEW c \in Creds,
           sweep = {}, c.row # 0, c.dek = c.secret, c.kek = currentKek,
           cred' = [cred EXCEPT ![d] = c], UNCHANGED <<sweep, kek>>
    PROVE  SweepInv'
<1>1. cred'[d] = c /\ \A e \in Device \ {d} : cred'[e] = cred[e]
    BY DEF TypeOK
<1>2. c.kek \in {1, 2} /\ (kek \in {"swept", "dropped"} => c.kek = 2)
    BY DEF currentKek
<1> QED
    BY <1>1, <1>2 DEF SweepInv, Settled

LEMMA SweepStep == TypeOK /\ SecretInv /\ SweepInv /\ [Next]_vars => SweepInv'
<1> SUFFICES ASSUME TypeOK, SecretInv, SweepInv, [Next]_vars PROVE SweepInv'
    OBVIOUS
<1>1. ASSUME NEW i \in Issuer, storeCredential(i) PROVE SweepInv'
    <2> DEFINE d == issue[i].device
    <2>1. issue[i] # Idle /\ d \in Device /\ issue[i].kek \in {1, 2} /\ issue[i].secret # 0
        BY <1>1, IssueFields DEF storeCredential, Issues, SecretInv
    <2>2. CASE d \notin Exists
        BY <1>1, <2>2, SweepFrame DEF storeCredential, keys
    <2>3. CASE d \in Exists
        <3> DEFINE c == StoredCred(i)
        <3>1. cred' = [cred EXCEPT ![d] = c] /\ UNCHANGED <<sweep, kek>>
            BY <1>1, <2>3 DEF storeCredential, keys
        <3>2. c \in Creds /\ c.dek = c.secret /\ c.kek = issue[i].kek
            BY <2>1, StoredCredType
        <3>3. c.row # 0
            BY <2>1, StoredCredType DEF SweepInv
        <3>4. CASE sweep # {} \/ issue[i].kek # currentKek
            <4>1. c.raced
                BY <2>1, <3>4, StoredCredType
            <4> HIDE DEF c
            <4> QED
                BY <2>1, <3>1, <3>2, <3>3, <4>1, SweepUnsettles
        <3>5. CASE ~(sweep # {} \/ issue[i].kek # currentKek)
            <4> HIDE DEF c
            <4> QED
                BY <2>1, <3>1, <3>2, <3>3, <3>5, SweepSettles
        <3> QED
            BY <3>4, <3>5
    <2> QED
        BY <2>2, <2>3
<1>2. ASSUME NEW d \in Device, revokeDevice(d) \/ deleteConnection(d) PROVE SweepInv'
    <2>1. /\ UNCHANGED <<sweep, kek>>
          /\ cred' = cred \/ cred' = [cred EXCEPT ![d] = NoCred]
        BY <1>2 DEF revokeDevice, RevokePauses, deleteCredential, RevokeDies, deleteConnection, keys
    <2> QED
        BY <2>1, NoCredIsACred, SweepFrame, SweepUnsettles
<1>3. CASE DeployKek
    BY <1>3 DEF DeployKek, SweepInv, Settled
<1>4. CASE BeginSweep
    <2>1. cred' = cred /\ kek = "window" /\ sweep = {}
        BY <1>4 DEF BeginSweep
    <2>2. CASE NeedRewrap = {}
        <3>1. kek' = "swept" /\ sweep' = {}
            BY <1>4, <2>1, <2>2 DEF BeginSweep
        <3>2. ASSUME NEW d \in Device PROVE cred[d].kek # 1
            BY <2>2 DEF NeedRewrap
        <3>3. \A d \in Device : Settled(d) => cred[d].kek = 2
            BY <3>2 DEF SweepInv, Settled
        <3> QED
            BY <2>1, <3>1, <3>3 DEF SweepInv, Settled
    <2>3. CASE NeedRewrap # {}
        <3>1. kek' = kek /\ sweep' = NeedRewrap
            BY <1>4, <2>3 DEF BeginSweep
        <3>2. ASSUME NEW item \in NeedRewrap
              PROVE  item.old = cred[item.device] /\ item.device \in Device /\ item.old.kek = 1
            BY DEF NeedRewrap
        <3>3. \A item \in NeedRewrap : item.old.row # 0
            <4>1. NoCred.kek # 1
                BY DEF NoCred
            <4> QED
                BY <3>2, <4>1 DEF SweepInv
        <3>4. ASSUME NEW d \in Device, cred[d].kek = 1
              PROVE  \E item \in NeedRewrap : item.device = d /\ item.old.row = cred[d].row
            <4>1. [device |-> d, old |-> cred[d]] \in NeedRewrap
                BY <3>4 DEF NeedRewrap
            <4> QED
                BY <4>1
        <3> QED
            BY <2>1, <3>1, <3>2, <3>3, <3>4 DEF SweepInv, Settled
    <2> QED
        BY <2>2, <2>3
<1>5. ASSUME NEW item \in sweep, rewrapCredential(item) PROVE SweepInv'
    <2> DEFINE d == item.device
               c == Rewrapped(item.device, item.old)
    <2>1. d \in Device /\ item.old \in Creds /\ cred[d] \in Creds
        BY DEF TypeOK
    <2>2. /\ cred'[d] = c /\ \A e \in Device \ {d} : cred'[e] = cred[e]
          /\ sweep' = sweep \ {item}
          /\ kek = "window" /\ kek' = IF sweep' = {} THEN "swept" ELSE "window"
        BY <1>5, <2>1 DEF rewrapCredential, TypeOK, SweepInv
    <2>3. /\ c.secret = cred[d].secret /\ c.row = cred[d].row /\ c.raced = cred[d].raced
          /\ cred[d].row # item.old.row => c = cred[d]
          /\ cred[d].row = item.old.row => c.dek = item.old.dek /\ c.kek = 2
        BY <2>1, RewrappedType
    <2> HIDE DEF c
    <2>4. cred[d].row = item.old.row => cred[d] # NoCred /\ c # NoCred
        <3>1. NoCred.row = 0
            BY DEF NoCred
        <3> QED
            BY <2>3, <3>1 DEF SweepInv
    <2>5. \A e \in Device : Settled(e)' <=> Settled(e)
        <3>1. Settled(d)' <=> Settled(d)
            BY <2>2, <2>3, <2>4 DEF Settled
        <3> QED
            BY <2>2, <3>1 DEF Settled
    <2>6. \A e \in Device : cred'[e] # NoCred => cred'[e].row # 0 /\ cred'[e].kek \in {1, 2}
        BY <2>1, <2>2, <2>3, <2>4 DEF SweepInv
    <2>7. /\ \A e \in Device : cred'[e].secret = cred[e].secret /\ cred'[e].row = cred[e].row
          /\ \A e \in Device : Settled(e) => cred'[e].dek = cred[e].dek
        <3>1. Settled(d) => cred'[d].dek = cred[d].dek
            BY <2>1, <2>2, <2>3 DEF SweepInv
        <3> QED
            BY <2>1, <2>2, <2>3, <3>1
    <2>8. \A e \in Device : Settled(e)' => cred'[e].dek = cred'[e].secret
        BY <2>5, <2>7 DEF SweepInv
    <2>9. \A it \in sweep' :
              /\ it.old.row # 0
              /\ Settled(it.device)' /\ cred'[it.device].row = it.old.row =>
                     it.old.dek = cred'[it.device].dek
        <3>1. \A it \in sweep' : it \in sweep /\ it.device \in Device
            BY <2>2 DEF TypeOK
        <3> QED
            BY <2>5, <2>7, <3>1 DEF SweepInv
    <2>10. ASSUME NEW e \in Device, Settled(e)', cred'[e].kek = 1
           PROVE  \E it \in sweep' : it.device = e /\ it.old.row = cred'[e].row
        <3>1. cred'[e] = cred[e] /\ ~(e = d /\ cred[d].row = item.old.row)
            BY <2>2, <2>3, <2>10
        <3>2. PICK it \in sweep : it.device = e /\ it.old.row = cred[e].row
            BY <2>5, <2>10, <3>1 DEF SweepInv
        <3>3. it # item
            BY <3>1, <3>2
        <3> QED
            BY <2>2, <3>1, <3>2, <3>3
    <2>11. kek' \in {"swept", "dropped"} => \A e \in Device : Settled(e)' => cred'[e].kek = 2
        <3>1. ASSUME NEW e \in Device, Settled(e)', sweep' = {} PROVE cred'[e].kek = 2
            <4>1. cred'[e].kek # 1
                BY <2>10, <3>1
            <4>2. cred'[e] # NoCred
                BY <3>1 DEF Settled
            <4> QED
                BY <2>6, <4>1, <4>2
        <3> QED
            BY <2>2, <3>1
    <2>12. sweep' # {} => kek' = "window"
        BY <2>2
    <2> QED
        BY <2>6, <2>8, <2>9, <2>10, <2>11, <2>12 DEF SweepInv
<1>6. CASE SweepDies
    BY <1>6 DEF SweepDies, SweepInv, Settled
<1>7. CASE DropPrevious
    BY <1>7 DEF DropPrevious, SweepInv, Settled
<1>8. CASE UNCHANGED <<cred, sweep, kek>>
    BY <1>8, SweepFrame
<1>9. \A i \in Issuer : IssueDies(i) => UNCHANGED <<cred, sweep, kek>>
    BY DEF IssueDies, keys
<1>10. \A i \in Issuer, d \in Device : BeginIssue(i, d) => UNCHANGED <<cred, sweep, kek>>
    BY DEF BeginIssue, keys
<1>11. \A r \in Request : Serving(r) => UNCHANGED <<cred, sweep, kek>>
    BY DEF Serving, Compare, markSynced, issueDesktopAccessToken, Finish, keys
<1>12. \A r \in Request, d \in Device : BeginWithAccess(r, d) => UNCHANGED <<cred, sweep, kek>>
    BY DEF BeginWithAccess, keys
<1>13. \A r \in Request, d \in Device, s \in 1..Len(secrets) :
           BeginWithSecret(r, d, s) => UNCHANGED <<cred, sweep, kek>>
    BY DEF BeginWithSecret, keys
<1>14. \A d \in Device : AccessExpires(d) => UNCHANGED <<cred, sweep, kek>>
    BY DEF AccessExpires, keys
<1>15. \A d \in Device, status \in {"active", "paused"} :
           updateConnection(d, status) => UNCHANGED <<cred, sweep, kek>>
    BY DEF updateConnection, keys
<1>16. UNCHANGED vars => UNCHANGED <<cred, sweep, kek>>
    BY DEF vars, keys
<1> QED
    BY <1>1, <1>2, <1>3, <1>4, <1>5, <1>6, <1>7, <1>8, <1>9, <1>10, <1>11, <1>12, <1>13,
       <1>14, <1>15, <1>16 DEF Next, Issuing, Rotation

(***************************************************************************)
(* A rotation that says it is complete leaves every row readable.          *)
(***************************************************************************)
THEOREM RotationsAreClean == Spec => []CleanSweep
<1>1. Init => SecretInv /\ DestroyedStaysDestroyed /\ SweepInv
    BY DEF Init, SecretInv, DestroyedStaysDestroyed, SweepInv, Settled, Idle
<1>2. SweepInv => CleanSweep
    BY DEF SweepInv, CleanSweep, Settled, Decrypts, Keks
<1> QED
    BY <1>1, <1>2, TypeInit, TypeStep, SecretStep, SweepStep, PTL DEF Spec
=============================================================================

---------------------------- MODULE DeviceAccess ----------------------------
(***************************************************************************)
(* The device connections of an organisation and what opens them: the      *)
(* stored device token, the short-lived access tokens minted from it, the  *)
(* revocation that pauses a device and destroys its token, the settings    *)
(* that pause, resume, re-issue and delete, and the sweep that moves the   *)
(* stored tokens from one key-encryption key to the next.  A request reads *)
(* the connection and then the credential, and acts on what it read.       *)
(***************************************************************************)
EXTENDS Integers, Sequences

CONSTANTS Device,
          Request,    \* requests of agents running at a time
          Issuer,     \* exchanges and re-issues running at a time
          MaxSecrets  \* bound: device tokens minted

ASSUME AccessAssumption == MaxSecrets \in Nat

VARIABLES
    conn,       \* connections.status
    synced,     \* the devices with a last_success_at
    cred,       \* the device_token row of connection_credentials
    secrets,    \* the devices that device tokens were minted for so far
    access,     \* the devices with a signed access token that is not expired
    revoking,   \* revocations between their two statements
    revoked,    \* history: revoked, and not resumed since
    frame,      \* one frame per request
    issue,      \* one frame per issue
    kek,        \* how far the key rotation is
    sweep       \* the rows the running sweep has read and not yet written

tokens  == <<secrets, access>>
revokes == <<revoking, revoked>>
keys    == <<kek, sweep>>
vars == <<conn, synced, cred, tokens, revokes, frame, issue, keys>>

Idle   == [pc |-> "idle"]
Status == {"none", "pending", "active", "paused", "deleted"}
NoCred == [row |-> 0, secret |-> 0, dek |-> 0, kek |-> 0, raced |-> FALSE]
Exists == {d \in Device : conn[d] \notin {"none", "deleted"}}
Creds  == [row : Nat, secret : Nat, dek : Nat, kek : {0, 1, 2}, raced : BOOLEAN]
Frames == [pc : {"compare", "serve"}, device : Device, secret : Nat, status : Status,
           late : BOOLEAN, stale : BOOLEAN]
Issues == [pc : {"store"}, device : Device, secret : Nat, kek : {1, 2}]

TypeOK ==
    /\ conn \in [Device -> Status]
    /\ synced \subseteq Device
    /\ cred \in [Device -> Creds]
    /\ secrets \in Seq(Device)
    /\ access \subseteq Device
    /\ revoking \subseteq Device /\ revoked \subseteq Device
    /\ frame \in [Request -> {Idle} \cup Frames]
    /\ issue \in [Issuer -> {Idle} \cup Issues]
    /\ kek \in {"before", "window", "swept", "dropped"}
    /\ sweep \subseteq [device : Device, old : Creds]

Init ==
    /\ conn = [d \in Device |-> "none"]
    /\ synced = {}
    /\ cred = [d \in Device |-> NoCred]
    /\ secrets = <<>> /\ access = {}
    /\ revoking = {} /\ revoked = {}
    /\ frame = [r \in Request |-> Idle]
    /\ issue = [i \in Issuer |-> Idle]
    /\ kek = "before" /\ sweep = {}
-----------------------------------------------------------------------------
(* The envelope: a secret under its data key, the data key under a KEK.    *)

\* Mistaken: every deploy counts as a new version.
deployedKek == CASE kek = "before" -> 1 [] kek = "dropped" -> 3 [] OTHER -> 2

currentKek == IF kek = "before" THEN 1 ELSE 2

Keks == CASE kek = "before" -> {1} [] kek \in {"window", "swept"} -> {1, 2} [] OTHER -> {2}

\* The wrapped key is the one that opens this ciphertext.
Decrypts(c) == c # NoCred /\ c.kek \in Keks /\ c.dek = c.secret

\* An exchange creates its device; a re-issue finds one, in any status.
BeginIssue(i, d) ==
    /\ issue[i] = Idle
    /\ conn[d] # "deleted"
    /\ Len(secrets) < MaxSecrets
    /\ conn' = IF conn[d] = "none" THEN [conn EXCEPT ![d] = "pending"] ELSE conn
    /\ secrets' = Append(secrets, d)
    /\ issue' = [issue EXCEPT ![i] =
           [pc |-> "store", device |-> d, secret |-> Len(secrets) + 1, kek |-> currentKek]]
    /\ UNCHANGED <<synced, cred, access, revokes, frame, keys>>

\* The upsert keeps the row when there is one.
StoredCred(i) ==
    [row    |-> IF cred[issue[i].device] = NoCred THEN issue[i].secret
                ELSE cred[issue[i].device].row,
     secret |-> issue[i].secret,
     dek    |-> issue[i].secret,
     kek    |-> issue[i].kek,
     raced  |-> sweep # {} \/ issue[i].kek # currentKek]

storeCredential(i) ==
    /\ issue[i] # Idle
    /\ cred' = IF issue[i].device \in Exists
               THEN [cred EXCEPT ![issue[i].device] = StoredCred(i)] ELSE cred
    /\ issue' = [issue EXCEPT ![i] = Idle]
    /\ UNCHANGED <<conn, synced, tokens, revokes, frame, keys>>

IssueDies(i) ==
    /\ issue[i] # Idle
    /\ issue' = [issue EXCEPT ![i] = Idle]
    /\ UNCHANGED <<conn, synced, cred, tokens, revokes, frame, keys>>
-----------------------------------------------------------------------------
(* Requests: ingest, heartbeat and configuration behind either token, and  *)
(* refresh behind the device token.                                        *)

\* authenticateDeviceToken reads the connection.  The agent has an answered token.
BeginWithSecret(r, d, s) ==
    /\ frame[r] = Idle
    /\ d \in Exists /\ secrets[s] = d
    /\ \A i \in Issuer : issue[i] # Idle => issue[i].secret # s
    /\ frame' = [frame EXCEPT ![r] =
           [pc |-> "compare", device |-> d, secret |-> s, status |-> conn[d],
            late |-> d \in revoked, stale |-> cred[d].secret # s]]
    /\ UNCHANGED <<conn, synced, cred, tokens, revokes, issue, keys>>

Matches(r) == Decrypts(cred[frame[r].device]) /\ cred[frame[r].device].secret = frame[r].secret

\* withCredential reads it and compares; the pause is that of the first read.
Compare(r) ==
    /\ frame[r].pc = "compare"
    /\ frame' = [frame EXCEPT ![r] =
           IF Matches(r) /\ frame[r].status # "paused" THEN [@ EXCEPT !.pc = "serve"] ELSE Idle]
    /\ UNCHANGED <<conn, synced, cred, tokens, revokes, issue, keys>>

\* Mistaken: the signature and the expiry are enough.
AccessSigned(d) == d \in access /\ d \in Exists

\* verifyDesktopAccessToken and resolveAccessTokenConnection.
AccessOpens(d) == d \in access /\ d \in Exists /\ conn[d] # "paused"

BeginWithAccess(r, d) ==
    /\ frame[r] = Idle
    /\ AccessOpens(d)
    /\ frame' = [frame EXCEPT ![r] =
           [pc |-> "serve", device |-> d, secret |-> 0, status |-> conn[d],
            late |-> d \in revoked, stale |-> FALSE]]
    /\ UNCHANGED <<conn, synced, cred, tokens, revokes, issue, keys>>

Finish(r) == frame' = [frame EXCEPT ![r] = Idle]

\* Mistaken: whoever syncs is active.
SyncsAnything(d) == d \in Exists

\* A pause that came meanwhile sticks.
Syncs(d) == d \in Exists /\ conn[d] # "paused"

markSynced(r) ==
    LET d == frame[r].device
    IN  /\ frame[r].pc = "serve"
        /\ conn' = IF Syncs(d) THEN [conn EXCEPT ![d] = "active"] ELSE conn
        /\ synced' = IF Syncs(d) THEN synced \cup {d} ELSE synced
        /\ Finish(r)
        /\ UNCHANGED <<cred, tokens, revokes, issue, keys>>

\* Behind a device token only; signed without another look.
issueDesktopAccessToken(r) ==
    /\ frame[r].pc = "serve" /\ frame[r].secret # 0
    /\ access' = access \cup {frame[r].device}
    /\ Finish(r)
    /\ UNCHANGED <<conn, synced, cred, secrets, revokes, issue, keys>>

\* DESKTOP_ACCESS_TOKEN_TTL_SECONDS and the leeway are over.
AccessExpires(d) ==
    /\ d \in access
    /\ access' = access \ {d}
    /\ UNCHANGED <<conn, synced, cred, secrets, revokes, frame, issue, keys>>
-----------------------------------------------------------------------------
(* Revocation and settings.                                                *)

\* revokeDevice: first the pause, ...
RevokePauses(d) ==
    /\ d \in Exists
    /\ conn' = [conn EXCEPT ![d] = "paused"]
    /\ revoking' = revoking \cup {d}
    /\ UNCHANGED <<synced, cred, tokens, revoked, frame, issue, keys>>

\* ... then, in a statement of its own, the credential.
deleteCredential(d) ==
    /\ d \in revoking
    /\ cred' = [cred EXCEPT ![d] = NoCred]
    /\ revoking' = revoking \ {d}
    /\ revoked' = IF conn[d] \in {"paused", "deleted"} THEN revoked \cup {d} ELSE revoked
    /\ UNCHANGED <<conn, synced, tokens, frame, issue, keys>>

RevokeDies(d) ==
    /\ d \in revoking
    /\ revoking' = revoking \ {d}
    /\ UNCHANGED <<conn, synced, cred, tokens, revoked, frame, issue, keys>>

\* The settings pause a device, or resume it to what it has shown.
updateConnection(d, status) ==
    /\ d \in Exists
    /\ conn' = [conn EXCEPT ![d] = IF status = "active" /\ d \notin synced
                                   THEN "pending" ELSE status]
    /\ revoked' = IF status = "active" THEN revoked \ {d} ELSE revoked
    /\ UNCHANGED <<synced, cred, tokens, revoking, frame, issue, keys>>

deleteConnection(d) ==
    /\ d \in Exists
    /\ conn' = [conn EXCEPT ![d] = "deleted"]
    /\ cred' = [cred EXCEPT ![d] = NoCred]
    /\ UNCHANGED <<synced, tokens, revokes, frame, issue, keys>>
-----------------------------------------------------------------------------
(* Rotating the key-encryption key: deploy the new one beside the old, run *)
(* rotate-kek until it says it is complete, and deploy without the old.    *)

DeployKek ==
    /\ kek = "before"
    /\ kek' = "window"
    /\ UNCHANGED <<conn, synced, cred, tokens, revokes, frame, issue, sweep>>

\* Mistaken: only the devices in service are looked at.
NeedRewrapActive == {[device |-> d, old |-> cred[d]] : d \in
                        {e \in Device : cred[e].kek = 1 /\ conn[e] = "active"}}

\* The rows of another KEK than the current, read at once.
NeedRewrap == {[device |-> d, old |-> cred[d]] : d \in {e \in Device : cred[e].kek = 1}}

BeginSweep ==
    /\ kek = "window" /\ sweep = {}
    /\ IF NeedRewrap = {} THEN kek' = "swept" /\ UNCHANGED sweep
       ELSE sweep' = NeedRewrap /\ UNCHANGED kek
    /\ UNCHANGED <<conn, synced, cred, tokens, revokes, frame, issue>>

\* Mistaken: the row is put back as it was read.
RewrappedRow(d, old) == [old EXCEPT !.kek = 2]

\* The data key read, under the new KEK, into the row if it is still there.
Rewrapped(d, old) ==
    IF cred[d].row = old.row THEN [cred[d] EXCEPT !.dek = old.dek, !.kek = 2] ELSE cred[d]

\* Row by row; after the last the rotation is complete.
rewrapCredential(item) ==
    /\ item \in sweep
    /\ cred' = [cred EXCEPT ![item.device] = Rewrapped(item.device, item.old)]
    /\ sweep' = sweep \ {item}
    /\ kek' = IF sweep' = {} THEN "swept" ELSE kek
    /\ UNCHANGED <<conn, synced, tokens, revokes, frame, issue>>

\* The script dies; it is run again.
SweepDies ==
    /\ sweep # {}
    /\ sweep' = {}
    /\ UNCHANGED <<conn, synced, cred, tokens, revokes, frame, issue, kek>>

DropPrevious ==
    /\ kek = "swept"
    /\ kek' = "dropped"
    /\ UNCHANGED <<conn, synced, cred, tokens, revokes, frame, issue, sweep>>
-----------------------------------------------------------------------------
Issuing(i) == storeCredential(i) \/ IssueDies(i)

Serving(r) == Compare(r) \/ markSynced(r) \/ issueDesktopAccessToken(r)

revokeDevice(d) == RevokePauses(d) \/ deleteCredential(d) \/ RevokeDies(d)

Rotation ==
    \/ DeployKek \/ BeginSweep \/ SweepDies \/ DropPrevious
    \/ \E item \in sweep : rewrapCredential(item)

Next ==
    \/ \E i \in Issuer, d \in Device : BeginIssue(i, d)
    \/ \E i \in Issuer : Issuing(i)
    \/ \E r \in Request, d \in Device, s \in 1..Len(secrets) : BeginWithSecret(r, d, s)
    \/ \E r \in Request, d \in Device : BeginWithAccess(r, d)
    \/ \E r \in Request : Serving(r)
    \/ \E d \in Device : revokeDevice(d) \/ deleteConnection(d)
    \/ \E d \in Device, status \in {"active", "paused"} : updateConnection(d, status)
    \/ \E d \in Device : AccessExpires(d)
    \/ Rotation

Spec == Init /\ [][Next]_vars
-----------------------------------------------------------------------------
(* Properties.                                                             *)

(***************************************************************************)
(* No request that arrives after a completed revocation is served, with    *)
(* either token and whatever requests and issues were in flight, until     *)
(* somebody resumes the device (desktop-devices.ts, revokeDevice;          *)
(* device-token.ts, "honored immediately").                                *)
(***************************************************************************)
RevokedStaysOut == \A r \in Request : frame[r].pc = "serve" => ~frame[r].late

(***************************************************************************)
(* A device token that was replaced or destroyed never authenticates a     *)
(* request that arrives afterwards, also not when a key rotation read the  *)
(* row before and writes it after (connections.ts, deleteCredential, "can  *)
(* never re-authenticate").                                                *)
(***************************************************************************)
DestroyedStaysDestroyed == \A r \in Request : frame[r].pc = "serve" => ~frame[r].stale

(***************************************************************************)
(* Once the rotation is complete and the old key is gone, every credential *)
(* that was not stored across the deploy or during the sweep is readable,  *)
(* however often the sweep died and was run again (rotate-kek.ts, "Safe to *)
(* remove CREDENTIAL_KEK_PREVIOUS").                                       *)
(***************************************************************************)
CleanSweep ==
    kek = "dropped" => \A d \in Device : cred[d] # NoCred /\ ~cred[d].raced => Decrypts(cred[d])
=============================================================================

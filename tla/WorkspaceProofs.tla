-------------------------- MODULE WorkspaceProofs --------------------------
(***************************************************************************)
(* An admin for every team, no residue, the cap, and roles that stay, for  *)
(* any accounts, teams, tables and requests.                               *)
(***************************************************************************)
EXTENDS Workspace, FiniteSetTheorems, TLAPS

(***************************************************************************)
(* Memberships refer to workspaces and accounts that are there, and a      *)
(* leave under way to a workspace that was: a team never goes.             *)
(***************************************************************************)
KeysInv ==
    /\ \A o \in Org, u \in User : role[o][u] # "none" => o \in orgs /\ u \in accounts
    /\ \A p \in Process : frame[p].pc \in {"lock", "purge"} /\ frame[p].org \in Team =>
           frame[p].org \in orgs
    /\ \A p \in Process : At(p, "join") => invites[frame[p].invite] # Idle

(***************************************************************************)
(* LockInv: one removal of a team at a time is past its recount, and what  *)
(* it counted still holds: the team has an admin besides.                  *)
(***************************************************************************)
LockInv ==
    /\ \A p, q \in Process : At(p, "purge") /\ At(q, "purge") /\ frame[p].org = frame[q].org => p = q
    /\ \A p \in Process :
           At(p, "purge") /\ frame[p].org \in Team \ abandoned =>
               \E a \in Admins(frame[p].org) : a # frame[p].user

(***************************************************************************)
(* A deletion past its gates has nothing to spare, unless it is overtaken. *)
(***************************************************************************)
GateInv ==
    \A p \in Process :
        At(p, "teardown") /\ frame[p].org \notin overtaken =>
            Members(frame[p].org) \subseteq {frame[p].org} /\ frame[p].org \notin paying

TypeInv == TypeOK /\ KeysInv
AdminInv == TypeInv /\ LockInv /\ LeavesKeepAdmin
-----------------------------------------------------------------------------
Requested == Creation \cup Joining \cup Writing \cup Leaving \cup Deletion

(* Workspaces are personal or a team's, and there are finitely many.       *)
LEMMA Sets ==
    /\ User \cap Team = {} /\ NoUser \notin User
    /\ Cap \in Nat /\ MaxInvites \in Nat
    /\ IsFiniteSet(User) /\ IsFiniteSet(Team) /\ IsFiniteSet(Process)
    /\ Org = User \cup Team
BY WorkspaceAssumption DEF Org

(* The label of a frame says what the frame is.                            *)
LEMMA FrameKinds ==
    ASSUME TypeOK, NEW p \in Process
    PROVE  /\ frame[p] = Idle => frame[p].pc = "idle"
           /\ At(p, "create") => frame[p] \in Creation
           /\ At(p, "join") => frame[p] \in Joining
           /\ At(p, "write") => frame[p] \in Writing
           /\ frame[p].pc \in {"lock", "purge"} => frame[p] \in Leaving
           /\ frame[p].pc \in {"gate", "teardown", "forget"} => frame[p] \in Deletion
<1>1. \/ frame[p] = Idle \/ frame[p] \in Creation \/ frame[p] \in Joining
      \/ frame[p] \in Writing \/ frame[p] \in Leaving \/ frame[p] \in Deletion
    BY DEF TypeOK
<1>2. CASE frame[p] = Idle
    BY <1>2 DEF Idle, At
<1>3. CASE frame[p] \in Creation
    BY <1>3 DEF Creation, Idle, At
<1>4. CASE frame[p] \in Joining
    BY <1>4 DEF Joining, Idle, At
<1>5. CASE frame[p] \in Writing
    BY <1>5 DEF Writing, Idle, At
<1>6. CASE frame[p] \in Leaving
    BY <1>6 DEF Leaving, Idle, At
<1>7. CASE frame[p] \in Deletion
    BY <1>7 DEF Deletion, Idle, At
<1> QED
    BY <1>1, <1>2, <1>3, <1>4, <1>5, <1>6, <1>7

(* What beginning, going on and returning do to the frames.                *)
LEMMA BeginFrame ==
    ASSUME TypeOK, NEW p \in Process, NEW f \in Requested, Begin(p, f)
    PROVE  /\ frame' \in [Process -> {Idle} \cup Requested]
           /\ frame'[p] = f /\ frame[p] = Idle
           /\ \A q \in Process \ {p} : frame'[q] = frame[q]
BY DEF TypeOK, Begin, Requested

LEMMA ReturnFrame ==
    ASSUME TypeOK, NEW p \in Process, Return(p)
    PROVE  /\ frame' \in [Process -> {Idle} \cup Requested]
           /\ frame'[p] = Idle /\ frame'[p].pc = "idle"
           /\ \A q \in Process \ {p} : frame'[q] = frame[q]
BY DEF TypeOK, Return, Requested, Idle

LEMMA GotoFrame ==
    ASSUME TypeOK, NEW p \in Process, NEW label, Goto(p, label),
           \/ frame[p] \in Leaving /\ label \in {"lock", "purge"}
           \/ frame[p] \in Deletion /\ label \in {"gate", "teardown", "forget"}
    PROVE  /\ frame' \in [Process -> {Idle} \cup Requested]
           /\ frame'[p].pc = label /\ frame'[p].org = frame[p].org /\ frame'[p].user = frame[p].user
           /\ \A q \in Process \ {p} : frame'[q] = frame[q]
<1> DEFINE f == [frame[p] EXCEPT !.pc = label]
<1>1. f \in Requested /\ f.pc = label /\ f.org = frame[p].org /\ f.user = frame[p].user
    BY DEF Leaving, Deletion, Requested
<1>2. frame' = [frame EXCEPT ![p] = f]
    BY DEF Goto
<1>3. frame \in [Process -> {Idle} \cup Requested]
    BY DEF TypeOK, Requested
<1> HIDE DEF f
<1> QED
    BY <1>1, <1>2, <1>3

(* An invite that goes with what it refers to stays on record.             *)
LEMMA GoneInvites ==
    ASSUME TypeOK, NEW gone
    PROVE  /\ Gone(gone) \in [1..MaxInvites -> Invite \cup {Idle}]
           /\ \A i \in 1..MaxInvites : invites[i] # Idle => Gone(gone)[i] # Idle
<1> SUFFICES ASSUME NEW i \in 1..MaxInvites
             PROVE  /\ Gone(gone)[i] \in Invite \cup {Idle}
                    /\ invites[i] # Idle => Gone(gone)[i] # Idle
    BY DEF Gone
<1>1. invites[i] \in Invite \cup {Idle}
    BY DEF TypeOK
<1>2. CASE invites[i] # Idle /\ gone[i]
    <2>1. [invites[i] EXCEPT !.state = "gone"] \in Invite
        BY <1>1, <1>2 DEF Invite
    <2>2. \A v \in Invite : v # Idle
        BY DEF Invite, Idle
    <2> QED
        BY <1>2, <2>1, <2>2 DEF Gone
<1>3. CASE ~(invites[i] # Idle /\ gone[i])
    BY <1>1, <1>3 DEF Gone
<1> QED
    BY <1>2, <1>3

(* A state of an invite that is there.                                     *)
LEMMA InviteState ==
    ASSUME TypeOK, NEW i \in 1..MaxInvites, invites[i] # Idle,
           NEW st \in {"pending", "accepted", "revoked", "gone"}
    PROVE  /\ invites[i] \in Invite
           /\ [invites EXCEPT ![i].state = st] \in [1..MaxInvites -> Invite \cup {Idle}]
           /\ \A j \in 1..MaxInvites :
                  invites[j] # Idle => [invites EXCEPT ![i].state = st][j] # Idle
<1>1. invites[i] \in Invite /\ [invites[i] EXCEPT !.state = st] \in Invite
    BY DEF TypeOK, Invite
<1>2. \A v \in Invite : v # Idle
    BY DEF Invite, Idle
<1> QED
    BY <1>1, <1>2 DEF TypeOK
-----------------------------------------------------------------------------
LEMMA TypeInit == Init => TypeInv
<1> SUFFICES ASSUME Init PROVE TypeInv
    OBVIOUS
<1>1. TypeOK
    BY Sets DEF Init, TypeOK
<1>2. KeysInv
    BY Sets DEF Init, KeysInv, Idle, At
<1> QED
    BY <1>1, <1>2 DEF TypeInv

(* The type of a step that only starts a request.                          *)
LEMMA BeginType ==
    ASSUME TypeInv, NEW p \in Process, NEW f \in Requested, Begin(p, f),
           UNCHANGED <<accounts, orgs, creator, role, kept, invites, paying, history>>,
           f.pc \in {"lock", "purge"} /\ f.org \in Team => f.org \in orgs,
           f.pc = "join" => invites[f.invite] # Idle
    PROVE  TypeInv'
<1>1. /\ frame' \in [Process -> {Idle} \cup Requested]
      /\ frame'[p] = f /\ \A q \in Process \ {p} : frame'[q] = frame[q]
    BY BeginFrame DEF TypeInv
<1>2. TypeOK'
    BY <1>1 DEF TypeInv, TypeOK, Requested, history
<1>3. KeysInv'
    BY <1>1 DEF TypeInv, KeysInv, At, history
<1> QED
    BY <1>2, <1>3 DEF TypeInv

(* The type of a step that ends one.                                       *)
LEMMA ReturnKeys ==
    ASSUME TypeInv, NEW p \in Process, Return(p), orgs' = orgs \/ \A t \in Team : t \in orgs => t \in orgs',
           \A i \in 1..MaxInvites : invites[i] # Idle => invites'[i] # Idle
    PROVE  /\ frame' \in [Process -> {Idle} \cup Requested]
           /\ \A q \in Process : frame'[q].pc \in {"lock", "purge"} /\ frame'[q].org \in Team =>
                  frame'[q].org \in orgs'
           /\ \A q \in Process : frame'[q].pc = "join" => invites'[frame'[q].invite] # Idle
<1>1. /\ frame' \in [Process -> {Idle} \cup Requested]
      /\ frame'[p].pc = "idle" /\ \A q \in Process \ {p} : frame'[q] = frame[q]
    BY ReturnFrame DEF TypeInv
<1>2. ASSUME NEW q \in Process, frame'[q].pc = "join" PROVE invites'[frame'[q].invite] # Idle
    <2>1. q # p /\ frame'[q] = frame[q] /\ At(q, "join")
        BY <1>1, <1>2 DEF At
    <2>2. frame[q].invite \in 1..MaxInvites
        BY <2>1, FrameKinds DEF TypeInv, Joining
    <2> QED
        BY <2>1, <2>2 DEF TypeInv, KeysInv
<1> QED
    BY <1>1, <1>2 DEF TypeInv, KeysInv, At

(* Every step keeps TypeInv.                                               *)
LEMMA TypeStep == TypeInv /\ [Next]_vars => TypeInv'
<1> SUFFICES ASSUME TypeInv, [Next]_vars PROVE TypeInv'
    OBVIOUS
<1> DEFINE Frames == {Idle} \cup Requested
           LeaveKeys == \A q \in Process : frame[q].pc \in {"lock", "purge"} /\ frame[q].org \in Team =>
                            frame[q].org \in orgs
           JoinKeys == \A q \in Process : frame[q].pc = "join" => invites[frame[q].invite] # Idle
           RoleKeys == \A o \in Org, u \in User : role[o][u] # "none" => o \in orgs /\ u \in accounts
<1>a. TypeOK /\ KeysInv
    BY DEF TypeInv
<1>b. ASSUME TypeOK', LeaveKeys', JoinKeys', RoleKeys' PROVE TypeInv'
    BY <1>b DEF TypeInv, KeysInv, At
<1>c. RoleKeys /\ LeaveKeys /\ JoinKeys
    BY <1>a DEF KeysInv, At
<1>1. ASSUME NEW p \in Process, Requests(p) PROVE TypeInv'
    <2>1. ASSUME NEW u \in User, CountWorkspaces(p, u) PROVE TypeInv'
        <3>1. [pc |-> "create", user |-> u] \in Requested
            BY DEF Requested, Creation
        <3> QED
            BY <2>1, <3>1, BeginType DEF CountWorkspaces
    <2>2. ASSUME NEW u \in User, BeginDelete(p, u) PROVE TypeInv'
        <3>1. \A label \in {"gate", "forget"} : [pc |-> label, org |-> u, user |-> u] \in Requested
            BY DEF Requested, Deletion
        <3>2. PICK label \in {"gate", "forget"} : Begin(p, [pc |-> label, org |-> u, user |-> u])
            BY <2>2 DEF BeginDelete
        <3> QED
            BY <2>2, <3>1, <3>2, BeginType DEF BeginDelete
    <2>3. ASSUME NEW o \in Org, NEW u \in User, BeginLeave(p, o, u) PROVE TypeInv'
        <3>1. [pc |-> "lock", org |-> o, user |-> u] \in Requested
            BY DEF Requested, Leaving
        <3>2. o \in orgs
            BY <1>c, <2>3 DEF BeginLeave
        <3> QED
            BY <2>3, <3>1, <3>2, BeginType DEF BeginLeave
    <2>4. ASSUME NEW o \in Org, NEW u \in User, NEW t \in Table, BeginWrite(p, o, u, t) PROVE TypeInv'
        <3>1. [pc |-> "write", org |-> o, user |-> u, table |-> t] \in Requested
            BY DEF Requested, Writing
        <3> QED
            BY <2>4, <3>1, BeginType DEF BeginWrite
    <2>5. ASSUME NEW u \in User, NEW i \in 1..MaxInvites, BeginAccept(p, u, i) PROVE TypeInv'
        <3>1. invites[i] \in Invite
            BY <1>a, <2>5 DEF BeginAccept, Pending, TypeOK
        <3>2. [pc |-> "join", org |-> invites[i].org, user |-> u, invite |-> i] \in Requested
            BY <3>1 DEF Requested, Joining, Invite
        <3>3. invites[i] # Idle
            BY <2>5 DEF BeginAccept, Pending
        <3> QED
            BY <2>5, <3>2, <3>3, BeginType DEF BeginAccept
    <2> QED
        BY <1>1, <2>1, <2>2, <2>3, <2>4, <2>5 DEF Requests
<1>2. ASSUME NEW p \in Process, NEW t \in Team, CreateWorkspace(p, t) PROVE TypeInv'
    <2> DEFINE u == frame[p].user
    <2>1. u \in User
        BY <1>a, <1>2, FrameKinds DEF CreateWorkspace, Creation
    <2>2. LeaveKeys' /\ JoinKeys' /\ frame' \in [Process -> Frames]
        BY <1>2, ReturnKeys DEF CreateWorkspace
    <2>3. TypeOK'
        BY <1>a, <1>2, <2>1, <2>2, Sets DEF CreateWorkspace, TypeOK, history, Requested
    <2>4. RoleKeys'
        BY <1>a, <1>c, <1>2, <2>1, Sets DEF CreateWorkspace, TypeOK
    <2> QED
        BY <1>b, <2>2, <2>3, <2>4
<1>3. ASSUME NEW p \in Process, acceptInvite(p) PROVE TypeInv'
    <2> DEFINE o == frame[p].org   u == frame[p].user   i == frame[p].invite
    <2>1. o \in Org /\ u \in User /\ i \in 1..MaxInvites
        BY <1>a, <1>3, FrameKinds DEF acceptInvite, Joining
    <2>2. invites[i] # Idle
        BY <1>c, <1>3 DEF acceptInvite, At
    <2>3. RoleOnJoin(o, u, invites[i].role) \in {"none", "member", "admin"}
        BY <1>a, <2>1, <2>2, InviteState DEF RoleOnJoin, TypeOK, Invite
    <2>4. /\ invites' \in [1..MaxInvites -> Invite \cup {Idle}]
          /\ \A j \in 1..MaxInvites : invites[j] # Idle => invites'[j] # Idle
        BY <1>a, <1>3, <2>1, <2>2, InviteState DEF acceptInvite, TypeOK
    <2>5. LeaveKeys' /\ JoinKeys' /\ frame' \in [Process -> Frames]
        BY <1>3, <2>4, ReturnKeys DEF acceptInvite
    <2>6. overtaken' \subseteq Org
        BY <1>a, <1>3, <2>1 DEF acceptInvite, Overtakes, TypeOK
    <2>7. role' \in [Org -> [User -> {"none", "member", "admin"}]]
        BY <1>a, <1>3, <2>1, <2>3 DEF acceptInvite, TypeOK
    <2>8. TypeOK'
        BY <1>a, <1>3, <2>4, <2>5, <2>6, <2>7 DEF acceptInvite, TypeOK, Requested
    <2>9. RoleKeys'
        BY <1>a, <1>c, <1>3, <2>1 DEF acceptInvite, TypeOK
    <2> QED
        BY <1>b, <2>5, <2>8, <2>9
<1>4. ASSUME NEW p \in Process, Write(p) PROVE TypeInv'
    <2>1. frame[p] \in Writing
        BY <1>a, <1>4, FrameKinds DEF Write
    <2>2. LeaveKeys' /\ JoinKeys' /\ frame' \in [Process -> Frames]
        BY <1>4, ReturnKeys DEF Write
    <2>3. kept' \subseteq Row /\ overtaken' \subseteq Org
        BY <1>a, <1>4, <2>1 DEF Write, TypeOK, Row, Writing
    <2>4. TypeOK'
        BY <1>a, <1>4, <2>2, <2>3 DEF Write, TypeOK, Requested
    <2> QED
        BY <1>b, <1>c, <1>4, <2>2, <2>4 DEF Write
<1>5. ASSUME NEW p \in Process, LockAndRecount(p) PROVE TypeInv'
    <2>1. frame[p] \in Leaving
        BY <1>a, <1>5, FrameKinds DEF LockAndRecount, At
    <2>2. LeaveKeys' /\ JoinKeys' /\ frame' \in [Process -> Frames]
        <3>1. CASE Return(p)
            BY <1>5, <3>1, ReturnKeys DEF LockAndRecount
        <3>2. CASE Goto(p, "purge")
            <4>1. /\ frame' \in [Process -> Frames]
                  /\ frame'[p].pc = "purge" /\ frame'[p].org = frame[p].org
                  /\ \A q \in Process \ {p} : frame'[q] = frame[q]
                BY <1>a, <2>1, <3>2, GotoFrame
            <4>2. frame[p].pc = "lock"
                BY <1>5 DEF LockAndRecount, At
            <4> QED
                BY <1>c, <1>5, <4>1, <4>2 DEF LockAndRecount, history
        <3> QED
            BY <1>5, <3>1, <3>2 DEF LockAndRecount
    <2>3. TypeOK'
        BY <1>a, <1>5, <2>2 DEF LockAndRecount, TypeOK, Requested, history
    <2> QED
        BY <1>b, <1>c, <1>5, <2>2, <2>3 DEF LockAndRecount, history
<1>6. ASSUME NEW p \in Process, purgeMembership(p) PROVE TypeInv'
    <2>1. frame[p] \in Leaving
        BY <1>a, <1>6, FrameKinds DEF purgeMembership, At
    <2>2. LeaveKeys' /\ JoinKeys' /\ frame' \in [Process -> Frames]
        BY <1>6, ReturnKeys DEF purgeMembership
    <2>3. role' \in [Org -> [User -> {"none", "member", "admin"}]] /\ kept' \subseteq Row
        BY <1>a, <1>6, <2>1 DEF purgeMembership, TypeOK, Leaving
    <2>4. TypeOK'
        BY <1>a, <1>6, <2>2, <2>3 DEF purgeMembership, TypeOK, Requested, history
    <2>5. RoleKeys'
        BY <1>a, <1>c, <1>6, <2>1 DEF purgeMembership, TypeOK, Leaving, history
    <2> QED
        BY <1>b, <2>2, <2>4, <2>5
<1>7. ASSUME NEW p \in Process, SubscriptionGate(p) PROVE TypeInv'
    <2>1. frame[p] \in Deletion
        BY <1>a, <1>7, FrameKinds DEF SubscriptionGate, At
    <2>2. overtaken' \subseteq Org
        BY <1>a, <1>7, <2>1, Sets DEF SubscriptionGate, TypeOK, Deletion
    <2>3. LeaveKeys' /\ JoinKeys' /\ frame' \in [Process -> Frames]
        <3>1. CASE Return(p)
            BY <1>7, <3>1, ReturnKeys DEF SubscriptionGate
        <3>2. CASE Goto(p, "teardown")
            <4>1. /\ frame' \in [Process -> Frames]
                  /\ frame'[p].pc = "teardown"
                  /\ \A q \in Process \ {p} : frame'[q] = frame[q]
                BY <1>a, <2>1, <3>2, GotoFrame
            <4> QED
                BY <1>c, <1>7, <4>1 DEF SubscriptionGate
        <3> QED
            BY <1>7, <3>1, <3>2 DEF SubscriptionGate
    <2>4. TypeOK'
        BY <1>a, <1>7, <2>2, <2>3 DEF SubscriptionGate, TypeOK, Requested
    <2> QED
        BY <1>b, <1>c, <1>7, <2>3, <2>4 DEF SubscriptionGate
<1>8. ASSUME NEW p \in Process, PurgeOrg(p) PROVE TypeInv'
    <2> DEFINE o == frame[p].org
    <2>1. frame[p] \in Deletion /\ o \in User /\ o \notin Team /\ o \in Org
        BY <1>a, <1>8, FrameKinds, Sets DEF PurgeOrg, At, Deletion
    <2>2. /\ frame' \in [Process -> Frames]
          /\ frame'[p].pc = "forget"
          /\ \A q \in Process \ {p} : frame'[q] = frame[q]
        BY <1>a, <1>8, <2>1, GotoFrame DEF PurgeOrg
    <2>3. /\ invites' \in [1..MaxInvites -> Invite \cup {Idle}]
          /\ \A j \in 1..MaxInvites : invites[j] # Idle => invites'[j] # Idle
        BY <1>a, <1>8, GoneInvites DEF PurgeOrg
    <2>4. LeaveKeys'
        BY <1>c, <1>8, <2>1, <2>2 DEF PurgeOrg
    <2>5. JoinKeys'
        <3> SUFFICES ASSUME NEW q \in Process, frame'[q].pc = "join"
                     PROVE  invites'[frame'[q].invite] # Idle
            OBVIOUS
        <3>1. frame'[q] = frame[q] /\ At(q, "join")
            BY <2>2 DEF At
        <3>2. frame[q].invite \in 1..MaxInvites
            BY <1>a, <3>1, FrameKinds DEF Joining
        <3> QED
            BY <1>c, <2>3, <3>1, <3>2 DEF At
    <2>6. role' \in [Org -> [User -> {"none", "member", "admin"}]]
        BY <1>a, <1>8, <2>1 DEF PurgeOrg, TypeOK
    <2>7. TypeOK'
        BY <1>a, <1>8, <2>2, <2>3, <2>6 DEF PurgeOrg, TypeOK, Requested, history
    <2>8. RoleKeys'
        BY <1>a, <1>c, <1>8, <2>1 DEF PurgeOrg, TypeOK
    <2> QED
        BY <1>b, <2>4, <2>5, <2>7, <2>8
<1>9. ASSUME NEW p \in Process, DeleteUser(p) PROVE TypeInv'
    <2> DEFINE u == frame[p].user
    <2>1. u \in User
        BY <1>a, <1>9, FrameKinds DEF DeleteUser, At, Deletion
    <2>2. /\ invites' \in [1..MaxInvites -> Invite \cup {Idle}]
          /\ \A j \in 1..MaxInvites : invites[j] # Idle => invites'[j] # Idle
        BY <1>a, <1>9, GoneInvites DEF DeleteUser
    <2>3. LeaveKeys' /\ JoinKeys' /\ frame' \in [Process -> Frames]
        BY <1>9, <2>2, ReturnKeys DEF DeleteUser
    <2>4. /\ role' \in [Org -> [User -> {"none", "member", "admin"}]]
          /\ creator' \in [Team -> User \cup {NoUser}]
        BY <1>a, <1>9, <2>1 DEF DeleteUser, TypeOK
    <2>5. TypeOK'
        BY <1>a, <1>9, <2>2, <2>3, <2>4, Sets DEF DeleteUser, TypeOK, Requested
    <2>6. RoleKeys'
        BY <1>a, <1>c, <1>9, <2>1 DEF DeleteUser, TypeOK
    <2> QED
        BY <1>b, <2>3, <2>5, <2>6
<1>10. ASSUME NEW p \in Process, Die(p) PROVE TypeInv'
    <2>1. LeaveKeys' /\ JoinKeys' /\ frame' \in [Process -> Frames]
        BY <1>10, ReturnKeys DEF Die
    <2>2. TypeOK'
        BY <1>a, <1>10, <2>1 DEF Die, TypeOK, Requested, history
    <2> QED
        BY <1>b, <1>c, <1>10, <2>1, <2>2 DEF Die
<1>11. ASSUME NEW u \in User, ensureOrgOfOne(u) PROVE TypeInv'
    <2>1. u \in Org
        BY Sets
    <2>2. TypeOK'
        BY <1>a, <1>11, <2>1 DEF ensureOrgOfOne, BootstrapRole, TypeOK, history
    <2>3. RoleKeys'
        BY <1>a, <1>c, <1>11, <2>1 DEF ensureOrgOfOne, TypeOK
    <2> QED
        BY <1>b, <1>c, <1>11, <2>2, <2>3 DEF ensureOrgOfOne
<1>12. ASSUME NEW u \in User, Subscribe(u) \/ Cancel(u) PROVE TypeInv'
    <2>1. overtaken' \subseteq Org /\ paying' \subseteq User
        BY <1>a, <1>12, Sets DEF Subscribe, Cancel, Overtakes, TypeOK, history
    <2>2. TypeOK'
        BY <1>a, <1>12, <2>1 DEF Subscribe, Cancel, TypeOK, history
    <2> QED
        BY <1>b, <1>c, <1>12, <2>2 DEF Subscribe, Cancel
<1>13. ASSUME NEW i \in 1..MaxInvites, NEW o \in Org, NEW by \in User, NEW as \in {"member", "admin"},
              invite(i, o, by, as)
       PROVE  TypeInv'
    <2>1. [org |-> o, role |-> as, by |-> by, state |-> "pending"] \in Invite
        BY DEF Invite
    <2>2. \A v \in Invite : v # Idle
        BY DEF Invite, Idle
    <2>3. /\ invites' \in [1..MaxInvites -> Invite \cup {Idle}]
          /\ \A j \in 1..MaxInvites : invites[j] # Idle => invites'[j] # Idle
        BY <1>a, <1>13, <2>1, <2>2 DEF invite, TypeOK
    <2>4. TypeOK'
        BY <1>a, <1>13, <2>3 DEF invite, TypeOK, history
    <2>5. JoinKeys'
        BY <1>a, <1>c, <1>13, <2>3, FrameKinds DEF invite, At, Joining
    <2> QED
        BY <1>b, <1>c, <1>13, <2>4, <2>5 DEF invite
<1>14. ASSUME NEW i \in 1..MaxInvites, revoke(i) PROVE TypeInv'
    <2>1. /\ invites' \in [1..MaxInvites -> Invite \cup {Idle}]
          /\ \A j \in 1..MaxInvites : invites[j] # Idle => invites'[j] # Idle
        BY <1>a, <1>14, InviteState DEF revoke, Pending
    <2>2. TypeOK'
        BY <1>a, <1>14, <2>1 DEF revoke, TypeOK, history
    <2>3. JoinKeys'
        BY <1>a, <1>c, <1>14, <2>1, FrameKinds DEF revoke, At, Joining
    <2> QED
        BY <1>b, <1>c, <1>14, <2>2, <2>3 DEF revoke
<1>15. CASE UNCHANGED vars
    BY <1>15 DEF vars, history, TypeInv, TypeOK, KeysInv, At
<1> QED
    BY <1>1, <1>2, <1>3, <1>4, <1>5, <1>6, <1>7, <1>8, <1>9, <1>10, <1>11, <1>12, <1>13, <1>14, <1>15
    DEF Next, Steps

(***************************************************************************)
(* Every variable keeps its type.                                          *)
(***************************************************************************)
THEOREM TypeCorrect == Spec => []TypeOK
<1>1. TypeInv => TypeOK
    BY DEF TypeInv
<1> QED
    BY <1>1, TypeInit, TypeStep, PTL DEF Spec
-----------------------------------------------------------------------------
(* How a frame comes by the labels that stand for a passed check.          *)
LEMMA FramesMove ==
    ASSUME TypeInv, [Next]_vars, NEW q \in Process
    PROVE  /\ frame'[q].pc = "purge" => frame'[q] = frame[q] \/ LockAndRecount(q)
           /\ frame'[q].pc = "create" =>
                  frame'[q] = frame[q] \/ \E u \in User : CountWorkspaces(q, u)
           /\ frame'[q].pc = "teardown" => frame'[q] = frame[q] \/ SubscriptionGate(q)
<1>a. TypeOK
    BY DEF TypeInv
<1>1. ASSUME NEW p \in Process, Return(p) PROVE frame'[q] = frame[q] \/ frame'[q].pc = "idle"
    BY <1>a, <1>1, ReturnFrame
<1>2. ASSUME NEW p \in Process, Requests(p)
      PROVE  \/ frame'[q] = frame[q]
             \/ p = q /\ \E u \in User : CountWorkspaces(p, u)
             \/ frame'[q].pc \in {"gate", "forget", "lock", "write", "join"}
    BY <1>a, <1>2 DEF Requests, CountWorkspaces, BeginDelete, BeginLeave, BeginWrite, BeginAccept, Begin,
                      TypeOK
<1>3. ASSUME NEW p \in Process, LockAndRecount(p)
      PROVE  frame'[q] = frame[q] \/ frame'[q].pc = "idle" \/ (p = q /\ frame'[q].pc = "purge")
    <2>1. frame[p] \in Leaving
        BY <1>a, <1>3, FrameKinds DEF LockAndRecount, At
    <2>2. CASE Goto(p, "purge")
        BY <1>a, <2>1, <2>2, GotoFrame
    <2> QED
        BY <1>1, <1>3, <2>2 DEF LockAndRecount
<1>4. ASSUME NEW p \in Process, SubscriptionGate(p)
      PROVE  frame'[q] = frame[q] \/ frame'[q].pc = "idle" \/ (p = q /\ frame'[q].pc = "teardown")
    <2>1. frame[p] \in Deletion
        BY <1>a, <1>4, FrameKinds DEF SubscriptionGate, At
    <2>2. CASE Goto(p, "teardown")
        BY <1>a, <2>1, <2>2, GotoFrame
    <2> QED
        BY <1>1, <1>4, <2>2 DEF SubscriptionGate
<1>5. ASSUME NEW p \in Process, PurgeOrg(p) PROVE frame'[q] = frame[q] \/ frame'[q].pc = "forget"
    <2>1. frame[p] \in Deletion
        BY <1>a, <1>5, FrameKinds DEF PurgeOrg, At
    <2> QED
        BY <1>a, <1>5, <2>1, GotoFrame DEF PurgeOrg
<1>6. ASSUME NEW p \in Process, Steps(p)
      PROVE  \/ frame'[q] = frame[q]
             \/ frame'[q].pc \in {"idle", "forget"}
             \/ p = q /\ LockAndRecount(p) /\ frame'[q].pc = "purge"
             \/ p = q /\ SubscriptionGate(p) /\ frame'[q].pc = "teardown"
    <2>1. \/ Return(p) \/ LockAndRecount(p) \/ SubscriptionGate(p) \/ PurgeOrg(p)
        BY <1>6 DEF Steps, CreateWorkspace, acceptInvite, Write, purgeMembership, DeleteUser, Die
    <2> QED
        BY <1>1, <1>3, <1>4, <1>5, <2>1
<1>7. ASSUME ~\E p \in Process : Requests(p) \/ Steps(p) PROVE frame' = frame
    BY <1>7 DEF Next, vars, ensureOrgOfOne, Subscribe, Cancel, invite, revoke
<1>8. CASE \E p \in Process : Requests(p)
    <2>1. \/ frame'[q] = frame[q]
          \/ \E u \in User : CountWorkspaces(q, u)
          \/ frame'[q].pc \in {"gate", "forget", "lock", "write", "join"}
        BY <1>2, <1>8
    <2>2. ASSUME NEW u \in User, CountWorkspaces(q, u) PROVE frame'[q].pc = "create"
        BY <1>a, <2>2 DEF CountWorkspaces, Begin, TypeOK
    <2> QED
        BY <2>1, <2>2
<1>9. CASE \E p \in Process : Steps(p)
    <2>1. \/ frame'[q] = frame[q]
          \/ frame'[q].pc \in {"idle", "forget"}
          \/ (LockAndRecount(q) /\ frame'[q].pc = "purge")
          \/ (SubscriptionGate(q) /\ frame'[q].pc = "teardown")
        BY <1>6, <1>9
    <2> QED
        BY <2>1
<1> QED
    BY <1>7, <1>8, <1>9

(* How the roles in a workspace change.                                    *)
LEMMA RolesMove ==
    ASSUME TypeInv, [Next]_vars, NEW o \in Org, NEW u \in User
    PROVE  \/ role'[o][u] = role[o][u]
           \/ role[o][u] = "none" /\ (\E p \in Process : acceptInvite(p) /\ frame[p].org = o)
           \/ role[o][u] = "none" /\ (\E p \in Process, t \in Team : CreateWorkspace(p, t)) /\ o \in Team
           \/ role[o][u] = "none" /\ ensureOrgOfOne(u) /\ o = u
           \/ role'[o][u] = "none" /\ \E p \in Process : purgeMembership(p) /\ frame[p].org = o
                                                                       /\ frame[p].user = u
           \/ role'[o][u] = "none" /\ \E p \in Process : PurgeOrg(p) /\ frame[p].org = o
           \/ role'[o][u] = "none" /\ \E p \in Process : DeleteUser(p) /\ frame[p].user = u
<1>a. TypeOK /\ KeysInv
    BY DEF TypeInv
<1>1. ASSUME NEW p \in Process, acceptInvite(p)
      PROVE  role'[o][u] = role[o][u] \/ (role[o][u] = "none" /\ frame[p].org = o)
    <2>1. frame[p].org \in Org /\ frame[p].user \in User
        BY <1>a, <1>1, FrameKinds DEF acceptInvite, Joining
    <2> QED
        BY <1>a, <1>1, <2>1 DEF acceptInvite, RoleOnJoin, TypeOK
<1>2. ASSUME NEW p \in Process, NEW t \in Team, CreateWorkspace(p, t)
      PROVE  role'[o][u] = role[o][u] \/ (role[o][u] = "none" /\ o \in Team)
    <2>1. frame[p].user \in User /\ t \in Org
        BY <1>a, <1>2, FrameKinds, Sets DEF CreateWorkspace, Creation
    <2>2. \A v \in User : role[t][v] = "none"
        BY <1>a, <1>2, <2>1 DEF CreateWorkspace, KeysInv
    <2> QED
        BY <1>a, <1>2, <2>1, <2>2 DEF CreateWorkspace, TypeOK
<1>3. ASSUME NEW v \in User, ensureOrgOfOne(v)
      PROVE  role'[o][u] = role[o][u] \/ (role[o][u] = "none" /\ o = u /\ v = u)
    BY <1>a, <1>3, Sets DEF ensureOrgOfOne, TypeOK
<1>4. ASSUME NEW p \in Process, purgeMembership(p)
      PROVE  role'[o][u] = role[o][u] \/ (role'[o][u] = "none" /\ frame[p].org = o /\ frame[p].user = u)
    <2>1. frame[p].org \in Org /\ frame[p].user \in User
        BY <1>a, <1>4, FrameKinds DEF purgeMembership, At, Leaving
    <2> QED
        BY <1>a, <1>4, <2>1 DEF purgeMembership, TypeOK
<1>5. ASSUME NEW p \in Process, PurgeOrg(p)
      PROVE  role'[o][u] = role[o][u] \/ (role'[o][u] = "none" /\ frame[p].org = o)
    BY <1>a, <1>5 DEF PurgeOrg, TypeOK
<1>6. ASSUME NEW p \in Process, DeleteUser(p)
      PROVE  role'[o][u] = role[o][u] \/ (role'[o][u] = "none" /\ frame[p].user = u)
    BY <1>a, <1>6 DEF DeleteUser, TypeOK
<1>7. CASE role' = role
    BY <1>7
<1>8. \/ role' = role
      \/ \E p \in Process : \/ acceptInvite(p) \/ purgeMembership(p) \/ PurgeOrg(p) \/ DeleteUser(p)
                            \/ \E t \in Team : CreateWorkspace(p, t)
      \/ \E v \in User : ensureOrgOfOne(v)
    BY DEF Next, Requests, Steps, vars, CountWorkspaces, BeginDelete, BeginLeave, BeginWrite, BeginAccept,
           Write, LockAndRecount, SubscriptionGate, Die, Subscribe, Cancel, invite, revoke
<1> QED
    BY <1>1, <1>2, <1>3, <1>4, <1>5, <1>6, <1>7, <1>8

(***************************************************************************)
(* A role changes by leaving only.                                         *)
(***************************************************************************)
THEOREM RolesChangeByLeaving == Spec => RolesStay
<1>1. TypeInv /\ [Next]_vars =>
          [\A o \in Org, u \in User :
               role[o][u] # "none" /\ role'[o][u] # "none" => role'[o][u] = role[o][u]]_vars
    BY RolesMove
<1> QED
    BY <1>1, TypeInit, TypeStep, PTL DEF Spec, RolesStay
-----------------------------------------------------------------------------
(* Who is not the last admin leaves one behind.                            *)
LEMMA OtherAdmin ==
    ASSUME NEW o \in Org, NEW u \in User, ~LastAdmin(o, u), Admins(o) # {}
    PROVE  \E a \in Admins(o) : a # u
<1>1. SUFFICES ASSUME \A a \in Admins(o) : a = u PROVE FALSE
    OBVIOUS
<1>2. Admins(o) = {u} /\ role[o][u] = "admin"
    BY <1>1 DEF Admins
<1>3. Cardinality(Admins(o)) = 1
    BY <1>2, FS_Singleton
<1> QED
    BY <1>2, <1>3 DEF LastAdmin

(* Teams come by CreateWorkspace and stay.                                 *)
LEMMA TeamsMove ==
    ASSUME TypeInv, [Next]_vars, NEW t \in Team
    PROVE  /\ t \in orgs => t \in orgs' /\ creator'[t] \in {creator[t], NoUser}
           /\ \/ t \in orgs' => t \in orgs
              \/ \E p \in Process : CreateWorkspace(p, t)
<1>a. TypeOK
    BY DEF TypeInv
<1>1. ASSUME NEW p \in Process, NEW s \in Team, CreateWorkspace(p, s)
      PROVE  /\ t \in orgs => t \in orgs' /\ creator'[t] = creator[t]
             /\ t \in orgs' => t \in orgs \/ s = t
    BY <1>a, <1>1 DEF CreateWorkspace, TypeOK
<1>2. ASSUME NEW p \in Process, PurgeOrg(p)
      PROVE  (t \in orgs <=> t \in orgs') /\ creator' = creator
    <2>1. frame[p].org \in User
        BY <1>a, <1>2, FrameKinds DEF PurgeOrg, At, Deletion
    <2> QED
        BY <1>2, <2>1, Sets DEF PurgeOrg
<1>3. ASSUME NEW p \in Process, DeleteUser(p)
      PROVE  orgs' = orgs /\ creator'[t] \in {creator[t], NoUser}
    BY <1>3 DEF DeleteUser
<1>4. ASSUME NEW u \in User, ensureOrgOfOne(u)
      PROVE  (t \in orgs <=> t \in orgs') /\ creator' = creator
    BY <1>4, Sets DEF ensureOrgOfOne
<1>5. \/ orgs' = orgs /\ creator' = creator
      \/ \E p \in Process : \/ PurgeOrg(p) \/ DeleteUser(p)
                            \/ \E s \in Team : CreateWorkspace(p, s)
      \/ \E u \in User : ensureOrgOfOne(u)
    BY DEF Next, Requests, Steps, vars, history, CountWorkspaces, BeginDelete, BeginLeave, BeginWrite,
           BeginAccept, acceptInvite, purgeMembership, Write, LockAndRecount, SubscriptionGate, Die,
           Subscribe, Cancel, invite, revoke
<1> QED
    BY <1>1, <1>2, <1>3, <1>4, <1>5

(* What is said of history is not taken back.                              *)
LEMMA HistoryGrows ==
    ASSUME TypeInv, [Next]_vars
    PROVE  /\ abandoned \subseteq abandoned' /\ overtaken \subseteq overtaken'
           /\ abandoned' = abandoned \/ \E p \in Process : DeleteUser(p)
BY DEF Next, Requests, Steps, vars, history, CountWorkspaces, BeginDelete, BeginLeave, BeginWrite,
       BeginAccept, CreateWorkspace, acceptInvite, purgeMembership, Write, LockAndRecount, SubscriptionGate,
       PurgeOrg, DeleteUser, Die, ensureOrgOfOne, Subscribe, Cancel, invite, revoke, Overtakes
-----------------------------------------------------------------------------
(* Every step keeps AdminInv.                                              *)
LEMMA AdminInit == Init => AdminInv
<1> SUFFICES ASSUME Init PROVE AdminInv
    OBVIOUS
<1>1. LockInv
    BY DEF Init, LockInv, At, Idle
<1>2. LeavesKeepAdmin
    BY Sets DEF Init, LeavesKeepAdmin, Teams
<1> QED
    BY <1>1, <1>2, TypeInit DEF AdminInv

(* A removal takes the lock after its recount.                             *)
LEMMA Locking ==
    ASSUME AdminInv, NEW p \in Process, LockAndRecount(p), frame'[p].pc = "purge"
    PROVE  /\ frame[p] \in Leaving /\ frame'[p].org = frame[p].org /\ frame'[p].user = frame[p].user
           /\ \A q \in Process : ~(At(q, "purge") /\ frame[q].org = frame[p].org)
           /\ ~LastAdmin(frame[p].org, frame[p].user)
           /\ \A q \in Process \ {p} : frame'[q] = frame[q]
<1>1. frame[p] \in Leaving
    BY FrameKinds DEF AdminInv, TypeInv, LockAndRecount, At
<1>2. ~Return(p)
    BY ReturnFrame DEF AdminInv, TypeInv
<1>3. ~LastAdmin(frame[p].org, frame[p].user) /\ Goto(p, "purge")
    BY <1>2 DEF LockAndRecount
<1> QED
    BY <1>1, <1>3, GotoFrame DEF AdminInv, TypeInv, LockAndRecount, MayLock, Locked

LEMMA AdminStep == AdminInv /\ [Next]_vars => AdminInv'
<1> SUFFICES ASSUME AdminInv, [Next]_vars PROVE AdminInv'
    OBVIOUS
<1>a. TypeInv /\ TypeOK /\ KeysInv /\ TypeInv'
    BY TypeStep DEF AdminInv, TypeInv
<1>1. ASSUME NEW p \in Process, NEW q \in Process, At(p, "purge")', At(q, "purge")',
             frame'[p].org = frame'[q].org
      PROVE  p = q
    <2>1. frame'[p] = frame[p] \/ LockAndRecount(p)
        BY <1>a, <1>1, FramesMove DEF At
    <2>2. frame'[q] = frame[q] \/ LockAndRecount(q)
        BY <1>a, <1>1, FramesMove DEF At
    <2>3. CASE frame'[p] = frame[p] /\ frame'[q] = frame[q]
        BY <1>1, <2>3 DEF AdminInv, LockInv, At
    <2>4. CASE LockAndRecount(p)
        BY <1>1, <2>2, <2>4, Locking DEF At
    <2>5. CASE LockAndRecount(q)
        BY <1>1, <2>1, <2>5, Locking DEF At
    <2> QED
        BY <2>1, <2>2, <2>3, <2>4, <2>5
<1>2. ASSUME NEW t \in Team, t \notin abandoned', NEW a \in Admins(t), a \notin Admins(t)'
      PROVE  \E p \in Process : purgeMembership(p) /\ frame[p].org = t /\ frame[p].user = a
    <2>1. role[t][a] = "admin" /\ role'[t][a] # "admin" /\ t \in Org /\ t \notin User /\ a \in User
        BY <1>2, Sets DEF Admins
    <2>2. ASSUME NEW p \in Process, PurgeOrg(p), frame[p].org = t PROVE FALSE
        <3>1. frame[p].org \in User
            BY <1>a, <2>2, FrameKinds DEF PurgeOrg, At, Deletion
        <3> QED
            BY <2>1, <2>2, <3>1
    <2>3. ASSUME NEW p \in Process, DeleteUser(p), frame[p].user = a PROVE FALSE
        <3>1. t \in {o \in Team : role[o][a] = "admin"}
            BY <2>1
        <3> QED
            BY <1>2, <2>3, <3>1 DEF DeleteUser
    <2> QED
        BY <1>a, <2>1, <2>2, <2>3, RolesMove
<1>3. ASSUME NEW p \in Process, purgeMembership(p), frame[p].org \in Team \ abandoned
      PROVE  /\ \E a \in Admins(frame[p].org) : a # frame[p].user
             /\ frame'[p].pc = "idle"
             /\ \A q \in Process \ {p} : ~(At(q, "purge")' /\ frame'[q].org = frame[p].org)
    <2>1. At(p, "purge")
        BY <1>3 DEF purgeMembership
    <2>2. /\ frame'[p].pc = "idle" /\ \A q \in Process \ {p} : frame'[q] = frame[q]
        BY <1>a, <1>3, ReturnFrame DEF purgeMembership
    <2> QED
        BY <1>3, <2>1, <2>2 DEF AdminInv, LockInv, At
<1>4. ASSUME NEW t \in Teams', t \notin abandoned' PROVE Admins(t)' # {}
    <2>1. t \in Team /\ t \in orgs' /\ t \notin abandoned
        BY <1>a, <1>4, HistoryGrows DEF Teams
    <2>2. CASE t \in orgs
        <3>1. Admins(t) # {}
            BY <2>1, <2>2 DEF AdminInv, LeavesKeepAdmin, Teams
        <3>2. PICK a \in Admins(t) : TRUE
            BY <3>1
        <3>3. CASE a \in Admins(t)'
            BY <3>3
        <3>4. CASE a \notin Admins(t)'
            <4>1. PICK p \in Process : purgeMembership(p) /\ frame[p].org = t /\ frame[p].user = a
                BY <1>2, <1>4, <2>1, <3>4
            <4>2. PICK b \in Admins(t) : b # a
                BY <1>3, <2>1, <4>1
            <4>3. CASE b \in Admins(t)'
                BY <4>3
            <4>4. CASE b \notin Admins(t)'
                <5>1. PICK q \in Process : purgeMembership(q) /\ frame[q].org = t /\ frame[q].user = b
                    BY <1>2, <1>4, <2>1, <4>4
                <5>2. p = q
                    BY <4>1, <5>1 DEF AdminInv, LockInv, purgeMembership
                <5> QED
                    BY <4>1, <4>2, <5>1, <5>2
            <4> QED
                BY <4>3, <4>4
        <3> QED
            BY <3>3, <3>4
    <2>3. CASE t \notin orgs
        <3>1. PICK p \in Process : CreateWorkspace(p, t)
            BY <1>a, <2>1, <2>3, TeamsMove
        <3>2. frame[p].user \in User /\ t \in Org
            BY <1>a, <2>1, <3>1, FrameKinds, Sets DEF CreateWorkspace, Creation
        <3>3. role'[t][frame[p].user] = "admin"
            BY <1>a, <3>1, <3>2 DEF CreateWorkspace, TypeOK
        <3> QED
            BY <3>2, <3>3 DEF Admins
    <2> QED
        BY <2>2, <2>3
<1>5. ASSUME NEW p \in Process, NEW t \in Team, t \notin abandoned', At(p, "purge")', frame'[p].org = t
      PROVE  \E a \in Admins(t)' : a # frame'[p].user
    <2>1. frame'[p] \in Leaving /\ t \in Org /\ t \notin abandoned
        <3>1. frame'[p] \in Leaving
            BY <1>a, <1>5 DEF TypeInv, TypeOK, At, Idle, Creation, Joining, Writing, Leaving, Deletion
        <3> QED
            BY <1>5, <3>1, <1>a, HistoryGrows, Sets
    <2>2. CASE LockAndRecount(p)
        <3>1. /\ frame[p] \in Leaving /\ frame[p].org = t /\ frame[p].user = frame'[p].user
              /\ ~LastAdmin(t, frame[p].user)
            BY <1>5, <2>2, Locking DEF At
        <3>2. t \in orgs /\ frame[p].user \in User
            BY <1>a, <2>1, <2>2, <3>1 DEF LockAndRecount, KeysInv, At, Leaving
        <3>3. Admins(t) # {}
            BY <2>1, <3>2 DEF AdminInv, LeavesKeepAdmin, Teams
        <3>4. PICK a \in Admins(t) : a # frame[p].user
            BY <2>1, <3>1, <3>2, <3>3, OtherAdmin
        <3>5. Admins(t)' = Admins(t)
            BY <2>2 DEF LockAndRecount, Admins
        <3> QED
            BY <3>1, <3>4, <3>5
    <2>3. CASE frame'[p] = frame[p]
        <3>1. PICK a \in Admins(t) : a # frame[p].user
            BY <1>5, <2>1, <2>3 DEF AdminInv, LockInv, At
        <3>2. CASE a \in Admins(t)'
            BY <2>3, <3>1, <3>2
        <3>3. CASE a \notin Admins(t)'
            <4>1. PICK q \in Process : purgeMembership(q) /\ frame[q].org = t /\ frame[q].user = a
                BY <1>2, <1>5, <2>1, <3>1, <3>3
            <4>2. p = q
                BY <1>5, <2>3, <4>1 DEF AdminInv, LockInv, purgeMembership, At
            <4> QED
                BY <3>1, <4>1, <4>2
        <3> QED
            BY <3>2, <3>3
    <2> QED
        BY <1>5, <1>a, <2>2, <2>3, FramesMove DEF At
<1>6. LockInv'
    BY <1>1, <1>5 DEF LockInv, Admins
<1>7. LeavesKeepAdmin'
    BY <1>4 DEF LeavesKeepAdmin
<1> QED
    BY <1>a, <1>6, <1>7 DEF AdminInv

(***************************************************************************)
(* Leaving and removing keep every team an admin.                          *)
(***************************************************************************)
THEOREM TeamsKeepAnAdmin == Spec => []LeavesKeepAdmin
<1>1. AdminInv => LeavesKeepAdmin
    BY DEF AdminInv
<1> QED
    BY <1>1, AdminInit, AdminStep, PTL DEF Spec
-----------------------------------------------------------------------------
(* Every step keeps NoResidue: what takes a role away clears its rows.     *)
LEMMA ResidueStep == TypeInv /\ NoResidue /\ [Next]_vars => NoResidue'
<1> SUFFICES ASSUME TypeInv, NoResidue, [Next]_vars,
                    NEW r \in kept', r.org \notin overtaken'
             PROVE  role'[r.org][r.user] # "none"
    BY DEF NoResidue
<1>a. TypeOK /\ TypeOK'
    BY TypeStep DEF TypeInv
<1>b. r \in Row /\ r.org \in Org /\ r.user \in User /\ r.table \in Table
    BY <1>a DEF TypeOK, Row
<1>1. CASE r \in kept
    <2>1. role[r.org][r.user] # "none"
        BY <1>1, HistoryGrows DEF NoResidue
    <2>2. ASSUME NEW p \in Process, purgeMembership(p), frame[p].org = r.org, frame[p].user = r.user
          PROVE  FALSE
        BY <1>b, <1>1, <2>2 DEF purgeMembership, Cleared
    <2>3. ASSUME NEW p \in Process, PurgeOrg(p), frame[p].org = r.org PROVE FALSE
        BY <1>1, <2>3 DEF PurgeOrg
    <2>4. ASSUME NEW p \in Process, DeleteUser(p), frame[p].user = r.user PROVE FALSE
        BY <1>1, <2>4 DEF DeleteUser
    <2> QED
        BY <1>b, <2>1, <2>2, <2>3, <2>4, RolesMove
<1>2. CASE r \notin kept
    <2>1. kept' \subseteq kept \/ \E p \in Process : Write(p)
        BY DEF Next, Requests, Steps, vars, CountWorkspaces, BeginDelete, BeginLeave, BeginWrite,
               BeginAccept, CreateWorkspace, acceptInvite, purgeMembership, LockAndRecount,
               SubscriptionGate, PurgeOrg, DeleteUser, Die, ensureOrgOfOne, Subscribe, Cancel, invite, revoke
    <2>2. PICK p \in Process : Write(p)
        BY <1>2, <2>1
    <2>3. r.org = frame[p].org /\ r.user = frame[p].user
        BY <1>2, <2>2 DEF Write
    <2> QED
        BY <2>2, <2>3 DEF Write
<1> QED
    BY <1>1, <1>2

(***************************************************************************)
(* Who left keeps nothing.                                                 *)
(***************************************************************************)
THEOREM LeaversKeepNothing == Spec => []NoResidue
<1>1. Init => NoResidue
    BY DEF Init, NoResidue
<1> QED
    BY <1>1, TypeInit, TypeStep, ResidueStep, PTL DEF Spec
-----------------------------------------------------------------------------
Passed(u) == {p \in Process : At(p, "create") /\ frame[p].user = u}

(* Fewer of either is within the cap as well.                              *)
LEMMA CountsShrink ==
    ASSUME NEW A, NEW B, IsFiniteSet(A), IsFiniteSet(B), NEW C \in SUBSET A, NEW D \in SUBSET B,
           NEW n \in Nat, Cardinality(A) + Cardinality(B) <= n
    PROVE  Cardinality(C) + Cardinality(D) <= n
<1>1. /\ Cardinality(C) <= Cardinality(A) /\ Cardinality(D) <= Cardinality(B)
      /\ IsFiniteSet(C) /\ IsFiniteSet(D)
    BY FS_Subset
<1>2. {Cardinality(A), Cardinality(B), Cardinality(C), Cardinality(D)} \subseteq Nat
    BY <1>1, FS_CardinalityType
<1> QED
    BY <1>1, <1>2

LEMMA CountsFinite == \A u \in User : IsFiniteSet(Created(u)) /\ IsFiniteSet(Passed(u))
<1> SUFFICES ASSUME NEW u \in User PROVE IsFiniteSet(Created(u)) /\ IsFiniteSet(Passed(u))
    OBVIOUS
<1>1. Created(u) \subseteq Team /\ Passed(u) \subseteq Process
    BY DEF Created, Passed
<1> QED
    BY <1>1, Sets, FS_Subset

(* Every step keeps CapHolds.                                              *)
LEMMA CapStep == TypeInv /\ CapHolds /\ [Next]_vars => CapHolds'
<1> DEFINE Within(u) == Cardinality(Created(u)) + Cardinality(Passed(u)) <= Cap
<1>c. CapHolds <=> \A u \in User : Within(u)
    BY DEF CapHolds, Passed
<1>d. CapHolds' <=> \A u \in User : Within(u)'
    BY DEF CapHolds, Passed
<1> SUFFICES ASSUME TypeInv, CapHolds, [Next]_vars, NEW u \in User PROVE Within(u)'
    BY <1>d
<1>a. TypeOK
    BY DEF TypeInv
<1>b. Within(u)
    BY <1>c
<1>e. IsFiniteSet(Created(u)) /\ IsFiniteSet(Passed(u))
    BY CountsFinite
<1>f. Cardinality(Created(u)) \in Nat /\ Cardinality(Passed(u)) \in Nat
    BY <1>e, FS_CardinalityType
<1>1. ASSUME Created(u)' \subseteq Created(u), Passed(u)' \subseteq Passed(u) PROVE Within(u)'
    BY <1>1, <1>b, <1>e, CountsShrink, Sets
<1>2. ASSUME NEW p \in Process, CountWorkspaces(p, u) PROVE Within(u)'
    <2>1. frame' = [frame EXCEPT ![p] = [pc |-> "create", user |-> u]]
        BY <1>2 DEF CountWorkspaces, Begin
    <2>2. Passed(u) = {} /\ Passed(u)' = {p}
        BY <1>a, <1>2, <2>1 DEF CountWorkspaces, MayCount, Passed, At, TypeOK
    <2>3. Created(u)' = Created(u) /\ Cardinality(Created(u)) < Cap
        BY <1>2 DEF CountWorkspaces, Created
    <2>4. Cardinality({p}) = 1
        BY FS_Singleton
    <2>5. Cardinality(Created(u)) + 1 <= Cap
        BY <1>f, <2>3, Sets
    <2> QED
        BY <2>2, <2>3, <2>4, <2>5
<1>3. ASSUME NEW p \in Process, NEW t \in Team, CreateWorkspace(p, t), frame[p].user = u PROVE Within(u)'
    <2>1. p \in Passed(u) /\ t \notin Created(u)
        BY <1>3 DEF CreateWorkspace, Passed, Created
    <2>2. Created(u)' = Created(u) \cup {t}
        BY <1>a, <1>3 DEF CreateWorkspace, Created, TypeOK
    <2>3. Passed(u)' = Passed(u) \ {p}
        BY <1>a, <1>3 DEF CreateWorkspace, Passed, At, Return, Idle, TypeOK
    <2>4. /\ Cardinality(Created(u) \cup {t}) = Cardinality(Created(u)) + 1
          /\ Cardinality(Passed(u) \ {p}) = Cardinality(Passed(u)) - 1
        BY <1>e, <2>1, FS_AddElement, FS_RemoveElement
    <2> QED
        BY <1>b, <1>f, <2>2, <2>3, <2>4, Sets
<1>4. CASE \E p \in Process : CountWorkspaces(p, u)
    BY <1>2, <1>4
<1>5. CASE \E p \in Process, t \in Team : CreateWorkspace(p, t) /\ frame[p].user = u
    BY <1>3, <1>5
<1>6. CASE /\ ~\E p \in Process : CountWorkspaces(p, u)
           /\ ~\E p \in Process, t \in Team : CreateWorkspace(p, t) /\ frame[p].user = u
    <2>1. ASSUME NEW p \in Passed(u)' PROVE p \in Passed(u)
        <3>1. p \in Process /\ frame'[p].pc = "create" /\ frame'[p].user = u
            BY <2>1 DEF Passed, At
        <3>2. ASSUME NEW v \in User, CountWorkspaces(p, v) PROVE v = u
            BY <1>a, <3>1, <3>2 DEF CountWorkspaces, Begin, TypeOK
        <3>3. frame'[p] = frame[p]
            BY <1>6, <3>1, <3>2, FramesMove
        <3> QED
            BY <3>1, <3>3 DEF Passed, At
    <2>2. ASSUME NEW t \in Created(u)' PROVE t \in Created(u)
        <3>1. t \in Team /\ t \in orgs' /\ creator'[t] = u /\ u # NoUser
            BY <2>2, Sets DEF Created
        <3>2. ASSUME NEW p \in Process, CreateWorkspace(p, t) PROVE FALSE
            BY <1>a, <1>6, <3>1, <3>2 DEF CreateWorkspace, TypeOK
        <3>3. t \in orgs
            BY <3>1, <3>2, TeamsMove
        <3> QED
            BY <3>1, <3>3, TeamsMove DEF Created
    <2> QED
        BY <1>1, <2>1, <2>2
<1> QED
    BY <1>4, <1>5, <1>6

(***************************************************************************)
(* No account gets past the cap.                                           *)
(***************************************************************************)
THEOREM TheCapHolds == Spec => []CapHolds
<1>1. Init => CapHolds
    <2> SUFFICES ASSUME Init, NEW u \in User PROVE Cardinality(Created(u)) + Cardinality(Passed(u)) <= Cap
        BY DEF CapHolds, Passed
    <2>1. Created(u) = {} /\ Passed(u) = {}
        BY Sets DEF Init, Created, Passed, At, Idle
    <2> QED
        BY <2>1, FS_EmptySet, Sets
<1> QED
    BY <1>1, TypeInit, TypeStep, CapStep, PTL DEF Spec
-----------------------------------------------------------------------------
(* Every step keeps GateInv.                                               *)
LEMMA GateStep == TypeInv /\ GateInv /\ [Next]_vars => GateInv'
<1> SUFFICES ASSUME TypeInv, GateInv, [Next]_vars, NEW p \in Process,
                    At(p, "teardown")', frame'[p].org \notin overtaken'
             PROVE  Members(frame[p].org)' \subseteq {frame[p].org}' /\ frame'[p].org \notin paying'
    BY DEF GateInv
<1>a. TypeOK
    BY DEF TypeInv
<1>1. CASE SubscriptionGate(p)
    <2>1. frame[p] \in Deletion /\ ~Return(p)
        BY <1>a, <1>1, FrameKinds, ReturnFrame DEF SubscriptionGate, At
    <2>2. Goto(p, "teardown")
        BY <1>1, <2>1 DEF SubscriptionGate
    <2>3. frame'[p].org = frame[p].org
        BY <1>a, <2>1, <2>2, GotoFrame
    <2>4. Unpaid(frame[p].org) /\ Members(frame[p].org) \subseteq {frame[p].org}
        BY <1>1, <2>1, <2>3 DEF SubscriptionGate
    <2>5. UNCHANGED <<role, paying>>
        BY <1>1 DEF SubscriptionGate
    <2> QED
        BY <2>3, <2>4, <2>5 DEF Unpaid, Members
<1>2. CASE frame'[p] = frame[p]
    <2> DEFINE o == frame[p].org
    <2>1. At(p, "teardown") /\ o \in User /\ o \in Org /\ o \notin Team /\ o \notin overtaken
        BY <1>a, <1>2, FrameKinds, HistoryGrows, Sets DEF At, Deletion
    <2>2. Members(o) \subseteq {o} /\ o \notin paying
        BY <2>1 DEF GateInv
    <2>3. ASSUME NEW q \in Process, acceptInvite(q), frame[q].org = o PROVE FALSE
        BY <1>2, <2>1, <2>3 DEF acceptInvite, Overtakes
    <2>4. ASSUME NEW u \in User, role[o][u] = "none", role'[o][u] # "none" PROVE u = o
        BY <2>1, <2>3, <2>4, RolesMove
    <2>5. \A u \in User : role'[o][u] # "none" => u = o
        BY <2>2, <2>4 DEF Members
    <2>6. ASSUME Subscribe(o) PROVE FALSE
        BY <1>2, <2>1, <2>6 DEF Subscribe, Overtakes
    <2>7. paying' \subseteq paying \/ \E u \in User : Subscribe(u) /\ paying' = paying \cup {u}
        BY DEF Next, Requests, Steps, vars, CountWorkspaces, BeginDelete, BeginLeave, BeginWrite, Write,
               BeginAccept, CreateWorkspace, acceptInvite, purgeMembership, LockAndRecount,
               SubscriptionGate, PurgeOrg, DeleteUser, Die, ensureOrgOfOne, Subscribe, Cancel, invite, revoke
    <2>8. o \notin paying'
        BY <2>2, <2>6, <2>7
    <2> QED
        BY <1>2, <2>5, <2>8 DEF Members
<1> QED
    BY <1>1, <1>2, FramesMove DEF At

(***************************************************************************)
(* A deletion spares whoever else was there at the check, and what is paid *)
(* for.                                                                    *)
(***************************************************************************)
THEOREM DeletionsSpareOthers == Spec => DeletionSparesOthers
<1>1. Init => GateInv
    BY DEF Init, GateInv, At, Idle
<1>2. TypeInv /\ GateInv /\ [Next]_vars =>
          [\A u \in orgs \ (orgs' \cup overtaken) : Members(u) \subseteq {u} /\ u \notin paying]_vars
    <2> SUFFICES ASSUME TypeInv, GateInv, [Next]_vars, NEW u \in orgs, u \notin orgs', u \notin overtaken
                 PROVE  Members(u) \subseteq {u} /\ u \notin paying
        OBVIOUS
    <2>1. orgs \subseteq orgs' \/ \E p \in Process : PurgeOrg(p)
        BY DEF Next, Requests, Steps, vars, CountWorkspaces, BeginDelete, BeginLeave, BeginWrite, Write,
               BeginAccept, CreateWorkspace, acceptInvite, purgeMembership, LockAndRecount,
               SubscriptionGate, DeleteUser, Die, ensureOrgOfOne, Subscribe, Cancel, invite, revoke
    <2>2. PICK p \in Process : PurgeOrg(p)
        BY <2>1
    <2>3. frame[p].org = u /\ At(p, "teardown")
        BY <2>2 DEF PurgeOrg
    <2> QED
        BY <2>3 DEF GateInv
<1> QED
    BY <1>1, <1>2, TypeInit, TypeStep, GateStep, PTL DEF Spec, DeletionSparesOthers
=============================================================================

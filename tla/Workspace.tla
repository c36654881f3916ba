------------------------------ MODULE Workspace ------------------------------
(***************************************************************************)
(* Who belongs to which workspace: every account's personal workspace, the *)
(* team workspaces, invites, leaving and removing, what members leave in a *)
(* workspace (a manager grant, coaching notes, a digest preference, a      *)
(* benchmark consent), and the deletion of an account with its personal    *)
(* workspace.  Requests check first and write later, in statements or      *)
(* transactions of their own; some hold a lock from the check to the       *)
(* write.                                                                  *)
(***************************************************************************)
EXTENDS Integers, FiniteSets

CONSTANTS User,      \* accounts; each one's personal workspace bears its name
          Team,      \* team workspaces, before and after they exist
          NoUser,
          Table,     \* the tables purgeMembership clears
          Process,   \* requests running at a time
          Cap,       \* D-ONB-1: team workspaces an account may create
          MaxInvites \* bound: invites

ASSUME WorkspaceAssumption ==
    /\ User \cap Team = {} /\ NoUser \notin User
    /\ {Cap, MaxInvites} \subseteq Nat
    /\ \A S \in {User, Team, Process} : IsFiniteSet(S)

VARIABLES
    accounts, \* the accounts there are
    orgs,     \* the workspaces there are
    creator,  \* orgs.created_by_user_id
    role,     \* org_members
    kept,     \* the rows of Table, by workspace and member
    invites,  \* the invites ever sent
    paying,   \* personal workspaces with a subscription that is not canceled
    frame,    \* one frame per request
    abandoned, \* history: teams an admin of which deleted the account
    overtaken  \* history: workspaces written to between another's check and its write

history == <<abandoned, overtaken>>
vars == <<accounts, orgs, creator, role, kept, invites, paying, frame, history>>

Org  == User \cup Team
Idle == [pc |-> "idle"]
Row  == [org : Org, user : User, table : Table]
Invite == [org : Org, role : {"member", "admin"}, by : User,
           state : {"pending", "accepted", "revoked", "gone"}]

Creation == [pc : {"create"}, user : User]
Joining  == [pc : {"join"}, org : Org, user : User, invite : 1..MaxInvites]
Writing  == [pc : {"write"}, org : Org, user : User, table : Table]
Leaving  == [pc : {"lock", "purge"}, org : Org, user : User]
Deletion == [pc : {"gate", "teardown", "forget"}, org : User, user : User]

TypeOK ==
    /\ accounts \subseteq User /\ orgs \subseteq Org
    /\ creator \in [Team -> User \cup {NoUser}]
    /\ role \in [Org -> [User -> {"none", "member", "admin"}]]
    /\ kept \subseteq Row
    /\ invites \in [1..MaxInvites -> Invite \cup {Idle}]
    /\ paying \subseteq User
    /\ frame \in [Process -> {Idle} \cup Creation \cup Joining \cup Writing \cup Leaving \cup Deletion]
    /\ abandoned \subseteq Org /\ overtaken \subseteq Org

Init ==
    /\ accounts = User /\ orgs = User
    /\ creator = [t \in Team |-> NoUser]
    /\ role = [o \in Org |-> [u \in User |-> IF o = u THEN "admin" ELSE "none"]]
    /\ kept = {}
    /\ invites = [i \in 1..MaxInvites |-> Idle]
    /\ paying = {}
    /\ frame = [p \in Process |-> Idle]
    /\ abandoned = {} /\ overtaken = {}

Members(o) == {u \in User : role[o][u] # "none"}
Admins(o)  == {u \in User : role[o][u] = "admin"}

At(p, label) == frame[p].pc = label
Goto(p, label) == frame' = [frame EXCEPT ![p].pc = label]
Begin(p, f) == frame[p] = Idle /\ frame' = [frame EXCEPT ![p] = f]
Return(p) == frame' = [frame EXCEPT ![p] = Idle]

\* SELECT ... FOR UPDATE of the workspace's row; rows that refer to it wait.
Locked(o) == \E p \in Process : At(p, "purge") /\ frame[p].org = o

\* The request fails, or the Worker dies; its transaction is rolled back.
Die(p) ==
    /\ frame[p] # Idle
    /\ Return(p)
    /\ UNCHANGED <<accounts, orgs, creator, role, kept, invites, paying, history>>
-----------------------------------------------------------------------------
(* Workspaces.                                                             *)

\* Mistaken: a role there is not.
OwnerRole == "owner"

BootstrapRole == "admin"

\* An account without a membership gets its personal workspace (back).
ensureOrgOfOne(u) ==
    /\ u \in accounts
    /\ \A o \in Org : role[o][u] = "none"
    /\ ~Locked(u)
    /\ orgs' = orgs \cup {u}
    /\ role' = [role EXCEPT ![u][u] = BootstrapRole]
    /\ UNCHANGED <<accounts, creator, kept, invites, paying, frame, history>>

Created(u) == {t \in Team \cap orgs : creator[t] = u}

\* Mistaken: the count is taken without the advisory lock.
MayCountAnyTime(u) == TRUE

\* pg_advisory_xact_lock: one creation of an account at a time.
MayCount(u) == \A p \in Process : At(p, "create") => frame[p].user # u

\* provisionTeamWorkspace: count under the lock, ...
CountWorkspaces(p, u) ==
    /\ u \in accounts
    /\ MayCount(u)
    /\ Cardinality(Created(u)) < Cap
    /\ Begin(p, [pc |-> "create", user |-> u])
    /\ UNCHANGED <<accounts, orgs, creator, role, kept, invites, paying, history>>

\* ... then insert and commit.
CreateWorkspace(p, t) ==
    LET u == frame[p].user
    IN  /\ At(p, "create")
        /\ u \in accounts
        /\ t \in Team \ orgs
        /\ orgs' = orgs \cup {t}
        /\ creator' = [creator EXCEPT ![t] = u]
        /\ role' = [role EXCEPT ![t][u] = "admin"]
        /\ Return(p)
        /\ UNCHANGED <<accounts, kept, invites, paying, history>>

\* Past which check a request is that a commit on its workspace overtakes.
Overtakes(o) ==
    overtaken' = IF \E p \in Process : At(p, "teardown") /\ frame[p].org = o
                 THEN overtaken \cup {o} ELSE overtaken

\* A checkout of a personal workspace is completed; no gate reads a team's.
Subscribe(o) ==
    /\ o \in orgs \ paying
    /\ paying' = paying \cup {o}
    /\ Overtakes(o)
    /\ UNCHANGED <<accounts, orgs, creator, role, kept, invites, frame, abandoned>>

Cancel(o) ==
    /\ o \in paying
    /\ paying' = paying \ {o}
    /\ UNCHANGED <<accounts, orgs, creator, role, kept, invites, frame, history>>
-----------------------------------------------------------------------------
(* Invites.                                                                *)

Pending(i) == invites[i] # Idle /\ invites[i].state = "pending"

\* An admin invites an address, whoever will redeem the token.
invite(i, o, by, as) ==
    /\ invites[i] = Idle
    /\ by \in Admins(o) /\ ~Locked(o)
    /\ invites' = [invites EXCEPT ![i] = [org |-> o, role |-> as, by |-> by, state |-> "pending"]]
    /\ UNCHANGED <<accounts, orgs, creator, role, kept, paying, frame, history>>

revoke(i) ==
    /\ Pending(i)
    /\ invites' = [invites EXCEPT ![i].state = "revoked"]
    /\ UNCHANGED <<accounts, orgs, creator, role, kept, paying, frame, history>>

\* acceptInvite reads the invite: whoever has the token redeems it, ...
BeginAccept(p, u, i) ==
    /\ u \in accounts
    /\ Pending(i)
    /\ Begin(p, [pc |-> "join", org |-> invites[i].org, user |-> u, invite |-> i])
    /\ UNCHANGED <<accounts, orgs, creator, role, kept, invites, paying, history>>

\* Mistaken: the invite's role replaces the one the member has.
RoleUpserted(o, u, as) == as

\* ON CONFLICT DO NOTHING.
RoleOnJoin(o, u, as) == IF role[o][u] = "none" THEN as ELSE role[o][u]

\* ... and joins, whatever became of the invite meanwhile.
acceptInvite(p) ==
    LET o == frame[p].org   u == frame[p].user   i == frame[p].invite
    IN  /\ At(p, "join")
        /\ o \in orgs /\ u \in accounts /\ ~Locked(o)
        /\ role' = [role EXCEPT ![o][u] = RoleOnJoin(o, u, invites[i].role)]
        /\ invites' = IF invites[i].state = "gone" THEN invites
                      ELSE [invites EXCEPT ![i].state = "accepted"]
        /\ Overtakes(o)
        /\ Return(p)
        /\ UNCHANGED <<accounts, orgs, creator, kept, paying, abandoned>>
-----------------------------------------------------------------------------
(* What members leave behind, and leaving.                                 *)

\* The session's, or the chosen manager's, membership is read first.
BeginWrite(p, o, u, t) ==
    /\ role[o][u] # "none"
    /\ Begin(p, [pc |-> "write", org |-> o, user |-> u, table |-> t])
    /\ UNCHANGED <<accounts, orgs, creator, role, kept, invites, paying, history>>

\* The upsert.
Write(p) ==
    LET o == frame[p].org   u == frame[p].user
    IN  /\ At(p, "write")
        /\ o \in orgs /\ u \in accounts /\ ~Locked(o)
        /\ kept' = kept \cup {[org |-> o, user |-> u, table |-> frame[p].table]}
        /\ overtaken' = IF role[o][u] = "none" THEN overtaken \cup {o} ELSE overtaken
        /\ Return(p)
        /\ UNCHANGED <<accounts, orgs, creator, role, invites, paying, abandoned>>

\* Never one's own personal workspace, as its owner or by another admin.
BeginLeave(p, o, u) ==
    /\ role[o][u] # "none"
    /\ o # u
    /\ Begin(p, [pc |-> "lock", org |-> o, user |-> u])
    /\ UNCHANGED <<accounts, orgs, creator, role, kept, invites, paying, history>>

\* Mistaken: the count does not wait for the other removals.
CountsAnyTime(o) == TRUE

MayLock(o) == ~Locked(o)

LastAdmin(o, u) == role[o][u] = "admin" /\ Cardinality(Admins(o)) <= 1

\* purgeMembership: the recount under the lock, ...
LockAndRecount(p) ==
    LET o == frame[p].org
    IN  /\ At(p, "lock")
        /\ MayLock(o)
        /\ IF LastAdmin(o, frame[p].user) THEN Return(p) ELSE Goto(p, "purge")
        /\ UNCHANGED <<accounts, orgs, creator, role, kept, invites, paying, history>>

\* Mistaken: a grant of managing a team is forgotten.
ClearedButGrants == Table \ {"team_managers"}

Cleared == Table

\* ... then the rows and the membership.
purgeMembership(p) ==
    LET o == frame[p].org   u == frame[p].user
    IN  /\ At(p, "purge")
        /\ kept' = {r \in kept : ~(r.org = o /\ r.user = u /\ r.table \in Cleared)}
        /\ role' = [role EXCEPT ![o][u] = "none"]
        /\ Return(p)
        /\ UNCHANGED <<accounts, orgs, creator, invites, paying, history>>
-----------------------------------------------------------------------------
(* Deleting an account.                                                    *)

\* assertDeletableAndPurgeOrg: nobody else is in the personal workspace, ...
BeginDelete(p, u) ==
    /\ u \in accounts
    /\ IF u \in orgs
       THEN Cardinality(Members(u)) <= 1 /\ Begin(p, [pc |-> "gate", org |-> u, user |-> u])
       ELSE Begin(p, [pc |-> "forget", org |-> u, user |-> u])
    /\ UNCHANGED <<accounts, orgs, creator, role, kept, invites, paying, history>>

\* Mistaken: only a subscription in force holds the deletion up.
NothingToPay(o) == TRUE

Unpaid(o) == o \notin paying

\* ... and no subscription is left that is not canceled; ...
SubscriptionGate(p) ==
    /\ At(p, "gate")
    /\ IF Unpaid(frame[p].org)
       THEN /\ Goto(p, "teardown")
            /\ overtaken' = IF Members(frame[p].org) \subseteq {frame[p].org}
                            THEN overtaken ELSE overtaken \cup {frame[p].org}
       ELSE Return(p) /\ UNCHANGED overtaken
    /\ UNCHANGED <<accounts, orgs, creator, role, kept, invites, paying, abandoned>>

Gone(gone) == [i \in 1..MaxInvites |->
    IF invites[i] # Idle /\ gone[i] THEN [invites[i] EXCEPT !.state = "gone"] ELSE invites[i]]

\* ... then the personal workspace goes, table by table in one transaction, ...
PurgeOrg(p) ==
    LET o == frame[p].org
    IN  /\ At(p, "teardown")
        /\ ~Locked(o)
        /\ orgs' = orgs \ {o}
        /\ role' = [role EXCEPT ![o] = [u \in User |-> "none"]]
        /\ kept' = {r \in kept : r.org # o}
        /\ invites' = Gone([i \in 1..MaxInvites |-> invites[i] # Idle /\ invites[i].org = o])
        /\ paying' = paying \ {o}
        /\ Goto(p, "forget")
        /\ UNCHANGED <<accounts, creator, history>>

\* ... and Better Auth deletes the account: its memberships cascade.
DeleteUser(p) ==
    LET u == frame[p].user
    IN  /\ At(p, "forget")
        /\ accounts' = accounts \ {u}
        /\ role' = [o \in Org |-> [role[o] EXCEPT ![u] = "none"]]
        /\ kept' = {r \in kept : r.user # u}
        /\ creator' = [t \in Team |-> IF creator[t] = u THEN NoUser ELSE creator[t]]
        /\ invites' = Gone([i \in 1..MaxInvites |-> invites[i] # Idle /\ invites[i].by = u])
        /\ abandoned' = abandoned \cup {o \in Team : role[o][u] = "admin"}
        /\ Return(p)
        /\ UNCHANGED <<orgs, paying, overtaken>>
-----------------------------------------------------------------------------
Requests(p) ==
    \/ \E u \in User : CountWorkspaces(p, u) \/ BeginDelete(p, u)
    \/ \E o \in Org, u \in User : BeginLeave(p, o, u)
    \/ \E o \in Org, u \in User, t \in Table : BeginWrite(p, o, u, t)
    \/ \E u \in User, i \in 1..MaxInvites : BeginAccept(p, u, i)

Steps(p) ==
    \/ \E t \in Team : CreateWorkspace(p, t)
    \/ acceptInvite(p) \/ Write(p) \/ LockAndRecount(p) \/ purgeMembership(p)
    \/ SubscriptionGate(p) \/ PurgeOrg(p) \/ DeleteUser(p) \/ Die(p)

Next ==
    \/ \E p \in Process : Requests(p) \/ Steps(p)
    \/ \E u \in User : ensureOrgOfOne(u)
    \/ \E u \in User : Subscribe(u) \/ Cancel(u)
    \/ \E i \in 1..MaxInvites, o \in Org, by \in User, as \in {"member", "admin"} :
           invite(i, o, by, as)
    \/ \E i \in 1..MaxInvites : revoke(i)

Spec == Init /\ [][Next]_vars
-----------------------------------------------------------------------------
(* Properties.                                                             *)

Teams == Team \cap orgs

(***************************************************************************)
(* However leaves and removals of co-admins overlap, a team workspace      *)
(* keeps an admin, unless an admin deleted the account (membership.ts,     *)
(* LAST-ADMIN SAFETY).                                                     *)
(***************************************************************************)
LeavesKeepAdmin == \A t \in Teams \ abandoned : Admins(t) # {}

(***************************************************************************)
(* A team workspace that has members has an admin, with no exception, as   *)
(* membership.ts says it: "don't orphan a team org".                       *)
(***************************************************************************)
TeamHasAdmin == \A t \in Teams : Members(t) # {} => Admins(t) # {}

(***************************************************************************)
(* Nobody who left a workspace keeps a manager grant, a digest preference, *)
(* a consent or notes in it, so nothing comes back to life when they are   *)
(* invited again; only a request that overlapped the leaving can write     *)
(* such a row (membership.ts, CASCADE CLEANUP).                            *)
(***************************************************************************)
NoResidue == \A r \in kept : r.org \in overtaken \/ role[r.org][r.user] # "none"

(***************************************************************************)
(* Creations at the cap cannot both pass, however they overlap: those that *)
(* passed the check, finished or not, are within it (org-provisioning.ts,  *)
(* "cannot all pass").                                                     *)
(***************************************************************************)
CapHolds ==
    \A u \in User :
        LET passed == {p \in Process : At(p, "create") /\ frame[p].user = u}
        IN  Cardinality(Created(u)) + Cardinality(passed) <= Cap

(***************************************************************************)
(* Deleting an account takes its personal workspace from nobody else and   *)
(* never with a subscription, unless somebody joined it or subscribed it   *)
(* after the check (account-deletion.ts, gates 1 and 2).                   *)
(***************************************************************************)
DeletionSparesOthers ==
    [][\A u \in orgs \ (orgs' \cup overtaken) : Members(u) \subseteq {u} /\ u \notin paying]_vars

(***************************************************************************)
(* A member's role changes by leaving only: redeeming another invite       *)
(* neither promotes nor demotes (invites.ts, acceptInvite).                *)
(***************************************************************************)
RolesStay ==
    [][\A o \in Org, u \in User :
           role[o][u] # "none" /\ role'[o][u] # "none" => role'[o][u] = role[o][u]]_vars
=============================================================================

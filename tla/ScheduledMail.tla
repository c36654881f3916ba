---------------------------- MODULE ScheduledMail ----------------------------
(***************************************************************************)
(* The weekly digest and the monthly memo of one organisation.  A cron     *)
(* puts a message on the queue; the queue delivers it at least once, late  *)
(* and perhaps twice at a time, until a run of it ends.  A run claims the  *)
(* period with a compare-and-set before it sends: the digest per user and  *)
(* ISO week, with a new unsubscribe token, the memo per month.             *)
(***************************************************************************)
EXTENDS Integers, Sequences, FiniteSets

CONSTANTS User, NoUser,
          Run,       \* consumers working on the organisation's messages
          WeekDays, MonthDays,
          Retention, \* days the queue keeps a message
          MemoSpans, \* can a memo run begin before midnight and claim after?
          MaxDay     \* bound: the calendar

ASSUME MailAssumption ==
    /\ NoUser \notin User
    /\ {WeekDays, MonthDays} \subseteq Nat \ {0}
    /\ {Retention, MaxDay} \subseteq Nat
    /\ Retention + 1 < WeekDays /\ Retention + 1 < MonthDays
    /\ MemoSpans \in BOOLEAN

VARIABLES
    day,        \* the calendar: day 0 is a Monday and the 1st
    digestDue,  \* when the digest message on the queue was sent, -1 without one
    memoDue,    \* the same of the memo message
    role,       \* the organisation's members, their addresses verified
    pref,       \* digest_preferences
    execReport, \* exec_report_state
    frame,      \* one frame per run
    digests,    \* the weeks claimed for each user; a token is a position here
    received,   \* the users and tokens of the digests that arrived
    memos,      \* history: the months claimed
    optedOut    \* history: who opted out, by Settings or by a link, and was not written over

vars == <<day, digestDue, memoDue, role, pref, execReport, frame, digests, received, memos, optedOut>>

Idle   == [pc |-> "idle"]
NoPref == [enabled |-> FALSE, week |-> -2, token |-> 0]
Never  == -1

isoWeekString(d) == d \div WeekDays
monthKey(d) == (d + MonthDays - 1) \div MonthDays   \* of the day before

Pref       == [enabled : BOOLEAN, week : Nat \cup {Never}, token : Nat]
ExecReport == [enabled : BOOLEAN, month : Nat \cup {Never}]
DigestRun  == [pc : {"next", "default", "claim", "send"}, at : Nat, personal : BOOLEAN,
               todo : SUBSET User, user : User \cup {NoUser}, token : Nat]
MemoRun    == [pc : {"memo"}, at : Nat]

TypeOK ==
    /\ day \in Nat
    /\ {digestDue, memoDue} \subseteq Nat \cup {-1}
    /\ role \in [User -> {"none", "manager", "admin"}]
    /\ pref \in [User -> {NoPref} \cup Pref]
    /\ execReport \in ExecReport
    /\ frame \in [Run -> {Idle} \cup DigestRun \cup MemoRun]
    /\ digests \in [User -> Seq(Nat)]
    /\ received \subseteq User \X Nat
    /\ memos \in Seq(Nat)
    /\ optedOut \subseteq User

Init ==
    /\ day = 0
    /\ digestDue = 0 /\ memoDue = 0
    /\ role \in {[u \in User |-> IF u = owner THEN "admin" ELSE "none"] : owner \in User}
    /\ pref = [u \in User |-> NoPref]
    /\ execReport = [enabled |-> TRUE, month |-> Never]
    /\ frame = [r \in Run |-> Idle]
    /\ digests = [u \in User |-> <<>>]
    /\ received = {} /\ memos = <<>>
    /\ optedOut = {}

IsDigest(r) == frame[r].pc \in {"next", "default", "claim", "send"}
IsMemo(r)   == frame[r].pc = "memo"
-----------------------------------------------------------------------------
(* The calendar, the crons and the queue.                                  *)

\* A run takes minutes: it is over before the next midnight but one.
Tick ==
    /\ day < MaxDay
    /\ \A r \in Run : /\ IsDigest(r) => frame[r].at = day
                      /\ IsMemo(r) => MemoSpans /\ frame[r].at = day
    /\ day' = day + 1
    /\ digestDue' = IF day' % WeekDays = 0 THEN day' ELSE digestDue
    /\ memoDue' = IF day' % MonthDays = 0 THEN day' ELSE memoDue
    /\ UNCHANGED <<role, pref, execReport, frame, digests, received, memos, optedOut>>

Deliverable(due) == due # -1 /\ day - due <= Retention

Return(r) == frame' = [frame EXCEPT ![r] = Idle]

\* The Worker dies or a statement throws: the queue will deliver again.
RunDies(r) ==
    /\ frame[r] # Idle
    /\ Return(r)
    /\ UNCHANGED <<day, digestDue, memoDue, role, pref, execReport, digests, received, memos, optedOut>>
-----------------------------------------------------------------------------
(* The members, and what they ask for.                                     *)

Members == {u \in User : role[u] # "none"}

\* A plain member counts for the lane as a manager without a preference does.
Join(u, as) ==
    /\ role[u] = "none"
    /\ role' = [role EXCEPT ![u] = as]
    /\ UNCHANGED <<day, digestDue, memoDue, pref, execReport, frame, digests, received, memos, optedOut>>

\* Mistaken: an update instead, which leaves a new row's other fields unset.
EnabledInPlace(u, on) == [pref[u] EXCEPT !.enabled = on]

\* The upsert of a preference, by the Settings toggle or by a run.
Enabled(u, on) ==
    IF pref[u] = NoPref THEN [enabled |-> on, week |-> Never, token |-> 0]
    ELSE [pref[u] EXCEPT !.enabled = on]

\* The toggle is the admins'; a manager has no other way to a row.
setEnabled(u, on) ==
    /\ role[u] = "admin"
    /\ pref' = [pref EXCEPT ![u] = Enabled(u, on)]
    /\ optedOut' = IF on THEN optedOut \ {u} ELSE optedOut \cup {u}
    /\ UNCHANGED <<day, digestDue, memoDue, role, execReport, frame, digests, received, memos>>

\* Mistaken: the row is deleted, and with it the choice.
RowDeleted(u) == NoPref

Unsubscribed(u) == [pref[u] EXCEPT !.enabled = FALSE]

\* The link of a digest: it finds the row that has its token, if any.
resolveDigestUnsubscribe(u, k) ==
    /\ <<u, k>> \in received
    /\ pref[u].token = k
    /\ pref' = [pref EXCEPT ![u] = Unsubscribed(u)]
    /\ optedOut' = optedOut \cup {u}
    /\ UNCHANGED <<day, digestDue, memoDue, role, execReport, frame, digests, received, memos>>

setExecReport(on) ==
    /\ execReport' = [execReport EXCEPT !.enabled = on]
    /\ UNCHANGED <<day, digestDue, memoDue, role, pref, frame, digests, received, memos, optedOut>>
-----------------------------------------------------------------------------
(* runWeeklyDigest.                                                        *)

\* Reads the recipients and the lane; without mail configured, without
\* recipients or with stale data it ends there.
BeginDigest(r) ==
    /\ frame[r] = Idle
    /\ Deliverable(digestDue)
    /\ LET personal == Cardinality(Members) <= 1
           to == {u \in User : role[u] \in (IF personal THEN {"admin"} ELSE {"admin", "manager"})}
       IN  \/ digestDue' = -1 /\ UNCHANGED frame
           \/ /\ frame' = [frame EXCEPT ![r] =
                     [pc |-> "next", at |-> day, personal |-> personal,
                      todo |-> to, user |-> NoUser, token |-> 0]]
              /\ UNCHANGED digestDue
    /\ UNCHANGED <<day, memoDue, role, pref, execReport, digests, received, memos, optedOut>>

NextRecipient(r) ==
    frame' = [frame EXCEPT ![r].pc = "next", ![r].user = NoUser, ![r].token = 0]

\* The next recipient's preference; without a row the lane decides.
getForUser(r, u) ==
    LET rest == [frame[r] EXCEPT !.todo = @ \ {u}]
    IN  /\ frame[r].pc = "next"
        /\ u \in frame[r].todo
        /\ frame' = [frame EXCEPT ![r] =
               IF pref[u] = NoPref /\ rest.personal THEN [rest EXCEPT !.pc = "default", !.user = u]
               ELSE IF pref[u].enabled THEN [rest EXCEPT !.pc = "claim", !.user = u]
               ELSE rest]
        /\ UNCHANGED <<day, digestDue, memoDue, role, pref, execReport, digests, received, memos, optedOut>>

\* A row for the personal owner who had none when it was read.
setDefault(r) ==
    LET u == frame[r].user
    IN  /\ frame[r].pc = "default"
        /\ pref' = [pref EXCEPT ![u] = Enabled(u, TRUE)]
        /\ optedOut' = optedOut \ {u}
        /\ frame' = [frame EXCEPT ![r].pc = "claim"]
        /\ UNCHANGED <<day, digestDue, memoDue, role, execReport, digests, received, memos>>

\* Mistaken: the preference that was read before is relied upon.
RowFound(u, week) == pref[u] # NoPref

CanClaim(u, week) == pref[u] # NoPref /\ pref[u].enabled /\ pref[u].week # week

\* Mistaken: a token is minted for the first digest only.
RowKeepingToken(u, week) ==
    [pref[u] EXCEPT !.week = week, !.token = IF @ = 0 THEN Len(digests[u]) + 1 ELSE @]

ClaimedRow(u, week) == [pref[u] EXCEPT !.week = week, !.token = Len(digests[u]) + 1]

claimWeekAndRotateToken(r) ==
    LET u == frame[r].user   week == isoWeekString(frame[r].at)
    IN  /\ frame[r].pc = "claim"
        /\ IF CanClaim(u, week)
           THEN /\ pref' = [pref EXCEPT ![u] = ClaimedRow(u, week)]
                /\ digests' = [digests EXCEPT ![u] = Append(@, week)]
                /\ frame' = [frame EXCEPT ![r].pc = "send", ![r].token = Len(digests[u]) + 1]
           ELSE /\ NextRecipient(r)
                /\ UNCHANGED <<pref, digests>>
        /\ UNCHANGED <<day, digestDue, memoDue, role, execReport, received, memos, optedOut>>

\* A failed send is logged and the next recipient's turn comes.
sendDigest(r) ==
    /\ frame[r].pc = "send"
    /\ received' \in {received, received \cup {<<frame[r].user, frame[r].token>>}}
    /\ NextRecipient(r)
    /\ UNCHANGED <<day, digestDue, memoDue, role, pref, execReport, digests, memos, optedOut>>

DigestDone(r) ==
    /\ frame[r].pc = "next"
    /\ frame[r].todo = {}
    /\ digestDue' = -1
    /\ Return(r)
    /\ UNCHANGED <<day, memoDue, role, pref, execReport, digests, received, memos, optedOut>>
-----------------------------------------------------------------------------
(* runMonthlyExecReport.                                                   *)

\* The clock is read now, and the month reported is yesterday's.
BeginMemo(r) ==
    /\ frame[r] = Idle
    /\ Deliverable(memoDue)
    /\ \/ memoDue' = -1 /\ UNCHANGED frame
       \/ /\ frame' = [frame EXCEPT ![r] = [pc |-> "memo", at |-> day]]
          /\ UNCHANGED memoDue
    /\ UNCHANGED <<day, digestDue, role, pref, execReport, digests, received, memos, optedOut>>

\* Mistaken: a month is claimed again when the workspace opts in again.
CanClaimOptedIn(month) == execReport.enabled

CanClaimMonth(month) == execReport.enabled /\ execReport.month # month

\* The sends that follow fail one by one, or the run dies among them and the
\* message is not acknowledged.
claimMonth(r) ==
    LET month == monthKey(frame[r].at)
    IN  /\ frame[r].pc = "memo"
        /\ IF CanClaimMonth(month)
           THEN /\ execReport' = [execReport EXCEPT !.month = month]
                /\ memos' = Append(memos, month)
                /\ memoDue' \in {memoDue, -1}
           ELSE /\ memoDue' = -1
                /\ UNCHANGED <<execReport, memos>>
        /\ Return(r)
        /\ UNCHANGED <<day, digestDue, role, pref, digests, received, optedOut>>
-----------------------------------------------------------------------------
runWeeklyDigest(r) ==
    \/ BeginDigest(r)
    \/ \E u \in User : getForUser(r, u)
    \/ setDefault(r) \/ claimWeekAndRotateToken(r) \/ sendDigest(r) \/ DigestDone(r)

runMonthlyExecReport(r) == BeginMemo(r) \/ claimMonth(r)

Next ==
    \/ Tick
    \/ \E r \in Run : runWeeklyDigest(r) \/ runMonthlyExecReport(r) \/ RunDies(r)
    \/ \E u \in User, as \in {"manager", "admin"} : Join(u, as)
    \/ \E u \in User, on \in BOOLEAN : setEnabled(u, on)
    \/ \E u \in User : \E k \in 1..Len(digests[u]) : resolveDigestUnsubscribe(u, k)
    \/ \E on \in BOOLEAN : setExecReport(on)

Spec == Init /\ [][Next]_vars
-----------------------------------------------------------------------------
(* Properties.                                                             *)

(***************************************************************************)
(* Who opted out in Settings or unsubscribed stays out until they opt in,  *)
(* and so gets no digest; only a run that had found no row before they     *)
(* chose writes over the choice (digest-preferences.ts, "so the person's   *)
(* choice survives a later send").                                         *)
(***************************************************************************)
OptOutHolds ==
    \A u \in optedOut : pref[u] # NoPref /\ ~pref[u].enabled

(***************************************************************************)
(* Of the digests a person received the link of the last one only works,   *)
(* even when sends failed and runs overlapped (digest-preferences.ts,      *)
(* "only the most recent email's unsubscribe link stays live").            *)
(***************************************************************************)
OnlyLatestLink ==
    \A m, n \in received : m[1] = n[1] /\ pref[n[1]].token = n[2] => m[2] <= n[2]

(***************************************************************************)
(* Redelivery, overlap and crashes mail nobody two digests of one week     *)
(* (digest.ts, "never a second send"): the digests are OncePerPeriod's.    *)
(***************************************************************************)
Digest == INSTANCE OncePerPeriod WITH
    Recipient <- User,
    Period <- 0..isoWeekString(MaxDay),
    sent <- digests

DigestOnce == Digest!Spec

(***************************************************************************)
(* A month's memo is mailed once for the organisation, also when it opts   *)
(* out and in again (exec-report-state.ts, "exactly once per org"),        *)
(* provided that no run begins before midnight and claims after it.        *)
(***************************************************************************)
Memo == INSTANCE OncePerPeriod WITH
    Recipient <- {"organisation"},
    Period <- 0..monthKey(MaxDay),
    sent <- [o \in {"organisation"} |-> memos]

MemoOnce == Memo!Spec
=============================================================================

------------------------ MODULE ScheduledMailProofs ------------------------
(***************************************************************************)
(* One digest per user and week, one memo per month, and opt-outs that     *)
(* hold, for any members, runs and calendar.                               *)
(***************************************************************************)
EXTENDS ScheduledMail, TLAPS

(***************************************************************************)
(* A run that has taken up a recipient has taken up a user.                *)
(***************************************************************************)
RecipientInv ==
    \A r \in Run : frame[r].pc \in {"default", "claim", "send"} => frame[r].user \in User

(***************************************************************************)
(* CalendarInv: a digest run works in the week of its message, because the *)
(* queue keeps a message for less than a week.                             *)
(***************************************************************************)
CalendarInv ==
    /\ day <= MaxDay
    /\ digestDue # -1 => digestDue <= day /\ digestDue % WeekDays = 0
    /\ \A r \in Run : IsDigest(r) =>
           /\ frame[r].at % WeekDays <= Retention
           /\ day = frame[r].at \/ day = frame[r].at + 1

(***************************************************************************)
(* TokenInv: a user's token is that of the last digest claimed, and only   *)
(* claimed digests are sent.                                               *)
(***************************************************************************)
TokenInv ==
    /\ \A u \in User : pref[u].token = Len(digests[u])
    /\ \A r \in Run : frame[r].pc = "send" => frame[r].token \in 1..Len(digests[frame[r].user])
    /\ \A n \in received : n[2] \in 1..Len(digests[n[1]])

(***************************************************************************)
(* WeekInv: the week in a row is the last one claimed, and has begun.      *)
(***************************************************************************)
WeekInv ==
    /\ \A u \in User : pref[u].week <= isoWeekString(day)
    /\ \A u \in User : \A i \in 1..Len(digests[u]) : digests[u][i] <= pref[u].week

(***************************************************************************)
(* MemoInv: the same of the memo; a run claims on the day that it began.   *)
(***************************************************************************)
MemoInv ==
    /\ execReport.month <= monthKey(day)
    /\ \A i \in 1..Len(memos) : memos[i] <= execReport.month
    /\ \A r \in Run : IsMemo(r) => frame[r].at = day

TypeInv == TypeOK /\ RecipientInv
MailInv == TypeInv /\ CalendarInv /\ TokenInv /\ WeekInv
-----------------------------------------------------------------------------
(* The bounds are numbers.                                                 *)
LEMMA Bounds ==
    /\ WeekDays \in Nat /\ WeekDays > 0 /\ MonthDays \in Nat /\ MonthDays > 0
    /\ Retention \in Nat /\ MaxDay \in Nat
    /\ Retention + 1 < WeekDays
BY MailAssumption

(* A day later it is the same week or a later one.                         *)
LEMMA WeeksGrow ==
    ASSUME NEW d \in Nat, NEW e \in Nat, d <= e
    PROVE  isoWeekString(d) \in Nat /\ isoWeekString(d) <= isoWeekString(e)
BY Bounds DEF isoWeekString

LEMMA MonthsGrow ==
    ASSUME NEW d \in Nat, NEW e \in Nat, d <= e
    PROVE  monthKey(d) \in Nat /\ monthKey(d) <= monthKey(e)
BY Bounds DEF monthKey

(* A run that began in the first days of a week ends in that week.         *)
LEMMA SameWeek ==
    ASSUME NEW d \in Nat, d % WeekDays <= Retention
    PROVE  isoWeekString(d + 1) = isoWeekString(d)
BY Bounds DEF isoWeekString

(* A message is delivered in the first days of its week.                   *)
LEMMA DueThisWeek ==
    ASSUME NEW d \in Nat, NEW due \in Nat, due % WeekDays = 0, due <= d, d - due <= Retention
    PROVE  d % WeekDays <= Retention
BY Bounds

(* What the fields of frames and rows can be.                              *)
LEMMA FrameFields ==
    ASSUME TypeOK, NEW r \in Run
    PROVE  /\ IsDigest(r) => frame[r] \in DigestRun
           /\ IsMemo(r) => frame[r] \in MemoRun
           /\ frame[r].pc \in {"idle", "next", "default", "claim", "send", "memo"}
<1>1. frame[r] = Idle \/ frame[r] \in DigestRun \/ frame[r] \in MemoRun
    BY DEF TypeOK
<1>2. CASE frame[r] = Idle
    BY <1>2 DEF Idle, IsDigest, IsMemo
<1>3. CASE frame[r] \in DigestRun
    BY <1>3 DEF DigestRun, IsDigest, IsMemo
<1>4. CASE frame[r] \in MemoRun
    BY <1>4 DEF MemoRun, IsDigest, IsMemo
<1> QED
    BY <1>1, <1>2, <1>3, <1>4

LEMMA PrefFields ==
    ASSUME TypeOK, NEW u \in User
    PROVE  /\ pref[u] = NoPref \/ pref[u] \in Pref
           /\ pref[u].token \in Nat /\ pref[u].week \in Int /\ pref[u].enabled \in BOOLEAN
           /\ pref[u] # NoPref => pref[u] \in Pref
<1>1. pref[u] = NoPref \/ pref[u] \in Pref
    BY DEF TypeOK
<1>2. CASE pref[u] = NoPref
    BY <1>2 DEF NoPref
<1>3. CASE pref[u] \in Pref
    BY <1>3 DEF Pref, Never
<1> QED
    BY <1>1, <1>2, <1>3

LEMMA PrefIsNotNoPref == ASSUME NEW p \in Pref PROVE p # NoPref
BY DEF Pref, NoPref, Never

LEMMA EnabledPref ==
    ASSUME TypeOK, NEW u \in User, NEW on \in BOOLEAN
    PROVE  /\ Enabled(u, on) \in Pref /\ Enabled(u, on).enabled = on
           /\ Enabled(u, on).token = pref[u].token
           /\ Enabled(u, on).week >= pref[u].week
           /\ Enabled(u, on).week = pref[u].week \/ Enabled(u, on).week = -1
<1>1. CASE pref[u] = NoPref
    BY <1>1 DEF Enabled, NoPref, Pref, Never
<1>2. CASE pref[u] # NoPref
    <2>1. pref[u] \in Pref
        BY <1>2, PrefFields
    <2> QED
        BY <1>2, <2>1 DEF Enabled, Pref, Never
<1> QED
    BY <1>1, <1>2

LEMMA UnsubscribedPref ==
    ASSUME TypeOK, NEW u \in User, pref[u] # NoPref
    PROVE  /\ Unsubscribed(u) \in Pref /\ ~Unsubscribed(u).enabled
           /\ Unsubscribed(u).token = pref[u].token
           /\ Unsubscribed(u).week = pref[u].week
<1>1. pref[u] \in Pref
    BY PrefFields
<1> QED
    BY <1>1 DEF Unsubscribed, Pref

LEMMA ClaimedPref ==
    ASSUME TypeOK, NEW u \in User, NEW week \in Nat, CanClaim(u, week)
    PROVE  /\ ClaimedRow(u, week) \in Pref
           /\ ClaimedRow(u, week).enabled
           /\ ClaimedRow(u, week).token = Len(digests[u]) + 1
           /\ ClaimedRow(u, week).week = week
<1>1. pref[u] \in Pref /\ pref[u].enabled
    BY PrefFields DEF CanClaim
<1>2. Len(digests[u]) + 1 \in Nat
    BY DEF TypeOK
<1> QED
    BY <1>1, <1>2 DEF ClaimedRow, Pref

(* The frame of a run that goes on to its next recipient.                  *)
LEMMA NextFrame ==
    ASSUME NEW r \in Run, frame[r] \in DigestRun, frame \in [Run -> {Idle} \cup DigestRun \cup MemoRun],
           NextRecipient(r)
    PROVE  /\ frame' \in [Run -> {Idle} \cup DigestRun \cup MemoRun]
           /\ frame'[r] \in DigestRun /\ frame'[r].pc = "next" /\ frame'[r].at = frame[r].at
           /\ \A q \in Run \ {r} : frame'[q] = frame[q]
<1> DEFINE f == [frame[r] EXCEPT !.pc = "next", !.user = NoUser, !.token = 0]
<1>1. f \in DigestRun /\ f.pc = "next" /\ f.at = frame[r].at
    BY DEF DigestRun
<1>2. frame' = [frame EXCEPT ![r] = f]
    BY DEF NextRecipient
<1> HIDE DEF f
<1> QED
    BY <1>1, <1>2
-----------------------------------------------------------------------------
LEMMA TypeInit == Init => TypeInv
<1> SUFFICES ASSUME Init PROVE TypeInv
    OBVIOUS
<1>1. execReport \in ExecReport
    BY DEF Init, ExecReport, Never
<1>2. role \in [User -> {"none", "manager", "admin"}]
    BY DEF Init
<1>3. TypeOK
    BY <1>1, <1>2 DEF Init, TypeOK
<1>4. RecipientInv
    BY DEF Init, RecipientInv, Idle
<1> QED
    BY <1>3, <1>4 DEF TypeInv

LEMMA TypeStep == TypeInv /\ [Next]_vars => TypeInv'
<1> SUFFICES ASSUME TypeInv, [Next]_vars PROVE TypeInv'
    OBVIOUS
<1> DEFINE Frames == {Idle} \cup DigestRun \cup MemoRun
<1>0. TypeOK /\ RecipientInv
    BY DEF TypeInv
<1>1. CASE Tick
    <2>1. day' \in Nat /\ {digestDue', memoDue'} \subseteq Nat \cup {-1}
        BY <1>0, <1>1 DEF Tick, TypeOK
    <2> QED
        BY <1>0, <1>1, <2>1 DEF Tick, TypeInv, TypeOK, RecipientInv
<1>2. ASSUME NEW r \in Run, BeginDigest(r) PROVE TypeInv'
    <2>1. frame' \in [Run -> Frames] /\ RecipientInv'
        <3> DEFINE to == {u \in User : role[u] \in
                              (IF Cardinality(Members) <= 1 THEN {"admin"} ELSE {"admin", "manager"})}
                   f == [pc |-> "next", at |-> day, personal |-> Cardinality(Members) <= 1,
                         todo |-> to, user |-> NoUser, token |-> 0]
        <3>1. (Cardinality(Members) <= 1) \in BOOLEAN
            OBVIOUS
        <3>2. to \in SUBSET User
            OBVIOUS
        <3>3. f \in DigestRun /\ f.pc = "next"
            BY <1>0, <3>1, <3>2 DEF DigestRun, TypeOK
        <3>4. frame' = frame \/ frame' = [frame EXCEPT ![r] = f]
            BY <1>2 DEF BeginDigest
        <3> HIDE DEF f
        <3> QED
            BY <1>0, <3>3, <3>4 DEF TypeOK, RecipientInv
    <2>3. digestDue' \in Nat \cup {-1}
        BY <1>0, <1>2 DEF BeginDigest, TypeOK
    <2> QED
        BY <1>0, <1>2, <2>1, <2>3 DEF BeginDigest, TypeInv, TypeOK
<1>3. ASSUME NEW r \in Run, NEW u \in User, getForUser(r, u) PROVE TypeInv'
    <2>0. frame[r] \in DigestRun
        BY <1>0, <1>3, FrameFields DEF getForUser, IsDigest
    <2> DEFINE rest == [frame[r] EXCEPT !.todo = @ \ {u}]
               f == IF pref[u] = NoPref /\ rest.personal
                    THEN [rest EXCEPT !.pc = "default", !.user = u]
                    ELSE IF pref[u].enabled THEN [rest EXCEPT !.pc = "claim", !.user = u] ELSE rest
    <2>1. rest \in DigestRun
        BY <2>0 DEF DigestRun
    <2>2. f \in DigestRun /\ (f.pc # "next" => f.user = u)
        <3>1. frame[r].pc = "next" /\ rest.pc = "next"
            BY <1>3, <2>0 DEF getForUser, DigestRun
        <3>2. /\ [rest EXCEPT !.pc = "default", !.user = u] \in DigestRun
              /\ [rest EXCEPT !.pc = "claim", !.user = u] \in DigestRun
              /\ [rest EXCEPT !.pc = "default", !.user = u].user = u
              /\ [rest EXCEPT !.pc = "claim", !.user = u].user = u
            BY <2>1 DEF DigestRun
        <3> QED
            BY <2>1, <3>1, <3>2
    <2>3. frame' = [frame EXCEPT ![r] = f]
        BY <1>3 DEF getForUser
    <2> HIDE DEF f
    <2>4. frame' \in [Run -> Frames] /\ RecipientInv'
        BY <1>0, <2>2, <2>3 DEF TypeOK, RecipientInv
    <2> QED
        BY <1>0, <1>3, <2>4 DEF getForUser, TypeInv, TypeOK
<1>4. ASSUME NEW r \in Run, setDefault(r) PROVE TypeInv'
    <2>0. frame[r] \in DigestRun /\ frame[r].user \in User
        BY <1>0, <1>4, FrameFields DEF setDefault, IsDigest, RecipientInv
    <2>1. [frame[r] EXCEPT !.pc = "claim"] \in DigestRun
        BY <2>0 DEF DigestRun
    <2>2. Enabled(frame[r].user, TRUE) \in Pref
        BY <1>0, <2>0, EnabledPref
    <2>3. frame' \in [Run -> Frames] /\ RecipientInv'
        BY <1>0, <1>4, <2>0, <2>1 DEF setDefault, TypeOK, RecipientInv, DigestRun
    <2> QED
        BY <1>0, <1>4, <2>2, <2>3 DEF setDefault, TypeInv, TypeOK
<1>5. ASSUME NEW r \in Run, claimWeekAndRotateToken(r) PROVE TypeInv'
    <2> DEFINE u == frame[r].user
               week == isoWeekString(frame[r].at)
    <2>0. frame[r] \in DigestRun /\ u \in User /\ frame[r].at \in Nat
        BY <1>0, <1>5, FrameFields DEF claimWeekAndRotateToken, IsDigest, RecipientInv, DigestRun
    <2>1. week \in Nat
        BY <2>0, WeeksGrow
    <2>2. CASE CanClaim(u, week)
        <3>1. ClaimedRow(u, week) \in Pref /\ Len(digests[u]) + 1 \in Nat
            BY <1>0, <2>0, <2>1, <2>2, ClaimedPref DEF TypeOK
        <3>2. [frame[r] EXCEPT !.pc = "send", !.token = Len(digests[u]) + 1] \in DigestRun
            BY <2>0, <3>1 DEF DigestRun
        <3>3. /\ pref' = [pref EXCEPT ![u] = ClaimedRow(u, week)]
              /\ digests' = [digests EXCEPT ![u] = Append(@, week)]
              /\ frame' = [frame EXCEPT ![r] =
                               [frame[r] EXCEPT !.pc = "send", !.token = Len(digests[u]) + 1]]
            BY <1>5, <2>2 DEF claimWeekAndRotateToken
        <3>4. frame' \in [Run -> Frames] /\ RecipientInv'
            BY <1>0, <2>0, <3>2, <3>3 DEF TypeOK, RecipientInv, DigestRun
        <3>5. pref' \in [User -> {NoPref} \cup Pref]
            BY <1>0, <3>1, <3>3 DEF TypeOK
        <3>6. digests' \in [User -> Seq(Nat)]
            BY <1>0, <2>0, <2>1, <3>3 DEF TypeOK
        <3> QED
            BY <1>0, <1>5, <3>4, <3>5, <3>6 DEF claimWeekAndRotateToken, TypeInv, TypeOK
    <2>3. CASE ~CanClaim(u, week)
        <3>1. NextRecipient(r) /\ UNCHANGED <<pref, digests>>
            BY <1>5, <2>3 DEF claimWeekAndRotateToken
        <3>2. frame' \in [Run -> Frames] /\ RecipientInv'
            BY <1>0, <2>0, <3>1, NextFrame DEF TypeOK, RecipientInv
        <3> QED
            BY <1>0, <1>5, <3>1, <3>2 DEF claimWeekAndRotateToken, TypeInv, TypeOK
    <2> QED
        BY <2>2, <2>3
<1>6. ASSUME NEW r \in Run, sendDigest(r) PROVE TypeInv'
    <2>0. frame[r] \in DigestRun /\ frame[r].user \in User /\ frame[r].token \in Nat
        BY <1>0, <1>6, FrameFields DEF sendDigest, IsDigest, RecipientInv, DigestRun
    <2>1. frame' \in [Run -> Frames] /\ RecipientInv'
        BY <1>0, <1>6, <2>0, NextFrame DEF TypeOK, RecipientInv, sendDigest
    <2>2. received' \subseteq User \X Nat
        BY <1>0, <1>6, <2>0 DEF sendDigest, TypeOK
    <2> QED
        BY <1>0, <1>6, <2>1, <2>2 DEF sendDigest, TypeInv, TypeOK
<1>7. ASSUME NEW r \in Run, Return(r) PROVE frame' \in [Run -> Frames] /\ RecipientInv'
    BY <1>0, <1>7 DEF Return, TypeOK, RecipientInv, Idle
<1>8. ASSUME NEW r \in Run, DigestDone(r) PROVE TypeInv'
    BY <1>0, <1>7, <1>8 DEF DigestDone, TypeInv, TypeOK
<1>9. ASSUME NEW r \in Run, RunDies(r) PROVE TypeInv'
    BY <1>0, <1>7, <1>9 DEF RunDies, TypeInv, TypeOK
<1>10. ASSUME NEW r \in Run, BeginMemo(r) PROVE TypeInv'
    <2> DEFINE f == [pc |-> "memo", at |-> day]
    <2>1. f \in MemoRun /\ f.pc = "memo"
        BY <1>0 DEF MemoRun, TypeOK
    <2>2. frame' = frame \/ frame' = [frame EXCEPT ![r] = f]
        BY <1>10 DEF BeginMemo
    <2> HIDE DEF f
    <2>3. frame' \in [Run -> Frames] /\ RecipientInv'
        BY <1>0, <2>1, <2>2 DEF TypeOK, RecipientInv
    <2>4. memoDue' \in Nat \cup {-1}
        BY <1>0, <1>10 DEF BeginMemo, TypeOK
    <2> QED
        BY <1>0, <1>10, <2>3, <2>4 DEF BeginMemo, TypeInv, TypeOK
<1>11. ASSUME NEW r \in Run, claimMonth(r) PROVE TypeInv'
    <2> DEFINE month == monthKey(frame[r].at)
    <2>0. frame[r].at \in Nat
        BY <1>0, <1>11, FrameFields DEF claimMonth, IsMemo, MemoRun
    <2>1. month \in Nat
        BY <2>0, MonthsGrow
    <2>2. memoDue' \in Nat \cup {-1}
        BY <1>0, <1>11 DEF claimMonth, TypeOK
    <2>3. \/ UNCHANGED <<execReport, memos>>
          \/ execReport' = [execReport EXCEPT !.month = month] /\ memos' = Append(memos, month)
        BY <1>11 DEF claimMonth
    <2> HIDE DEF month
    <2>4. execReport' \in ExecReport /\ memos' \in Seq(Nat)
        <3>1. [execReport EXCEPT !.month = month] \in ExecReport
            BY <1>0, <2>1 DEF TypeOK, ExecReport
        <3>2. Append(memos, month) \in Seq(Nat)
            BY <1>0, <2>1 DEF TypeOK
        <3>3. execReport \in ExecReport /\ memos \in Seq(Nat)
            BY <1>0 DEF TypeOK
        <3> QED
            BY <2>3, <3>1, <3>2, <3>3
    <2>5. frame' \in [Run -> Frames] /\ RecipientInv'
        BY <1>7, <1>11 DEF claimMonth
    <2> QED
        BY <1>0, <1>11, <2>2, <2>4, <2>5 DEF claimMonth, TypeInv, TypeOK
<1>12. ASSUME NEW u \in User, NEW as \in {"manager", "admin"}, Join(u, as) PROVE TypeInv'
    BY <1>0, <1>12 DEF Join, TypeInv, TypeOK, RecipientInv
<1>13. ASSUME NEW u \in User, NEW on \in BOOLEAN, setEnabled(u, on) PROVE TypeInv'
    <2>1. Enabled(u, on) \in Pref
        BY <1>0, EnabledPref
    <2>2. pref' \in [User -> {NoPref} \cup Pref] /\ optedOut' \subseteq User
        BY <1>0, <1>13, <2>1 DEF setEnabled, TypeOK
    <2> QED
        BY <1>0, <1>13, <2>2 DEF setEnabled, TypeInv, TypeOK, RecipientInv
<1>14. ASSUME NEW u \in User, NEW k \in 1..Len(digests[u]), resolveDigestUnsubscribe(u, k)
       PROVE  TypeInv'
    <2>1. pref[u] # NoPref
        BY <1>0, <1>14 DEF resolveDigestUnsubscribe, NoPref, TypeOK
    <2>2. Unsubscribed(u) \in Pref
        BY <1>0, <2>1, UnsubscribedPref
    <2>3. pref' \in [User -> {NoPref} \cup Pref] /\ optedOut' \subseteq User
        BY <1>0, <1>14, <2>2 DEF resolveDigestUnsubscribe, TypeOK
    <2> QED
        BY <1>0, <1>14, <2>3 DEF resolveDigestUnsubscribe, TypeInv, TypeOK, RecipientInv
<1>15. ASSUME NEW on \in BOOLEAN, setExecReport(on) PROVE TypeInv'
    <2>1. execReport' \in ExecReport
        BY <1>0, <1>15 DEF setExecReport, TypeOK, ExecReport
    <2> QED
        BY <1>0, <1>15, <2>1 DEF setExecReport, TypeInv, TypeOK, RecipientInv
<1>16. CASE UNCHANGED vars
    BY <1>0, <1>16 DEF vars, TypeInv, TypeOK, RecipientInv
<1> QED
    BY <1>1, <1>2, <1>3, <1>4, <1>5, <1>6, <1>8, <1>9, <1>10, <1>11, <1>12, <1>13, <1>14, <1>15, <1>16
    DEF Next, runWeeklyDigest, runMonthlyExecReport

(***************************************************************************)
(* Every variable of the mail model keeps its type.                        *)
(***************************************************************************)
THEOREM TypeCorrect == Spec => []TypeOK
<1>1. TypeInv => TypeOK
    BY DEF TypeInv
<1> QED
    BY <1>1, TypeInit, TypeStep, PTL DEF Spec
-----------------------------------------------------------------------------
(* Every digest run of a new state was one before, or begins on a message  *)
(* that the queue still keeps.                                             *)
LEMMA DigestFrames ==
    ASSUME TypeInv, Next, ~Tick
    PROVE  /\ day' = day /\ digestDue' \in {digestDue, -1}
           /\ \A q \in Run : IsDigest(q)' =>
                  \/ IsDigest(q) /\ frame'[q].at = frame[q].at
                  \/ frame'[q].at = day /\ digestDue # -1 /\ day - digestDue <= Retention
<1> DEFINE Moves ==
        /\ day' = day /\ digestDue' \in {digestDue, -1}
        /\ \A q \in Run : IsDigest(q)' =>
               \/ IsDigest(q) /\ frame'[q].at = frame[q].at
               \/ frame'[q].at = day /\ digestDue # -1 /\ day - digestDue <= Retention
<1>0. TypeOK /\ RecipientInv
    BY DEF TypeInv
<1>1. ASSUME NEW r \in Run, NEW f, frame' = [frame EXCEPT ![r] = f],
             UNCHANGED day, digestDue' \in {digestDue, -1},
             \/ f.pc \notin {"next", "default", "claim", "send"}
             \/ IsDigest(r) /\ f.at = frame[r].at
             \/ f.at = day /\ Deliverable(digestDue)
      PROVE  Moves
    BY <1>0, <1>1 DEF TypeOK, IsDigest, Deliverable
<1>2. ASSUME NEW r \in Run, BeginDigest(r) PROVE Moves
    <2> DEFINE f == [pc |-> "next", at |-> day, personal |-> Cardinality(Members) <= 1,
                     todo |-> {u \in User : role[u] \in
                                   (IF Cardinality(Members) <= 1 THEN {"admin"} ELSE {"admin", "manager"})},
                     user |-> NoUser, token |-> 0]
    <2>1. f.at = day
        OBVIOUS
    <2>2. /\ frame' = frame \/ frame' = [frame EXCEPT ![r] = f]
          /\ UNCHANGED day /\ digestDue' \in {digestDue, -1} /\ Deliverable(digestDue)
        BY <1>2 DEF BeginDigest
    <2> HIDE DEF f
    <2>3. CASE frame' = [frame EXCEPT ![r] = f]
        BY <1>1, <2>1, <2>2, <2>3
    <2>4. CASE frame' = frame
        BY <2>2, <2>4 DEF IsDigest
    <2> QED
        BY <2>2, <2>3, <2>4
<1>3. ASSUME NEW r \in Run, NEW u \in User, getForUser(r, u) PROVE Moves
    <2> DEFINE rest == [frame[r] EXCEPT !.todo = @ \ {u}]
               f == IF pref[u] = NoPref /\ rest.personal
                    THEN [rest EXCEPT !.pc = "default", !.user = u]
                    ELSE IF pref[u].enabled THEN [rest EXCEPT !.pc = "claim", !.user = u] ELSE rest
    <2>1. IsDigest(r) /\ frame[r] \in DigestRun
        BY <1>0, <1>3, FrameFields DEF getForUser, IsDigest
    <2>2. f.at = frame[r].at
        BY <2>1 DEF DigestRun
    <2>3. frame' = [frame EXCEPT ![r] = f] /\ UNCHANGED <<day, digestDue>>
        BY <1>3 DEF getForUser
    <2> HIDE DEF f
    <2> QED
        BY <1>1, <2>1, <2>2, <2>3
<1>4. ASSUME NEW r \in Run, setDefault(r) PROVE Moves
    <2>1. IsDigest(r) /\ frame[r] \in DigestRun
        BY <1>0, <1>4, FrameFields DEF setDefault, IsDigest
    <2>2. [frame[r] EXCEPT !.pc = "claim"].at = frame[r].at
        BY <2>1 DEF DigestRun
    <2> QED
        BY <1>1, <1>4, <2>1, <2>2 DEF setDefault
<1>5. ASSUME NEW r \in Run, claimWeekAndRotateToken(r) \/ sendDigest(r) PROVE Moves
    <2>1. IsDigest(r) /\ frame[r] \in DigestRun /\ UNCHANGED <<day, digestDue>>
        BY <1>0, <1>5, FrameFields DEF claimWeekAndRotateToken, sendDigest, IsDigest
    <2> DEFINE f == [frame[r] EXCEPT !.pc = "send", !.token = Len(digests[frame[r].user]) + 1]
               g == [frame[r] EXCEPT !.pc = "next", !.user = NoUser, !.token = 0]
    <2>2. f.at = frame[r].at /\ g.at = frame[r].at
        BY <2>1 DEF DigestRun
    <2>3. frame' = [frame EXCEPT ![r] = f] \/ frame' = [frame EXCEPT ![r] = g]
        BY <1>5 DEF claimWeekAndRotateToken, sendDigest, NextRecipient
    <2> HIDE DEF f, g
    <2> QED
        BY <1>1, <2>1, <2>2, <2>3
<1>6. ASSUME NEW r \in Run, DigestDone(r) \/ RunDies(r) \/ claimMonth(r) PROVE Moves
    <2>1. frame' = [frame EXCEPT ![r] = Idle] /\ UNCHANGED day /\ digestDue' \in {digestDue, -1}
        BY <1>6 DEF DigestDone, RunDies, claimMonth, Return
    <2> QED
        BY <1>1, <2>1 DEF Idle
<1>7. ASSUME NEW r \in Run, BeginMemo(r) PROVE Moves
    <2> DEFINE f == [pc |-> "memo", at |-> day]
    <2>1. f.pc = "memo"
        OBVIOUS
    <2>2. /\ frame' = frame \/ frame' = [frame EXCEPT ![r] = f]
          /\ UNCHANGED <<day, digestDue>>
        BY <1>7 DEF BeginMemo
    <2> HIDE DEF f
    <2>3. CASE frame' = [frame EXCEPT ![r] = f]
        BY <1>1, <2>1, <2>2, <2>3
    <2>4. CASE frame' = frame
        BY <2>2, <2>4 DEF IsDigest
    <2> QED
        BY <2>2, <2>3, <2>4
<1>8. ASSUME UNCHANGED <<day, digestDue, frame>> PROVE Moves
    BY <1>8 DEF IsDigest
<1> QED
    BY <1>2, <1>3, <1>4, <1>5, <1>6, <1>7, <1>8
    DEF Next, runWeeklyDigest, runMonthlyExecReport, Join, setEnabled, resolveDigestUnsubscribe, setExecReport

LEMMA CalendarStep == TypeInv /\ CalendarInv /\ [Next]_vars => CalendarInv'
<1> SUFFICES ASSUME TypeInv, CalendarInv, [Next]_vars PROVE CalendarInv'
    OBVIOUS
<1>0. /\ TypeOK /\ day \in Nat /\ digestDue \in Nat \cup {-1}
      /\ \A q \in Run : IsDigest(q) => frame[q].at \in Nat
    BY FrameFields DEF TypeInv, TypeOK, DigestRun
<1>1. CASE Tick
    <2>1. ASSUME NEW q \in Run, IsDigest(q)'
          PROVE  frame'[q].at % WeekDays <= Retention /\ (day' = frame'[q].at \/ day' = frame'[q].at + 1)
        BY <1>0, <1>1, <2>1 DEF Tick, IsDigest, CalendarInv
    <2>2. day' <= MaxDay
        BY <1>0, <1>1, Bounds DEF Tick
    <2>3. digestDue' # -1 => digestDue' <= day' /\ digestDue' % WeekDays = 0
        BY <1>0, <1>1 DEF Tick, CalendarInv
    <2> QED
        BY <2>1, <2>2, <2>3 DEF CalendarInv
<1>2. CASE Next /\ ~Tick
    <2>1. /\ day' = day /\ digestDue' \in {digestDue, -1}
          /\ \A q \in Run : IsDigest(q)' =>
                 \/ IsDigest(q) /\ frame'[q].at = frame[q].at
                 \/ frame'[q].at = day /\ digestDue # -1 /\ day - digestDue <= Retention
        BY <1>2, DigestFrames
    <2>2. digestDue # -1 /\ day - digestDue <= Retention => day % WeekDays <= Retention
        BY <1>0, DueThisWeek DEF CalendarInv
    <2>3. ASSUME NEW q \in Run, IsDigest(q)'
          PROVE  frame'[q].at % WeekDays <= Retention /\ (day' = frame'[q].at \/ day' = frame'[q].at + 1)
        BY <2>1, <2>2, <2>3 DEF CalendarInv
    <2> QED
        BY <2>1, <2>3 DEF CalendarInv
<1>3. CASE UNCHANGED vars
    BY <1>3 DEF vars, CalendarInv, IsDigest
<1> QED
    BY <1>1, <1>2, <1>3
-----------------------------------------------------------------------------
(* A run claims the week for the recipient that it has taken up.           *)
Claims(r) ==
    /\ claimWeekAndRotateToken(r)
    /\ CanClaim(frame[r].user, isoWeekString(frame[r].at))

(* What a claim changes.                                                   *)
LEMMA ClaimSteps ==
    ASSUME TypeInv, CalendarInv, NEW r \in Run, Claims(r)
    PROVE  LET u == frame[r].user   week == isoWeekString(day)
           IN  /\ u \in User /\ week \in Nat /\ CanClaim(u, week)
               /\ pref' = [pref EXCEPT ![u] = ClaimedRow(u, week)]
               /\ digests' = [digests EXCEPT ![u] = Append(@, week)]
               /\ \E f : /\ frame' = [frame EXCEPT ![r] = f]
                         /\ f.user = u /\ f.token = Len(digests[u]) + 1
               /\ UNCHANGED <<day, execReport, received, memos, optedOut>>
<1> DEFINE u == frame[r].user
           f == [frame[r] EXCEPT !.pc = "send", !.token = Len(digests[u]) + 1]
<1>1. frame[r] \in DigestRun /\ u \in User /\ frame[r].at \in Nat /\ day \in Nat
    BY FrameFields DEF TypeInv, TypeOK, RecipientInv, Claims, claimWeekAndRotateToken, IsDigest, DigestRun
<1>2. isoWeekString(frame[r].at) = isoWeekString(day)
    BY <1>1, SameWeek DEF CalendarInv, Claims, claimWeekAndRotateToken, IsDigest
<1>3. isoWeekString(day) \in Nat
    BY <1>1, WeeksGrow
<1>4. f.user = u /\ f.token = Len(digests[u]) + 1
    BY <1>1 DEF DigestRun
<1>5. frame' = [frame EXCEPT ![r] = f]
    BY DEF Claims, claimWeekAndRotateToken
<1> HIDE DEF f
<1>6. \E g : frame' = [frame EXCEPT ![r] = g] /\ g.user = u /\ g.token = Len(digests[u]) + 1
    BY <1>4, <1>5
<1> QED
    BY <1>1, <1>2, <1>3, <1>6 DEF Claims, claimWeekAndRotateToken

(* Nothing else claims a week, mints a token or begins a send.             *)
LEMMA OtherSteps ==
    ASSUME TypeInv, [Next]_vars, \A r \in Run : ~Claims(r)
    PROVE  /\ digests' = digests
           /\ \A u \in User : /\ pref'[u].token = pref[u].token
                              /\ pref'[u].week >= pref[u].week
                              /\ pref'[u].week = pref[u].week \/ pref'[u].week = -1
           /\ \A q \in Run : frame'[q].pc = "send" => frame'[q] = frame[q]
           /\ \A n \in received' :
                  \/ n \in received
                  \/ \E q \in Run : frame[q].pc = "send" /\ n = <<frame[q].user, frame[q].token>>
<1> DEFINE Rows ==
               \A u \in User : /\ pref'[u].token = pref[u].token
                               /\ pref'[u].week >= pref[u].week
                               /\ pref'[u].week = pref[u].week \/ pref'[u].week = -1
           Sends == \A q \in Run : frame'[q].pc = "send" => frame'[q] = frame[q]
           Mails ==
               \A n \in received' :
                   \/ n \in received
                   \/ \E q \in Run : frame[q].pc = "send" /\ n = <<frame[q].user, frame[q].token>>
           All == digests' = digests /\ Rows /\ Sends /\ Mails
<1>0. TypeOK
    BY DEF TypeInv
<1>1. ASSUME UNCHANGED pref PROVE Rows
    BY <1>0, <1>1, PrefFields
<1>2. ASSUME UNCHANGED received PROVE Mails
    BY <1>2
<1>3. ASSUME NEW u \in User, NEW on \in BOOLEAN, pref' = [pref EXCEPT ![u] = Enabled(u, on)] PROVE Rows
    <2>1. \A w \in User \ {u} : pref'[w] = pref[w]
        BY <1>0, <1>3 DEF TypeOK
    <2>2. pref'[u] = Enabled(u, on)
        BY <1>0, <1>3 DEF TypeOK
    <2> QED
        BY <1>0, <2>1, <2>2, EnabledPref, PrefFields
<1>4. ASSUME NEW r \in Run, NEW f, frame' = [frame EXCEPT ![r] = f], f.pc # "send" PROVE Sends
    BY <1>0, <1>4 DEF TypeOK
<1>5. ASSUME Tick \/ UNCHANGED vars PROVE All
    BY <1>1, <1>2, <1>5 DEF Tick, vars
<1>6. ASSUME NEW r \in Run, BeginDigest(r) PROVE All
    <2> DEFINE f == [pc |-> "next", at |-> day, personal |-> Cardinality(Members) <= 1,
                     todo |-> {u \in User : role[u] \in
                                   (IF Cardinality(Members) <= 1 THEN {"admin"} ELSE {"admin", "manager"})},
                     user |-> NoUser, token |-> 0]
    <2>1. f.pc # "send"
        OBVIOUS
    <2>2. frame' = frame \/ frame' = [frame EXCEPT ![r] = f]
        BY <1>6 DEF BeginDigest
    <2> HIDE DEF f
    <2> QED
        BY <1>1, <1>2, <1>4, <1>6, <2>1, <2>2 DEF BeginDigest
<1>7. ASSUME NEW r \in Run, NEW u \in User, getForUser(r, u) PROVE All
    <2> DEFINE rest == [frame[r] EXCEPT !.todo = @ \ {u}]
               f == IF pref[u] = NoPref /\ rest.personal
                    THEN [rest EXCEPT !.pc = "default", !.user = u]
                    ELSE IF pref[u].enabled THEN [rest EXCEPT !.pc = "claim", !.user = u] ELSE rest
    <2>1. frame[r] \in DigestRun /\ frame[r].pc = "next"
        BY <1>0, <1>7, FrameFields DEF getForUser, IsDigest
    <2>2. f.pc # "send"
        BY <2>1 DEF DigestRun
    <2>3. frame' = [frame EXCEPT ![r] = f]
        BY <1>7 DEF getForUser
    <2> HIDE DEF f
    <2> QED
        BY <1>1, <1>2, <1>4, <1>7, <2>2, <2>3 DEF getForUser
<1>8. ASSUME NEW r \in Run, setDefault(r) PROVE All
    <2>1. frame[r] \in DigestRun /\ frame[r].user \in User
        BY <1>0, <1>8, FrameFields DEF setDefault, IsDigest, TypeInv, RecipientInv
    <2>2. [frame[r] EXCEPT !.pc = "claim"].pc # "send"
        BY <2>1 DEF DigestRun
    <2> QED
        BY <1>2, <1>3, <1>4, <1>8, <2>1, <2>2 DEF setDefault
<1>9. ASSUME NEW r \in Run, claimWeekAndRotateToken(r) \/ sendDigest(r) PROVE All
    <2> DEFINE g == [frame[r] EXCEPT !.pc = "next", !.user = NoUser, !.token = 0]
    <2>1. frame[r] \in DigestRun
        BY <1>0, <1>9, FrameFields DEF claimWeekAndRotateToken, sendDigest, IsDigest
    <2>2. g.pc # "send"
        BY <2>1 DEF DigestRun
    <2>3. frame' = [frame EXCEPT ![r] = g] /\ UNCHANGED <<pref, digests>>
        BY <1>9 DEF claimWeekAndRotateToken, sendDigest, NextRecipient, Claims
    <2>4. Mails
        BY <1>9 DEF claimWeekAndRotateToken, sendDigest
    <2> HIDE DEF g
    <2> QED
        BY <1>1, <1>4, <2>2, <2>3, <2>4
<1>10. ASSUME NEW r \in Run, DigestDone(r) \/ RunDies(r) \/ claimMonth(r) PROVE All
    <2>1. frame' = [frame EXCEPT ![r] = Idle] /\ Idle.pc # "send"
        BY <1>10 DEF DigestDone, RunDies, claimMonth, Return, Idle
    <2> QED
        BY <1>1, <1>2, <1>4, <1>10, <2>1 DEF DigestDone, RunDies, claimMonth
<1>11. ASSUME NEW r \in Run, BeginMemo(r) PROVE All
    <2> DEFINE f == [pc |-> "memo", at |-> day]
    <2>1. f.pc # "send"
        OBVIOUS
    <2>2. frame' = frame \/ frame' = [frame EXCEPT ![r] = f]
        BY <1>11 DEF BeginMemo
    <2> HIDE DEF f
    <2> QED
        BY <1>1, <1>2, <1>4, <1>11, <2>1, <2>2 DEF BeginMemo
<1>12. ASSUME NEW u \in User, NEW as, Join(u, as) PROVE All
    BY <1>1, <1>2, <1>12 DEF Join
<1>13. ASSUME NEW u \in User, NEW on \in BOOLEAN, setEnabled(u, on) PROVE All
    BY <1>2, <1>3, <1>13 DEF setEnabled
<1>14. ASSUME NEW u \in User, NEW k \in 1..Len(digests[u]), resolveDigestUnsubscribe(u, k) PROVE All
    <2>1. pref[u] # NoPref
        BY <1>0, <1>14 DEF resolveDigestUnsubscribe, NoPref, TypeOK
    <2>2. Unsubscribed(u).token = pref[u].token /\ Unsubscribed(u).week = pref[u].week
        BY <1>0, <2>1, UnsubscribedPref
    <2>3. pref'[u] = Unsubscribed(u) /\ \A w \in User \ {u} : pref'[w] = pref[w]
        BY <1>0, <1>14 DEF resolveDigestUnsubscribe, TypeOK
    <2>4. Rows
        BY <1>0, <2>2, <2>3, PrefFields
    <2> QED
        BY <1>2, <1>14, <2>4 DEF resolveDigestUnsubscribe
<1>15. ASSUME NEW on, setExecReport(on) PROVE All
    BY <1>1, <1>2, <1>15 DEF setExecReport
<1> SUFFICES All
    OBVIOUS
<1> HIDE DEF All
<1> QED
    BY <1>5, <1>6, <1>7, <1>8, <1>9, <1>10, <1>11, <1>12, <1>13, <1>14, <1>15
    DEF Next, runWeeklyDigest, runMonthlyExecReport

LEMMA TokenStep == MailInv /\ [Next]_vars => TokenInv'
<1> SUFFICES ASSUME MailInv, [Next]_vars PROVE TokenInv'
    OBVIOUS
<1>0. TypeInv /\ CalendarInv /\ TokenInv /\ TypeOK /\ RecipientInv
    BY DEF MailInv, TypeInv
<1>1. CASE \A r \in Run : ~Claims(r)
    <2>1. \A q \in Run : frame'[q].pc = "send" => frame'[q].token \in 1..Len(digests'[frame'[q].user])
        BY <1>0, <1>1, OtherSteps DEF TokenInv
    <2>2. ASSUME NEW n \in received' PROVE n[2] \in 1..Len(digests'[n[1]])
        BY <1>0, <1>1, OtherSteps DEF TokenInv
    <2>3. \A u \in User : pref'[u].token = Len(digests'[u])
        BY <1>0, <1>1, OtherSteps DEF TokenInv
    <2> QED
        BY <2>1, <2>2, <2>3 DEF TokenInv
<1>2. CASE \E r \in Run : Claims(r)
    <2> PICK r \in Run : Claims(r)
        BY <1>2
    <2> DEFINE u == frame[r].user
               week == isoWeekString(day)
    <2>1. PICK f : /\ frame' = [frame EXCEPT ![r] = f]
                   /\ f.user = u /\ f.token = Len(digests[u]) + 1
        BY <1>0, ClaimSteps
    <2>2. /\ u \in User /\ week \in Nat /\ CanClaim(u, week)
          /\ pref' = [pref EXCEPT ![u] = ClaimedRow(u, week)]
          /\ digests' = [digests EXCEPT ![u] = Append(@, week)]
          /\ UNCHANGED received
        BY <1>0, ClaimSteps
    <2>3. ClaimedRow(u, week).token = Len(digests[u]) + 1
        BY <1>0, <2>2, ClaimedPref
    <2> HIDE DEF week, u
    <2>4. /\ Len(digests[u]) \in Nat /\ Len(digests'[u]) = Len(digests[u]) + 1
          /\ \A w \in User \ {u} : digests'[w] = digests[w]
        BY <1>0, <2>2 DEF TypeOK
    <2>5. \A w \in User : pref'[w].token = Len(digests'[w])
        BY <1>0, <2>2, <2>3, <2>4 DEF TokenInv, TypeOK
    <2>6. \A w \in User : 1..Len(digests[w]) \subseteq 1..Len(digests'[w])
        BY <2>4
    <2>7. ASSUME NEW q \in Run, frame'[q].pc = "send"
          PROVE  frame'[q].token \in 1..Len(digests'[frame'[q].user])
        <3>1. CASE q = r
            BY <1>0, <2>1, <2>4, <3>1 DEF TypeOK
        <3>2. CASE q # r
            <4>1. frame'[q] = frame[q]
                BY <1>0, <2>1, <3>2 DEF TypeOK
            <4> QED
                BY <1>0, <2>6, <2>7, <4>1 DEF TokenInv, RecipientInv
        <3> QED
            BY <3>1, <3>2
    <2>8. ASSUME NEW n \in received' PROVE n[2] \in 1..Len(digests'[n[1]])
        <3>1. n \in received /\ n[1] \in User
            BY <1>0, <2>2 DEF TypeOK
        <3> QED
            BY <1>0, <2>6, <3>1 DEF TokenInv
    <2> QED
        BY <2>5, <2>7, <2>8 DEF TokenInv
<1> QED
    BY <1>1, <1>2

LEMMA WeekStep == MailInv /\ [Next]_vars => WeekInv'
<1> SUFFICES ASSUME MailInv, [Next]_vars PROVE WeekInv'
    OBVIOUS
<1>0. TypeInv /\ CalendarInv /\ WeekInv /\ TypeOK /\ day \in Nat
    BY DEF MailInv, TypeInv, TypeOK
<1>1. CASE \A r \in Run : ~Claims(r)
    <2>1. day' \in Nat /\ day <= day'
        BY <1>0, DigestFrames DEF Tick, vars
    <2>2. isoWeekString(day) \in Nat /\ isoWeekString(day') \in Nat /\ isoWeekString(day) <= isoWeekString(day')
        BY <1>0, <2>1, WeeksGrow
    <2>3. ASSUME NEW u \in User PROVE pref'[u].week <= isoWeekString(day')
        <3>1. pref'[u].week = pref[u].week \/ pref'[u].week = -1
            BY <1>0, <1>1, OtherSteps
        <3>2. pref[u].week \in Int /\ pref[u].week <= isoWeekString(day)
            BY <1>0, PrefFields DEF WeekInv
        <3> QED
            BY <2>2, <3>1, <3>2
    <2>4. ASSUME NEW u \in User, NEW i \in 1..Len(digests'[u]) PROVE digests'[u][i] <= pref'[u].week
        <3>1. digests' = digests /\ pref'[u].week >= pref[u].week
              /\ (pref'[u].week = pref[u].week \/ pref'[u].week = -1)
            BY <1>0, <1>1, OtherSteps
        <3>2. pref[u].week \in Int /\ digests[u][i] \in Nat /\ digests[u][i] <= pref[u].week
            BY <1>0, <2>4, <3>1, PrefFields DEF WeekInv, TypeOK
        <3> QED
            BY <3>1, <3>2
    <2>5. (\A u \in User : pref[u].week <= isoWeekString(day))'
        BY <2>3 DEF isoWeekString
    <2> QED
        BY <2>4, <2>5 DEF WeekInv
<1>2. CASE \E r \in Run : Claims(r)
    <2> PICK r \in Run : Claims(r)
        BY <1>2
    <2> DEFINE u == frame[r].user
               week == isoWeekString(day)
    <2>1. /\ u \in User /\ week \in Nat /\ CanClaim(u, week)
          /\ pref' = [pref EXCEPT ![u] = ClaimedRow(u, week)]
          /\ digests' = [digests EXCEPT ![u] = Append(@, week)]
          /\ UNCHANGED day
        BY <1>0, ClaimSteps
    <2>2. ClaimedRow(u, week).week = week
        BY <1>0, <2>1, ClaimedPref
    <2>3. (isoWeekString(day))' = week
        BY <2>1 DEF isoWeekString
    <2>4. pref[u].week <= week /\ pref[u].week \in Int
        BY <1>0, <2>1, PrefFields DEF WeekInv
    <2>5. \A w \in User : \A i \in 1..Len(digests[w]) : digests[w][i] \in Nat /\ digests[w][i] <= pref[w].week
        BY <1>0 DEF WeekInv, TypeOK
    <2> HIDE DEF week, u
    <2>6. pref'[u].week = week /\ \A w \in User \ {u} : pref'[w] = pref[w] /\ digests'[w] = digests[w]
        BY <1>0, <2>1, <2>2 DEF TypeOK
    <2>7. digests'[u] = Append(digests[u], week) /\ digests[u] \in Seq(Nat)
        BY <1>0, <2>1 DEF TypeOK
    <2>8. \A i \in 1..Len(digests'[u]) : digests'[u][i] <= week
        BY <2>1, <2>4, <2>5, <2>7
    <2>9. \A w \in User : pref'[w].week <= week
        BY <1>0, <2>1, <2>6 DEF WeekInv, week
    <2>10. \A w \in User : \A i \in 1..Len(digests'[w]) : digests'[w][i] <= pref'[w].week
        BY <2>5, <2>6, <2>8
    <2> QED
        BY <2>3, <2>9, <2>10 DEF WeekInv
<1> QED
    BY <1>1, <1>2

LEMMA MailInit == Init => MailInv
<1> SUFFICES ASSUME Init PROVE MailInv
    OBVIOUS
<1>1. TypeInv
    BY TypeInit
<1>2. CalendarInv
    BY Bounds DEF Init, CalendarInv, IsDigest, Idle
<1>3. TokenInv
    BY DEF Init, TokenInv, NoPref, Idle
<1>4. 0 <= isoWeekString(0) /\ isoWeekString(0) \in Nat
    BY WeeksGrow
<1>5. WeekInv
    BY <1>4 DEF Init, WeekInv, NoPref
<1> QED
    BY <1>1, <1>2, <1>3, <1>5 DEF MailInv

LEMMA MailStep == MailInv /\ [Next]_vars => MailInv'
BY TypeStep, CalendarStep, TokenStep, WeekStep DEF MailInv

LEMMA MailCorrect == Spec => []MailInv
BY MailInit, MailStep, PTL DEF Spec
-----------------------------------------------------------------------------
(***************************************************************************)
(* OnlyLatestLink holds: a row's token is that of the last digest claimed, *)
(* and a digest that arrived was claimed.                                  *)
(***************************************************************************)
THEOREM OnlyTheLatestLinkWorks == Spec => []OnlyLatestLink
<1>1. MailInv => OnlyLatestLink
    <2> SUFFICES ASSUME MailInv, NEW m \in received, NEW n \in received,
                        m[1] = n[1], pref[n[1]].token = n[2]
                 PROVE  m[2] <= n[2]
        BY DEF OnlyLatestLink
    <2>1. n[1] \in User /\ TokenInv /\ TypeOK
        BY DEF MailInv, TypeInv, TypeOK
    <2>2. Len(digests[n[1]]) \in Nat /\ n[2] = Len(digests[n[1]]) /\ m[2] \in 1..Len(digests[n[1]])
        BY <2>1 DEF TokenInv, TypeOK
    <2> QED
        BY <2>2
<1> QED
    BY <1>1, MailCorrect, PTL

(* A run's claim is the abstract Send of the week.                         *)
LEMMA ClaimSends ==
    ASSUME MailInv, NEW r \in Run, Claims(r)
    PROVE  Digest!Send(frame[r].user, isoWeekString(day)) /\ isoWeekString(day) \in 0..isoWeekString(MaxDay)
<1> DEFINE u == frame[r].user
           week == isoWeekString(day)
<1>0. TypeInv /\ CalendarInv /\ WeekInv /\ TypeOK /\ day \in Nat
    BY DEF MailInv, TypeInv, TypeOK
<1>1. u \in User /\ week \in Nat /\ CanClaim(u, week) /\ digests' = [digests EXCEPT ![u] = Append(@, week)]
    BY <1>0, ClaimSteps
<1>2. week <= isoWeekString(MaxDay) /\ isoWeekString(MaxDay) \in Nat
    BY <1>0, Bounds, WeeksGrow DEF CalendarInv
<1>3. pref[u].week < week /\ pref[u].week \in Int
    BY <1>0, <1>1, PrefFields DEF WeekInv, CanClaim
<1> HIDE DEF week, u
<1>4. \A i \in 1..Len(digests[u]) : digests[u][i] \in Nat /\ digests[u][i] <= pref[u].week
    BY <1>0, <1>1 DEF WeekInv, TypeOK
<1>5. \A i \in 1..Len(digests[u]) : digests[u][i] # week
    BY <1>1, <1>3, <1>4
<1> QED
    BY <1>1, <1>2, <1>5 DEF Digest!Send, week, u

(***************************************************************************)
(* DigestOnce holds: the digests refine OncePerPeriod, so redelivery,      *)
(* overlapping runs and crashes mail nobody two digests of one week.       *)
(***************************************************************************)
THEOREM DigestsAreOnce == Spec => DigestOnce
<1>1. Init => Digest!Init
    BY DEF Init, Digest!Init
<1>2. MailInv /\ [Next]_vars => [Digest!Next]_digests
    <2> SUFFICES ASSUME MailInv, [Next]_vars PROVE [Digest!Next]_digests
        OBVIOUS
    <2>1. CASE \A r \in Run : ~Claims(r)
        BY <2>1, OtherSteps DEF MailInv
    <2>2. ASSUME NEW r \in Run, Claims(r) PROVE Digest!Next
        <3>1. frame[r].user \in User
            BY <2>2, ClaimSteps DEF MailInv
        <3> QED
            BY <2>2, <3>1, ClaimSends DEF Digest!Next
    <2> QED
        BY <2>1, <2>2
<1> QED
    BY <1>1, <1>2, MailCorrect, PTL DEF Spec, DigestOnce, Digest!Spec
-----------------------------------------------------------------------------
(***************************************************************************)
(* OptOutHolds holds: a digest is claimed for an enabled row only, and no  *)
(* claim, link or later run turns a row on again.                          *)
(***************************************************************************)
THEOREM OptOutsHold == Spec => []OptOutHolds
<1>1. Init => OptOutHolds
    BY DEF Init, OptOutHolds
<1>2. TypeInv /\ OptOutHolds /\ [Next]_vars => OptOutHolds'
    <2> SUFFICES ASSUME TypeInv, OptOutHolds, [Next]_vars PROVE OptOutHolds'
        OBVIOUS
    <2>0. TypeOK /\ RecipientInv
        BY DEF TypeInv
    <2>1. ASSUME UNCHANGED <<pref, optedOut>> PROVE OptOutHolds'
        BY <2>1 DEF OptOutHolds
    <2>2. ASSUME NEW u \in User, NEW row \in Pref, pref' = [pref EXCEPT ![u] = row],
                 u \in optedOut' => ~row.enabled, optedOut' \subseteq optedOut \cup {u}
          PROVE  OptOutHolds'
        <3>1. pref'[u] = row /\ row # NoPref
            BY <2>0, <2>2, PrefIsNotNoPref DEF TypeOK
        <3>2. ASSUME NEW w \in optedOut', w # u PROVE w \in optedOut /\ pref'[w] = pref[w]
            BY <2>0, <2>2, <3>2 DEF TypeOK
        <3> QED
            BY <2>2, <3>1, <3>2 DEF OptOutHolds
    <2>3. ASSUME NEW u \in User, NEW on \in BOOLEAN, setEnabled(u, on) PROVE OptOutHolds'
        BY <2>0, <2>2, <2>3, EnabledPref DEF setEnabled
    <2>4. ASSUME NEW u \in User, NEW k \in 1..Len(digests[u]), resolveDigestUnsubscribe(u, k)
          PROVE  OptOutHolds'
        <3>1. pref[u] # NoPref
            BY <2>0, <2>4 DEF resolveDigestUnsubscribe, NoPref, TypeOK
        <3> QED
            BY <2>0, <2>2, <2>4, <3>1, UnsubscribedPref DEF resolveDigestUnsubscribe
    <2>5. ASSUME NEW r \in Run, setDefault(r) PROVE OptOutHolds'
        <3>1. frame[r].user \in User
            BY <2>0, <2>5 DEF setDefault, RecipientInv
        <3> QED
            BY <2>0, <2>2, <2>5, <3>1, EnabledPref DEF setDefault
    <2>6. ASSUME NEW r \in Run, claimWeekAndRotateToken(r) PROVE OptOutHolds'
        <3> DEFINE u == frame[r].user
                   week == isoWeekString(frame[r].at)
        <3>1. u \in User /\ week \in Nat
            BY <2>0, <2>6, FrameFields, WeeksGrow
            DEF claimWeekAndRotateToken, RecipientInv, IsDigest, DigestRun
        <3>2. CASE CanClaim(u, week)
            <4>1. ClaimedRow(u, week) \in Pref /\ u \notin optedOut
                BY <2>0, <3>1, <3>2, ClaimedPref DEF CanClaim, OptOutHolds
            <4>2. pref' = [pref EXCEPT ![u] = ClaimedRow(u, week)] /\ optedOut' = optedOut
                BY <2>6, <3>2 DEF claimWeekAndRotateToken
            <4> QED
                BY <2>2, <3>1, <4>1, <4>2
        <3>3. CASE ~CanClaim(u, week)
            BY <2>1, <2>6, <3>3 DEF claimWeekAndRotateToken
        <3> QED
            BY <3>2, <3>3
    <2>7. CASE Tick \/ UNCHANGED vars
        BY <2>1, <2>7 DEF Tick, vars
    <2>8. ASSUME NEW r \in Run, NEW u \in User, getForUser(r, u) PROVE OptOutHolds'
        BY <2>1, <2>8 DEF getForUser
    <2>9. ASSUME NEW r \in Run,
                 \/ BeginDigest(r) \/ sendDigest(r) \/ DigestDone(r) \/ BeginMemo(r) \/ claimMonth(r)
                 \/ RunDies(r)
          PROVE  OptOutHolds'
        BY <2>1, <2>9 DEF BeginDigest, sendDigest, DigestDone, BeginMemo, claimMonth, RunDies
    <2>10. ASSUME NEW u, NEW as, Join(u, as) PROVE OptOutHolds'
        BY <2>1, <2>10 DEF Join
    <2>11. ASSUME NEW on, setExecReport(on) PROVE OptOutHolds'
        BY <2>1, <2>11 DEF setExecReport
    <2> QED
        BY <2>3, <2>4, <2>5, <2>6, <2>7, <2>8, <2>9, <2>10, <2>11
        DEF Next, runWeeklyDigest, runMonthlyExecReport
<1> QED
    BY <1>1, <1>2, TypeCorrect, TypeInit, TypeStep, PTL DEF Spec
-----------------------------------------------------------------------------
(* What a step does to the memos, and to when a memo run began.            *)
LEMMA MemoSteps ==
    ASSUME TypeInv, [Next]_vars
    PROVE  \/ memos' = memos /\ execReport'.month = execReport.month
           \/ \E r \in Run : LET month == monthKey(frame[r].at) IN
                  /\ IsMemo(r) /\ CanClaimMonth(month) /\ day' = day
                  /\ memos' = Append(memos, month)
                  /\ execReport' = [execReport EXCEPT !.month = month]
<1>0. execReport \in ExecReport
    BY DEF TypeInv, TypeOK
<1>1. CASE \E on \in BOOLEAN : setExecReport(on)
    BY <1>0, <1>1 DEF setExecReport, ExecReport
<1>2. ASSUME NEW r \in Run, claimMonth(r)
      PROVE  \/ memos' = memos /\ execReport' = execReport
             \/ LET month == monthKey(frame[r].at) IN
                  /\ IsMemo(r) /\ CanClaimMonth(month) /\ day' = day
                  /\ memos' = Append(memos, month)
                  /\ execReport' = [execReport EXCEPT !.month = month]
    BY <1>2 DEF claimMonth, IsMemo
<1>3. ASSUME NEW r \in Run, runWeeklyDigest(r) \/ BeginMemo(r) \/ RunDies(r)
      PROVE  UNCHANGED <<memos, execReport>>
    BY <1>3 DEF runWeeklyDigest, BeginDigest, getForUser, setDefault, claimWeekAndRotateToken, sendDigest,
                DigestDone, BeginMemo, RunDies
<1>4. ASSUME \/ Tick \/ UNCHANGED vars
             \/ \E u \in User, as \in {"manager", "admin"} : Join(u, as)
             \/ \E u \in User, on \in BOOLEAN : setEnabled(u, on)
             \/ \E u \in User : \E k \in 1..Len(digests[u]) : resolveDigestUnsubscribe(u, k)
      PROVE  UNCHANGED <<memos, execReport>>
    BY <1>4 DEF Tick, vars, Join, setEnabled, resolveDigestUnsubscribe
<1> QED
    BY <1>1, <1>2, <1>3, <1>4 DEF Next, runMonthlyExecReport

(* A memo run that is not over midnight claims on the day it began.        *)
LEMMA MemoFrames ==
    ASSUME TypeInv, MemoInv, ~MemoSpans, [Next]_vars
    PROVE  /\ day' \in Nat /\ day <= day'
           /\ \A q \in Run : IsMemo(q)' => frame'[q].at = day'
<1> DEFINE At == \A q \in Run : IsMemo(q)' => frame'[q].at = day
           Same == day' = day /\ At
<1>0. TypeOK /\ day \in Nat /\ \A q \in Run : IsMemo(q) => frame[q].at = day
    BY DEF TypeInv, TypeOK, MemoInv
<1>1. ASSUME NEW r \in Run, NEW f, frame' = [frame EXCEPT ![r] = f], f.pc # "memo" PROVE At
    BY <1>0, <1>1 DEF IsMemo, TypeOK
<1>2. ASSUME UNCHANGED frame PROVE At
    BY <1>0, <1>2 DEF IsMemo
<1>3. ASSUME NEW r \in Run, NEW u \in User, getForUser(r, u) PROVE Same
    <2> DEFINE rest == [frame[r] EXCEPT !.todo = @ \ {u}]
               f == IF pref[u] = NoPref /\ rest.personal
                    THEN [rest EXCEPT !.pc = "default", !.user = u]
                    ELSE IF pref[u].enabled THEN [rest EXCEPT !.pc = "claim", !.user = u] ELSE rest
    <2>1. frame[r] \in DigestRun /\ frame[r].pc = "next"
        BY <1>0, <1>3, FrameFields DEF getForUser, IsDigest
    <2>2. f.pc # "memo"
        BY <2>1 DEF DigestRun
    <2>3. frame' = [frame EXCEPT ![r] = f] /\ UNCHANGED day
        BY <1>3 DEF getForUser
    <2> HIDE DEF f
    <2> QED
        BY <1>1, <2>2, <2>3
<1>4. ASSUME NEW r \in Run, setDefault(r) \/ claimWeekAndRotateToken(r) \/ sendDigest(r) PROVE Same
    <2>1. frame[r] \in DigestRun /\ UNCHANGED day
        BY <1>0, <1>4, FrameFields DEF setDefault, claimWeekAndRotateToken, sendDigest, IsDigest
    <2> DEFINE e == [frame[r] EXCEPT !.pc = "claim"]
               f == [frame[r] EXCEPT !.pc = "send", !.token = Len(digests[frame[r].user]) + 1]
               g == [frame[r] EXCEPT !.pc = "next", !.user = NoUser, !.token = 0]
    <2>2. e.pc # "memo" /\ f.pc # "memo" /\ g.pc # "memo"
        BY <2>1 DEF DigestRun
    <2>3. \/ frame' = [frame EXCEPT ![r] = e] \/ frame' = [frame EXCEPT ![r] = f]
          \/ frame' = [frame EXCEPT ![r] = g]
        BY <1>4 DEF setDefault, claimWeekAndRotateToken, sendDigest, NextRecipient
    <2> HIDE DEF e, f, g
    <2> QED
        BY <1>1, <2>1, <2>2, <2>3
<1>5. ASSUME NEW r \in Run, DigestDone(r) \/ RunDies(r) \/ claimMonth(r) PROVE Same
    <2>1. frame' = [frame EXCEPT ![r] = Idle] /\ UNCHANGED day /\ Idle.pc # "memo"
        BY <1>5 DEF DigestDone, RunDies, claimMonth, Return, Idle
    <2> QED
        BY <1>1, <2>1
<1>6. ASSUME NEW r \in Run, BeginDigest(r) PROVE Same
    <2> DEFINE f == [pc |-> "next", at |-> day, personal |-> Cardinality(Members) <= 1,
                     todo |-> {u \in User : role[u] \in
                                   (IF Cardinality(Members) <= 1 THEN {"admin"} ELSE {"admin", "manager"})},
                     user |-> NoUser, token |-> 0]
    <2>1. f.pc # "memo"
        OBVIOUS
    <2>2. (frame' = frame \/ frame' = [frame EXCEPT ![r] = f]) /\ UNCHANGED day
        BY <1>6 DEF BeginDigest
    <2> HIDE DEF f
    <2> QED
        BY <1>1, <1>2, <2>1, <2>2
<1>7. ASSUME NEW r \in Run, BeginMemo(r) PROVE Same
    <2> DEFINE f == [pc |-> "memo", at |-> day]
    <2>1. f.at = day
        OBVIOUS
    <2>2. (frame' = frame \/ frame' = [frame EXCEPT ![r] = f]) /\ UNCHANGED day
        BY <1>7 DEF BeginMemo
    <2> HIDE DEF f
    <2>3. CASE frame' = [frame EXCEPT ![r] = f]
        BY <1>0, <2>1, <2>2, <2>3 DEF IsMemo, TypeOK
    <2>4. CASE frame' = frame
        BY <1>2, <2>2, <2>4
    <2> QED
        BY <2>2, <2>3, <2>4
<1>8. ASSUME UNCHANGED <<day, frame>> PROVE Same
    BY <1>2, <1>8
<1>9. CASE Tick
    <2>1. \A q \in Run : ~IsMemo(q)
        BY <1>9 DEF Tick
    <2> QED
        BY <1>0, <1>9, <2>1 DEF Tick, IsMemo
<1>10. CASE ~Tick
    <2> HIDE DEF Same
    <2>1. Same
        BY <1>3, <1>4, <1>5, <1>6, <1>7, <1>8, <1>10
        DEF Next, vars, runWeeklyDigest, runMonthlyExecReport, Join, setEnabled, resolveDigestUnsubscribe,
            setExecReport
    <2> QED
        BY <1>0, <2>1 DEF Same
<1> QED
    BY <1>9, <1>10

LEMMA MemoStep == TypeInv /\ MemoInv /\ ~MemoSpans /\ [Next]_vars => MemoInv'
<1> SUFFICES ASSUME TypeInv, MemoInv, ~MemoSpans, [Next]_vars PROVE MemoInv'
    OBVIOUS
<1>0. /\ TypeOK /\ day \in Nat /\ execReport \in ExecReport /\ execReport.month \in Int
      /\ memos \in Seq(Nat) /\ execReport.month <= monthKey(day)
      /\ \A i \in 1..Len(memos) : memos[i] \in Nat /\ memos[i] <= execReport.month
    BY DEF TypeInv, TypeOK, ExecReport, Never, MemoInv
<1>1. /\ day' \in Nat /\ day <= day'
      /\ \A q \in Run : IsMemo(q)' => frame'[q].at = day'
    BY MemoFrames
<1>2. monthKey(day) \in Nat /\ monthKey(day') \in Nat /\ monthKey(day) <= monthKey(day')
    BY <1>0, <1>1, MonthsGrow
<1>3. (monthKey(day))' = monthKey(day')
    BY DEF monthKey
<1>4. CASE memos' = memos /\ execReport'.month = execReport.month
    BY <1>0, <1>1, <1>2, <1>3, <1>4 DEF MemoInv
<1>5. ASSUME NEW r \in Run, IsMemo(r), day' = day, memos' = Append(memos, monthKey(frame[r].at)),
             execReport' = [execReport EXCEPT !.month = monthKey(frame[r].at)]
      PROVE  MemoInv'
    <2> DEFINE month == monthKey(day)
    <2>1. frame[r].at = day
        BY <1>5 DEF MemoInv
    <2>2. memos' = Append(memos, month) /\ execReport'.month = month
        BY <1>0, <1>5, <2>1 DEF ExecReport
    <2> HIDE DEF month
    <2>3. month \in Nat /\ month = monthKey(day')
        BY <1>2, <1>5 DEF month
    <2>4. \A i \in 1..Len(memos') : memos'[i] <= month
        BY <1>0, <2>2, <2>3 DEF month
    <2> QED
        BY <1>1, <1>3, <2>2, <2>3, <2>4 DEF MemoInv
<1> QED
    BY <1>4, <1>5, MemoSteps

(***************************************************************************)
(* MemoOnce holds when no memo run spans midnight: the memos refine        *)
(* OncePerPeriod, one for the organisation each month.                     *)
(***************************************************************************)
THEOREM MemosAreOnce == ASSUME ~MemoSpans PROVE Spec => MemoOnce
<1>1. Init => Memo!Init
    BY DEF Init, Memo!Init
<1>2. Init => MemoInv
    <2>1. 0 \in Nat /\ monthKey(0) \in Nat
        BY MonthsGrow
    <2> QED
        BY <2>1 DEF Init, MemoInv, Never, Idle, IsMemo
<1>3. TypeInv /\ MemoInv /\ [Next]_vars => MemoInv'
    BY MemoStep
<1>4. TypeInv /\ CalendarInv /\ MemoInv /\ [Next]_vars => [Memo!Next]_([o \in {"organisation"} |-> memos])
    <2> SUFFICES ASSUME TypeInv, CalendarInv, MemoInv, [Next]_vars
                 PROVE  [Memo!Next]_([o \in {"organisation"} |-> memos])
        OBVIOUS
    <2>0. /\ TypeOK /\ day \in Nat /\ execReport.month \in Int /\ memos \in Seq(Nat)
          /\ execReport.month <= monthKey(day)
          /\ \A i \in 1..Len(memos) : memos[i] \in Nat /\ memos[i] <= execReport.month
        BY DEF TypeInv, TypeOK, ExecReport, Never, MemoInv
    <2>1. CASE memos' = memos
        BY <2>1
    <2>2. ASSUME NEW r \in Run, IsMemo(r), CanClaimMonth(monthKey(frame[r].at)),
                 memos' = Append(memos, monthKey(frame[r].at))
          PROVE  Memo!Next
        <3> DEFINE month == monthKey(day)
        <3>1. frame[r].at = day
            BY <2>2 DEF MemoInv
        <3>2. month \in Nat /\ month <= monthKey(MaxDay) /\ monthKey(MaxDay) \in Nat
            BY <2>0, Bounds, MonthsGrow DEF CalendarInv
        <3>3. execReport.month # month /\ memos' = Append(memos, month)
            BY <2>2, <3>1 DEF CanClaimMonth
        <3> HIDE DEF month
        <3>4. \A i \in 1..Len(memos) : memos[i] # month
            BY <2>0, <3>2, <3>3 DEF month
        <3>5. Memo!Send("organisation", month)
            BY <3>3, <3>4 DEF Memo!Send
        <3>6. month \in 0..monthKey(MaxDay)
            BY <3>2
        <3> QED
            BY <3>5, <3>6 DEF Memo!Next
    <2> QED
        BY <2>1, <2>2, MemoSteps
<1> QED
    BY <1>1, <1>2, <1>3, <1>4, MailCorrect, PTL DEF Spec, MemoOnce, Memo!Spec, MailInv
=============================================================================

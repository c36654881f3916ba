---------------------------- MODULE SeatBilling ----------------------------
(***************************************************************************)
(* One organisation's subscriptions: the row Paddle's webhooks keep for    *)
(* each, the entitlement derived from the rows, the checkout that starts   *)
(* one, and the daily job that reports the tracked users to Paddle as the  *)
(* seat quantity.  Webhooks come in any order and more than once; queue    *)
(* messages come at least once and to several consumers.                   *)
(***************************************************************************)
EXTENDS Integers, FiniteSets

CONSTANTS Subscription,  \* paddle_subscription_id, as naturals: ids are ordered
          Meter,         \* concurrent queue consumers
          Statuses,      \* the statuses Paddle gives a subscription
          MaxSeats,      \* bound: tracked users
          MaxChanges,    \* bound: changes of the tracked users
          MaxEvents,     \* bound: events when Paddle last changes one by itself
          MaxCopies,     \* bound: queued messages of one subscription
          MaxFaults,     \* bound: repeated deliveries, failed calls and crashes
          MayShrink,     \* can there be fewer tracked users than before?
          MayFail,       \* can a PATCH Paddle would accept fail?
          MayCrash       \* can a consumer die with its message unacknowledged?

ASSUME BoundsAssumption ==
    /\ Subscription \subseteq Nat
    /\ Statuses \subseteq {"active", "trialing", "past_due", "paused", "canceled"}
    /\ MaxSeats \in Nat \ {0}
    /\ {MaxChanges, MaxEvents, MaxCopies, MaxFaults} \subseteq Nat
    /\ {MayShrink, MayFail, MayCrash} \subseteq BOOLEAN

VARIABLES
    tracked, changes, \* billing.trackedUsers over the trailing 30 days
    paddle, clock,    \* Paddle's subscriptions and its event time
    events,           \* webhooks Paddle has still to get acknowledged
    rows,             \* the subscriptions table
    messages,         \* queued meter-subscription messages, of each subscription
    frame,            \* one frame per meterSubscription call
    faults

usage   == <<tracked, changes>>
vendor  == <<paddle, clock>>
vars    == <<usage, vendor, events, rows, messages, frame, faults>>

KNOWN_STATUSES     == {"active", "trialing", "past_due", "paused", "canceled"}
ENTITLING_STATUSES == {"active", "trialing", "past_due"}

Seats == 1..MaxSeats
Row   == [status : KNOWN_STATUSES, quantity : Seats, at : Nat \ {0}]
NoRow == [status |-> "none", quantity |-> 1, at |-> 0]
Idle  == [pc |-> "idle"]
Claim == [pc : {"claim", "patch", "rollback", "ack"},
          sub : Subscription, expected : Seats, quantity : Seats]

TypeOK ==
    /\ tracked \in 0..MaxSeats
    /\ changes \in 0..MaxChanges
    /\ paddle \in [Subscription -> [status : {"none", "checkout"} \cup KNOWN_STATUSES,
                                    quantity : Seats]]
    /\ clock \in Nat
    /\ events \subseteq [sub : Subscription, row : Row]
    /\ rows \in [Subscription -> Row \cup {NoRow}]
    /\ messages \in [Subscription -> Nat]
    /\ frame \in [Meter -> {Idle} \cup [pc : {"count"}, sub : Subscription]
                           \cup [pc : {"reread"}, sub : Subscription, quantity : Seats]
                           \cup Claim]
    /\ faults \in 0..MaxFaults

Init ==
    /\ tracked \in 0..MaxSeats
    /\ changes = 0
    /\ paddle = [s \in Subscription |-> [status |-> "none", quantity |-> 1]]
    /\ clock = 0
    /\ events = {}
    /\ rows = [s \in Subscription |-> NoRow]
    /\ messages = [s \in Subscription |-> 0]
    /\ frame = [m \in Meter |-> Idle]
    /\ faults = 0

Fault == faults < MaxFaults /\ faults' = faults + 1
-----------------------------------------------------------------------------
(* The rows.                                                               *)

Stored == {s \in Subscription : rows[s] # NoRow}

Entitling == {s \in Stored : rows[s].status \in ENTITLING_STATUSES}

\* The entitling row with the newest event, by id among equals.
current ==
    CHOOSE s \in Entitling : \A t \in Entitling :
        rows[t].at < rows[s].at \/ (rows[t].at = rows[s].at /\ t <= s)

\* Mistaken: the tracked users as they are.
SeatCountUnfloored == tracked

\* At least one seat is billed.
currentSeatCount == IF tracked = 0 THEN 1 ELSE tracked

\* Mistaken: the event that comes last wins.
ApplyInAnyOrder(event) == rows' = [rows EXCEPT ![event.sub] = event.row]

\* The upsert, guarded by event time.
applyPaddleSubscriptionEvent(event) ==
    rows' = IF rows[event.sub].at < event.row.at
            THEN [rows EXCEPT ![event.sub] = event.row] ELSE rows

CanClaim(claim) ==
    claim.sub \in Stored /\ rows[claim.sub].quantity = claim.expected

\* setQuantityIf leaves the event time alone.
setQuantityIf(sub, expected, next) ==
    rows' = IF rows[sub] # NoRow /\ rows[sub].quantity = expected
            THEN [rows EXCEPT ![sub].quantity = next] ELSE rows
-----------------------------------------------------------------------------
(* Usage, checkout and Paddle.                                             *)

TrackedChanges(count) ==
    /\ changes < MaxChanges
    /\ MayShrink \/ count > tracked
    /\ tracked' = count
    /\ changes' = changes + 1
    /\ UNCHANGED <<vendor, events, rows, messages, frame, faults>>

\* An administrator opens a checkout: no subscription but canceled ones.
startCheckout(s) ==
    /\ \A t \in Stored : rows[t].status = "canceled"
    /\ paddle[s].status = "none"
    /\ paddle' = [paddle EXCEPT ![s] = [status |-> "checkout", quantity |-> currentSeatCount]]
    /\ UNCHANGED <<usage, clock, events, rows, messages, frame, faults>>

\* Paddle changes a subscription and sends a webhook with its new state.
Emit(s, status, quantity) ==
    /\ clock' = clock + 1
    /\ paddle' = [paddle EXCEPT ![s] = [status |-> status, quantity |-> quantity]]
    /\ events' = events \cup
           {[sub |-> s, row |-> [status |-> status, quantity |-> quantity, at |-> clock + 1]]}

\* Payment, renewal, dunning, pause, cancellation, recovery; canceled is final.
PaddleChanges(s, status) ==
    /\ clock < MaxEvents
    /\ IF paddle[s].status = "checkout" THEN status \in {"active", "trialing"}
       ELSE paddle[s].status \in KNOWN_STATUSES \ {"canceled"}
    /\ Emit(s, status, paddle[s].quantity)
    /\ UNCHANGED <<usage, rows, messages, frame, faults>>

\* handlePaddleWebhook: the answer reaches Paddle or is repeated.
Webhook(event) ==
    /\ event \in events
    /\ applyPaddleSubscriptionEvent(event)
    /\ \/ events' = events \ {event} /\ UNCHANGED faults
       \/ UNCHANGED events /\ Fault
    /\ UNCHANGED <<usage, vendor, messages, frame>>
-----------------------------------------------------------------------------
(* Metering.                                                               *)

\* The daily cron: listSubscriptionsToMeter.
DispatchMetering ==
    /\ messages' = [s \in Subscription |->
           IF rows[s].status \in {"active", "trialing"} /\ messages[s] < MaxCopies
           THEN messages[s] + 1 ELSE messages[s]]
    /\ UNCHANGED <<usage, vendor, events, rows, frame, faults>>

\* A consumer gets the message, and another may get it once more.
Receive(m, s) ==
    /\ frame[m] = Idle
    /\ messages[s] > 0
    /\ frame' = [frame EXCEPT ![m] = [pc |-> "count", sub |-> s]]
    /\ \/ messages' = [messages EXCEPT ![s] = @ - 1] /\ UNCHANGED faults
       \/ UNCHANGED messages /\ Fault
    /\ UNCHANGED <<usage, vendor, events, rows>>

\* message.ack().
Acknowledge(m) == frame' = [frame EXCEPT ![m] = Idle]

\* message.retry(): the queue delivers it again.
Retry(m) ==
    /\ messages' = [messages EXCEPT ![frame[m].sub] = @ + 1]
    /\ frame' = [frame EXCEPT ![m] = Idle]

CountUsers(m) ==
    /\ frame[m].pc = "count"
    /\ frame' = [frame EXCEPT ![m] = [pc |-> "reread", sub |-> @.sub,
                                      quantity |-> currentSeatCount]]
    /\ UNCHANGED <<usage, vendor, events, rows, messages, faults>>

\* Is it still the subscription in force, meterable, and off its quantity?
ShouldMeter(m) ==
    /\ Entitling # {} /\ current = frame[m].sub
    /\ rows[current].status \in {"active", "trialing"}
    /\ rows[current].quantity # frame[m].quantity

Reread(m) ==
    /\ frame[m].pc = "reread"
    /\ \/ /\ ShouldMeter(m)
          /\ frame' = [frame EXCEPT ![m] = [pc |-> "claim", sub |-> @.sub,
                                            expected |-> rows[current].quantity,
                                            quantity |-> @.quantity]]
       \/ ~ShouldMeter(m) /\ Acknowledge(m)
    /\ UNCHANGED <<usage, vendor, events, rows, messages, faults>>

Goto(m, label) == frame' = [frame EXCEPT ![m].pc = label]

\* The compare-and-set before the charge.
ClaimQuantity(m) ==
    /\ frame[m].pc = "claim"
    /\ \/ /\ CanClaim(frame[m])
          /\ setQuantityIf(frame[m].sub, frame[m].expected, frame[m].quantity)
          /\ Goto(m, "patch")
       \/ ~CanClaim(frame[m]) /\ Acknowledge(m) /\ UNCHANGED rows
    /\ UNCHANGED <<usage, vendor, events, messages, faults>>

\* Never in dunning, nor before the first payment.
Accepts(s) == paddle[s].status \in {"active", "trialing"}

\* The PATCH, whose reply may be lost.
PatchApplied(m) ==
    /\ frame[m].pc = "patch"
    /\ Accepts(frame[m].sub)
    /\ Emit(frame[m].sub, paddle[frame[m].sub].status, frame[m].quantity)
    /\ \/ Goto(m, "ack") /\ UNCHANGED faults
       \/ MayFail /\ Goto(m, "rollback") /\ Fault
    /\ UNCHANGED <<usage, rows, messages>>

\* Refused, or never arrived.
PatchFailed(m) ==
    /\ frame[m].pc = "patch"
    /\ Goto(m, "rollback")
    /\ \/ ~Accepts(frame[m].sub) /\ UNCHANGED faults
       \/ MayFail /\ Fault
    /\ UNCHANGED <<usage, vendor, events, rows, messages>>

\* Mistaken: the claim stands.
RollbackNothing(m) ==
    /\ frame[m].pc = "rollback"
    /\ Retry(m)
    /\ UNCHANGED <<usage, vendor, events, rows, faults>>

\* Roll the claim back, if it still stands, and have the message retried.
Rollback(m) ==
    /\ frame[m].pc = "rollback"
    /\ setQuantityIf(frame[m].sub, frame[m].quantity, frame[m].expected)
    /\ Retry(m)
    /\ UNCHANGED <<usage, vendor, events, faults>>

Done(m) ==
    /\ frame[m].pc = "ack"
    /\ Acknowledge(m)
    /\ UNCHANGED <<usage, vendor, events, rows, messages, faults>>

\* The consumer dies, or the database fails under it: nothing is undone.
Crash(m) ==
    /\ MayCrash
    /\ frame[m] # Idle
    /\ Fault
    /\ Retry(m)
    /\ UNCHANGED <<usage, vendor, events, rows>>
-----------------------------------------------------------------------------
meterSubscription(m) ==
    \/ CountUsers(m) \/ Reread(m) \/ ClaimQuantity(m)
    \/ PatchApplied(m) \/ PatchFailed(m) \/ Rollback(m) \/ Done(m)

Next ==
    \/ \E count \in 0..MaxSeats : TrackedChanges(count)
    \/ \E s \in Subscription : startCheckout(s)
    \/ \E s \in Subscription, status \in Statuses : PaddleChanges(s, status)
    \/ \E event \in events : Webhook(event)
    \/ DispatchMetering
    \/ \E m \in Meter, s \in Subscription : Receive(m, s)
    \/ \E m \in Meter : meterSubscription(m) \/ Crash(m)

Spec == Init /\ [][Next]_vars

\* Paddle repeats a webhook until it is acknowledged, the cron recurs, the
\* queue delivers, and a consumer that runs gets on.
Fairness ==
    /\ WF_vars(\E event \in events : Webhook(event))
    /\ WF_vars(DispatchMetering)
    /\ \A m \in Meter : /\ WF_vars(\E s \in Subscription : Receive(m, s))
                        /\ WF_vars(meterSubscription(m))

FairSpec == Spec /\ Fairness
-----------------------------------------------------------------------------
(* Properties.                                                             *)

(***************************************************************************)
(* Once the row of a subscription says canceled it stays so: a stale       *)
(* webhook never grants access again (subscriptions.ts,                    *)
(* applyPaddleSubscriptionEvent: "must NOT re-grant access").              *)
(***************************************************************************)
CancellationSticks ==
    [][\A s \in Subscription : rows[s].status = "canceled" => rows'[s].status = "canceled"]_vars

(***************************************************************************)
(* Once every webhook is delivered, in whatever order, the organisation    *)
(* is on the Team plan exactly when Paddle has a subscription that grants  *)
(* it.                                                                     *)
(***************************************************************************)
SettledEntitlement ==
    events = {} => (Entitling # {} <=> \E s \in Subscription : paddle[s].status \in ENTITLING_STATUSES)

AtRest ==
    /\ events = {}
    /\ messages = [s \in Subscription |-> 0]
    /\ frame = [m \in Meter |-> Idle]

(***************************************************************************)
(* When nothing is in flight the stored seats are the ones Paddle bills    *)
(* (subscriptions.ts, Entitlement.quantity: "Seats confirmed by Paddle"),  *)
(* however meter messages were duplicated, overlapped and failed.          *)
(***************************************************************************)
SettledSeats ==
    AtRest => \A s \in Entitling : rows[s].quantity = paddle[s].quantity

(***************************************************************************)
(* While one subscription stays meterable, the seats Paddle bills end up   *)
(* at the tracked users, and stay there (meter.ts, meterSubscription).     *)
(***************************************************************************)
SeatsConverge ==
    \A s \in Subscription :
        (<>[](paddle[s].status \in {"active", "trialing"}
              /\ \A t \in Subscription \ {s} : paddle[t].status \notin ENTITLING_STATUSES))
            => <>[](paddle[s].quantity = currentSeatCount)
=============================================================================

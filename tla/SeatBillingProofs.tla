------------------------ MODULE SeatBillingProofs ------------------------
(***************************************************************************)
(* Theorems of SeatBilling, for any subscriptions, consumers, statuses and *)
(* bounds: what the webhooks leave of a subscription, whatever the order   *)
(* and the number of their deliveries.                                     *)
(***************************************************************************)
EXTENDS SeatBilling, TLAPS

\* The statuses and seats of what Paddle sends and of what the table keeps.
RowsTyped ==
    /\ clock \in Nat
    /\ paddle \in [Subscription -> [status : {"none", "checkout"} \cup KNOWN_STATUSES,
                                    quantity : Seats]]
    /\ events \subseteq [sub : Subscription, row : Row]
    /\ rows \in [Subscription -> Row \cup {NoRow}]

\* Every claim is between two seat counts.
FramesTyped ==
    frame \in [Meter -> {Idle} \cup [pc : {"count"}, sub : Subscription]
                        \cup [pc : {"reread"}, sub : Subscription, quantity : Seats]
                        \cup Claim]

TypeInv ==
    /\ tracked \in 0..MaxSeats
    /\ changes \in 0..MaxChanges
    /\ messages \in [Subscription -> Nat]
    /\ faults \in 0..MaxFaults
    /\ RowsTyped
    /\ FramesTyped

\* Event times are Paddle's: none is ahead of its clock.
ClockInv ==
    /\ \A e \in events : e.row.at <= clock
    /\ \A s \in Subscription : rows[s].at <= clock

\* A subscription not started has sent nothing.
StartInv ==
    \A s \in Subscription :
        paddle[s].status \in {"none", "checkout"} =>
            rows[s] = NoRow /\ \A e \in events : e.sub # s

\* Events of one subscription at one time are one event.
UniqueInv ==
    /\ \A d, e \in events : d.sub = e.sub /\ d.row.at = e.row.at => d.row.status = e.row.status
    /\ \A e \in events : rows[e.sub].at = e.row.at => rows[e.sub].status = e.row.status

\* The row holds Paddle's last word, or an event not acknowledged does.
RowIsLast(s) ==
    /\ rows[s].status = paddle[s].status
    /\ \A e \in events : e.sub = s => e.row.at <= rows[s].at

EventIsLast(s, last) ==
    /\ last.sub = s
    /\ last.row.status = paddle[s].status
    /\ rows[s].at < last.row.at
    /\ \A e \in events : e.sub = s => e.row.at <= last.row.at

LastInv ==
    \A s \in Subscription :
        paddle[s].status \in KNOWN_STATUSES =>
            RowIsLast(s) \/ \E last \in events : EventIsLast(s, last)

\* A cancellation is the last event of its subscription.
CanceledInv ==
    /\ \A s \in Subscription :
           rows[s].status = "canceled" =>
               /\ paddle[s].status = "canceled"
               /\ \A e \in events : e.sub = s => e.row.at <= rows[s].at
    /\ \A c \in events :
           c.row.status = "canceled" =>
               /\ paddle[c.sub].status = "canceled"
               /\ rows[c.sub].at <= c.row.at
               /\ \A e \in events : e.sub = c.sub => e.row.at <= c.row.at

DeliveryInv ==
    RowsTyped /\ ClockInv /\ StartInv /\ UniqueInv /\ LastInv /\ CanceledInv

IInv == TypeInv /\ DeliveryInv
-----------------------------------------------------------------------------
LEMMA SeatCountIsSeats ==
    ASSUME BoundsAssumption, tracked \in 0..MaxSeats
    PROVE  currentSeatCount \in Seats
BY DEF currentSeatCount, Seats, BoundsAssumption

\* The compare-and-set moves the seats of one row and nothing else of it.
LEMMA ClaimsMoveSeats ==
    ASSUME RowsTyped, NEW sub \in Subscription, NEW expected, NEW next \in Seats,
           setQuantityIf(sub, expected, next)
    PROVE  /\ rows' \in [Subscription -> Row \cup {NoRow}]
           /\ \A s \in Subscription : /\ rows'[s].status = rows[s].status
                                      /\ rows'[s].at = rows[s].at
                                      /\ (rows'[s] = NoRow <=> rows[s] = NoRow)
<1>1. CASE rows[sub] # NoRow /\ rows[sub].quantity = expected
  <2>1. rows' = [rows EXCEPT ![sub].quantity = next]
    BY <1>1 DEF setQuantityIf
  <2>2. rows[sub] \in Row
    BY <1>1 DEF RowsTyped
  <2>3. [rows[sub] EXCEPT !.quantity = next] \in Row
    BY <2>2 DEF Row
  <2> QED
    BY <2>1, <2>2, <2>3 DEF RowsTyped, Row, NoRow
<1>2. CASE ~(rows[sub] # NoRow /\ rows[sub].quantity = expected)
  BY <1>2 DEF setQuantityIf, RowsTyped
<1> QED
  BY <1>1, <1>2

\* Delivery depends on the status and the event time of the rows alone.
LEMMA SeatsMoveKeepsDelivery ==
    ASSUME DeliveryInv, UNCHANGED <<vendor, events>>,
           rows' \in [Subscription -> Row \cup {NoRow}],
           \A s \in Subscription : /\ rows'[s].status = rows[s].status
                                  /\ rows'[s].at = rows[s].at
                                  /\ (rows'[s] = NoRow <=> rows[s] = NoRow)
    PROVE  DeliveryInv'
<1> USE DEF DeliveryInv, vendor
<1>1. RowsTyped'
  BY DEF RowsTyped
<1>2. \A e \in events : e.sub \in Subscription
  BY DEF RowsTyped
<1>3. ClockInv'
  BY DEF ClockInv
<1>4. StartInv'
  BY DEF StartInv
<1>5. UniqueInv'
  BY <1>2 DEF UniqueInv
<1>6. LastInv'
  BY DEF LastInv, RowIsLast, EventIsLast
<1>7. CanceledInv'
  BY <1>2 DEF CanceledInv
<1> QED
  BY <1>1, <1>3, <1>4, <1>5, <1>6, <1>7

\* A checkout that opens has no subscription yet.
LEMMA CheckoutKeepsDelivery ==
    ASSUME DeliveryInv, BoundsAssumption, NEW s \in Subscription,
           tracked \in 0..MaxSeats, startCheckout(s)
    PROVE  DeliveryInv'
<1> DEFINE opened == [status |-> "checkout", quantity |-> currentSeatCount]
<1>1. /\ paddle' = [paddle EXCEPT ![s] = opened]
      /\ UNCHANGED <<clock, events, rows>>
      /\ paddle[s].status = "none"
  BY DEF startCheckout
<1>2. opened \in [status : {"none", "checkout"} \cup KNOWN_STATUSES, quantity : Seats]
  BY SeatCountIsSeats
<1>3. RowsTyped'
  BY <1>1, <1>2 DEF DeliveryInv, RowsTyped
<1>4. \A t \in Subscription \ {s} : paddle'[t] = paddle[t]
  BY <1>1 DEF DeliveryInv, RowsTyped
<1>5. paddle'[s].status = "checkout"
  BY <1>1 DEF DeliveryInv, RowsTyped
<1>6. \A e \in events : e.sub \in Subscription
  BY DEF DeliveryInv, RowsTyped
<1>7. (ClockInv /\ UniqueInv)'
  BY <1>1 DEF DeliveryInv, ClockInv, UniqueInv
<1>8. StartInv'
  BY <1>1, <1>4, <1>5 DEF DeliveryInv, StartInv
<1>9. LastInv'
  <2> SUFFICES ASSUME NEW t \in Subscription, paddle'[t].status \in KNOWN_STATUSES
               PROVE  (RowIsLast(t) \/ \E last \in events : EventIsLast(t, last))'
    BY DEF LastInv
  <2>1. t # s
    BY <1>5 DEF KNOWN_STATUSES
  <2> QED
    BY <1>1, <1>4, <2>1 DEF DeliveryInv, LastInv, RowIsLast, EventIsLast
<1>10. CanceledInv'
  <2>1. \A t \in Subscription : paddle[t].status = "canceled" => paddle'[t].status = "canceled"
    BY <1>1, <1>4
  <2> QED
    BY <1>1, <1>6, <2>1 DEF DeliveryInv, CanceledInv
<1> QED
  BY <1>3, <1>7, <1>8, <1>9, <1>10 DEF DeliveryInv

\* A change Paddle makes is newer than all that came before.
LEMMA EmitKeepsDelivery ==
    ASSUME DeliveryInv, NEW s \in Subscription, NEW status \in KNOWN_STATUSES,
           NEW quantity \in Seats, Emit(s, status, quantity), UNCHANGED rows,
           paddle[s].status \in {"checkout"} \cup (KNOWN_STATUSES \ {"canceled"})
    PROVE  DeliveryInv'
<1>0. PICK fresh : fresh = [sub |-> s, row |-> [status |-> status, quantity |-> quantity,
                                                at |-> clock + 1]]
  OBVIOUS
<1>1. /\ clock' = clock + 1
      /\ paddle' = [paddle EXCEPT ![s] = [status |-> status, quantity |-> quantity]]
      /\ events' = events \cup {fresh}
      /\ rows' = rows
  BY <1>0 DEF Emit
<1>2. fresh.sub = s /\ fresh.row \in Row /\ fresh \in [sub : Subscription, row : Row]
  <2>1. clock + 1 \in Nat \ {0}
    BY DEF DeliveryInv, RowsTyped
  <2> QED
    BY <1>0, <2>1 DEF Row
<1>3. fresh.row.at = clock + 1 /\ fresh.row.status = status
  BY <1>0
<1>4. RowsTyped'
  BY <1>1, <1>2 DEF DeliveryInv, RowsTyped
<1>5. /\ \A t \in Subscription \ {s} : paddle'[t] = paddle[t]
      /\ paddle'[s].status = status
  BY <1>1 DEF DeliveryInv, RowsTyped
<1>6. /\ clock \in Nat
      /\ \A e \in events : e.sub \in Subscription /\ e.row.at \in Nat /\ e.row.at <= clock
      /\ \A t \in Subscription : rows[t].at \in Nat /\ rows[t].at <= clock
  BY DEF DeliveryInv, RowsTyped, ClockInv, Row, NoRow
<1>7. ClockInv'
  BY <1>1, <1>2, <1>3, <1>6 DEF ClockInv
<1>8. StartInv'
  BY <1>1, <1>2, <1>5 DEF DeliveryInv, StartInv, KNOWN_STATUSES
<1>9. UniqueInv'
  BY <1>1, <1>2, <1>3, <1>6 DEF DeliveryInv, UniqueInv
<1>10. LastInv'
  <2> SUFFICES ASSUME NEW t \in Subscription, paddle'[t].status \in KNOWN_STATUSES
               PROVE  (RowIsLast(t) \/ \E last \in events : EventIsLast(t, last))'
    BY DEF LastInv
  <2>1. CASE t = s
    <3>1. EventIsLast(t, fresh)'
      BY <1>1, <1>2, <1>3, <1>5, <1>6, <2>1 DEF EventIsLast
    <3> QED
      BY <1>1, <3>1
  <2>2. CASE t # s
    <3>1. paddle[t].status = paddle'[t].status
      BY <1>5, <2>2
    <3>2. CASE RowIsLast(t)
      BY <1>1, <1>2, <2>2, <3>1, <3>2 DEF RowIsLast
    <3>3. ASSUME NEW last \in events, EventIsLast(t, last)
          PROVE  EventIsLast(t, last)'
      BY <1>1, <1>2, <2>2, <3>1, <3>3 DEF EventIsLast
    <3> QED
      BY <1>1, <3>1, <3>2, <3>3 DEF DeliveryInv, LastInv
  <2> QED
    BY <2>1, <2>2
<1>11. paddle[s].status # "canceled"
  OBVIOUS
<1>12. CanceledInv'
  <2>1. \A e \in events : e.sub = s => e.row.status # "canceled"
    BY <1>11 DEF DeliveryInv, CanceledInv
  <2>2. rows[s].status # "canceled"
    BY <1>11 DEF DeliveryInv, CanceledInv
  <2>3. ASSUME NEW t \in Subscription, rows[t].status = "canceled"
        PROVE  /\ paddle'[t].status = "canceled"
               /\ \A e \in events' : e.sub = t => e.row.at <= rows[t].at
    <3>1. t # s
      BY <2>2, <2>3
    <3> QED
      BY <1>1, <1>2, <1>5, <2>3, <3>1 DEF DeliveryInv, CanceledInv
  <2>4. ASSUME NEW c \in events', c.row.status = "canceled"
        PROVE  /\ paddle'[c.sub].status = "canceled"
               /\ rows[c.sub].at <= c.row.at
               /\ \A e \in events' : e.sub = c.sub => e.row.at <= c.row.at
    <3>1. CASE c = fresh
      BY <1>1, <1>2, <1>3, <1>5, <1>6, <2>4, <3>1
    <3>2. CASE c \in events
      <4>1. c.sub # s /\ c.sub \in Subscription
        BY <1>6, <2>1, <2>4, <3>2
      <4> QED
        BY <1>1, <1>2, <1>5, <2>4, <3>2, <4>1 DEF DeliveryInv, CanceledInv
    <3> QED
      BY <1>1, <3>1, <3>2
  <2> QED
    BY <1>1, <2>3, <2>4 DEF CanceledInv
<1> QED
  BY <1>4, <1>7, <1>8, <1>9, <1>10, <1>12 DEF DeliveryInv

\* A webhook moves its row to the event or leaves it, by event time alone.
LEMMA WebhookKeepsDelivery ==
    ASSUME DeliveryInv, NEW event \in events, applyPaddleSubscriptionEvent(event),
           events' \in {events, events \ {event}}, UNCHANGED vendor
    PROVE  /\ DeliveryInv'
           /\ \A s \in Subscription :
                  rows[s].status = "canceled" => rows'[s].status = "canceled"
<1> DEFINE s == event.sub
<1>1. UNCHANGED <<paddle, clock>> /\ events' \subseteq events
  BY DEF vendor
<1>2. s \in Subscription /\ event.row \in Row
  BY DEF DeliveryInv, RowsTyped
<1>3. /\ \A e \in events : e.sub \in Subscription /\ e.row.at \in Nat /\ e.row.at > 0
      /\ \A t \in Subscription : rows[t].at \in Nat
  BY DEF DeliveryInv, RowsTyped, Row, NoRow
<1>4. CASE event.row.at <= rows[s].at
  <2>1. rows' = rows
    BY <1>2, <1>3, <1>4 DEF applyPaddleSubscriptionEvent
  <2>2. RowsTyped' /\ ClockInv' /\ StartInv' /\ UniqueInv' /\ CanceledInv'
    BY <1>1, <2>1 DEF DeliveryInv, RowsTyped, ClockInv, StartInv, UniqueInv, CanceledInv
  <2>3. LastInv'
    <3> SUFFICES ASSUME NEW t \in Subscription, paddle[t].status \in KNOWN_STATUSES
                 PROVE  (RowIsLast(t) \/ \E last \in events : EventIsLast(t, last))'
      BY <1>1 DEF LastInv
    <3>1. CASE RowIsLast(t)
      BY <1>1, <2>1, <3>1 DEF RowIsLast
    <3>2. ASSUME NEW last \in events, EventIsLast(t, last)
          PROVE  last \in events' /\ EventIsLast(t, last)'
      <4>1. last # event
        BY <1>3, <1>4, <3>2 DEF EventIsLast
      <4> QED
        BY <1>1, <2>1, <3>2, <4>1 DEF EventIsLast
    <3> QED
      BY <3>1, <3>2 DEF DeliveryInv, LastInv
  <2> QED
    BY <2>1, <2>2, <2>3 DEF DeliveryInv
<1>5. CASE rows[s].at < event.row.at
  <2>1. /\ rows' = [rows EXCEPT ![s] = event.row]
        /\ rows'[s] = event.row
        /\ \A t \in Subscription \ {s} : rows'[t] = rows[t]
    BY <1>2, <1>5 DEF applyPaddleSubscriptionEvent, DeliveryInv, RowsTyped
  <2>2. rows[s].status # "canceled"
    BY <1>2, <1>3, <1>5 DEF DeliveryInv, CanceledInv
  <2>3. RowsTyped'
    BY <1>1, <1>2, <2>1 DEF DeliveryInv, RowsTyped
  <2>4. ClockInv'
    BY <1>1, <2>1 DEF DeliveryInv, ClockInv
  <2>5. StartInv'
    BY <1>1, <1>2, <2>1 DEF DeliveryInv, StartInv
  <2>6. UniqueInv'
    BY <1>1, <1>3, <2>1 DEF DeliveryInv, UniqueInv
  <2>7. LastInv'
    <3> SUFFICES ASSUME NEW t \in Subscription, paddle[t].status \in KNOWN_STATUSES
                 PROVE  (RowIsLast(t) \/ \E last \in events : EventIsLast(t, last))'
      BY <1>1 DEF LastInv
    <3>1. CASE RowIsLast(t)
      <4>1. t # s
        BY <1>3, <1>5, <3>1 DEF RowIsLast
      <4> QED
        BY <1>1, <2>1, <3>1, <4>1 DEF RowIsLast
    <3>2. ASSUME NEW last \in events, EventIsLast(t, last)
          PROVE  (RowIsLast(t) \/ \E e \in events : EventIsLast(t, e))'
      <4>1. CASE t # s
        <5>1. last \in events'
          BY <3>2, <4>1 DEF EventIsLast
        <5> QED
          BY <1>1, <2>1, <3>2, <4>1, <5>1 DEF EventIsLast
      <4>2. CASE t = s /\ event.row.at = last.row.at
        <5>1. event.row.status = last.row.status
          BY <3>2, <4>2 DEF DeliveryInv, UniqueInv, EventIsLast
        <5>2. RowIsLast(t)'
          BY <1>1, <2>1, <3>2, <4>2, <5>1 DEF EventIsLast, RowIsLast
        <5> QED
          BY <5>2
      <4>3. CASE t = s /\ event.row.at # last.row.at
        <5>1. event.row.at < last.row.at /\ last # event
          BY <1>3, <3>2, <4>3 DEF EventIsLast
        <5> QED
          BY <1>1, <2>1, <3>2, <4>3, <5>1 DEF EventIsLast
      <4> QED
        BY <4>1, <4>2, <4>3
    <3> QED
      BY <3>1, <3>2 DEF DeliveryInv, LastInv
  <2>8. CanceledInv'
    <3>1. ASSUME NEW t \in Subscription, rows'[t].status = "canceled"
          PROVE  /\ paddle[t].status = "canceled"
                 /\ \A e \in events : e.sub = t => e.row.at <= rows'[t].at
      <4>1. CASE t = s
        BY <2>1, <3>1, <4>1 DEF DeliveryInv, CanceledInv
      <4>2. CASE t # s
        BY <2>1, <3>1, <4>2 DEF DeliveryInv, CanceledInv
      <4> QED
        BY <4>1, <4>2
    <3>2. ASSUME NEW c \in events, c.row.status = "canceled"
          PROVE  /\ paddle[c.sub].status = "canceled"
                 /\ rows'[c.sub].at <= c.row.at
                 /\ \A e \in events : e.sub = c.sub => e.row.at <= c.row.at
      BY <1>3, <2>1, <3>2 DEF DeliveryInv, CanceledInv
    <3> QED
      BY <1>1, <3>1, <3>2 DEF CanceledInv
  <2> QED
    BY <2>1, <2>2, <2>3, <2>4, <2>5, <2>6, <2>7, <2>8 DEF DeliveryInv
<1> QED
  BY <1>2, <1>3, <1>4, <1>5
-----------------------------------------------------------------------------
\* What a frame holds, by where it is.
LEMMA FrameFields ==
    ASSUME FramesTyped, NEW m \in Meter
    PROVE  /\ frame[m] # Idle => frame[m].sub \in Subscription
           /\ frame[m].pc = "count" => frame[m] # Idle
           /\ frame[m].pc = "reread" => frame[m] # Idle /\ frame[m].quantity \in Seats
           /\ frame[m].pc \in {"claim", "patch", "rollback", "ack"} =>
                  frame[m] # Idle /\ frame[m] \in Claim
BY DEF FramesTyped, Idle, Claim

LEMMA GotoKeepsFrames ==
    ASSUME FramesTyped, NEW m \in Meter, frame[m] \in Claim,
           NEW label \in {"claim", "patch", "rollback", "ack"}, Goto(m, label)
    PROVE  FramesTyped'
<1>1. [frame[m] EXCEPT !.pc = label] \in Claim
  BY DEF Claim
<1>2. frame' = [frame EXCEPT ![m] = [frame[m] EXCEPT !.pc = label]]
  BY DEF Goto, FramesTyped
<1> QED
  BY <1>1, <1>2 DEF FramesTyped

\* A consumer that lets go of its message, or has it delivered again.
LEMMA LettingGoKeepsTypes ==
    ASSUME FramesTyped, messages \in [Subscription -> Nat], NEW m \in Meter, frame[m] # Idle
    PROVE  /\ Acknowledge(m) => FramesTyped'
           /\ Retry(m) => FramesTyped' /\ messages' \in [Subscription -> Nat]
<1>1. frame[m].sub \in Subscription
  BY FrameFields
<1> QED
  BY <1>1 DEF FramesTyped, Acknowledge, Retry

LEMMA InvInit ==
    ASSUME BoundsAssumption, Init
    PROVE  IInv
<1>1. TypeInv
  BY DEF Init, TypeInv, RowsTyped, FramesTyped, BoundsAssumption, Seats
<1>2. ClockInv /\ StartInv /\ UniqueInv
  BY DEF Init, ClockInv, StartInv, UniqueInv, NoRow
<1>3. LastInv /\ CanceledInv
  BY DEF Init, LastInv, CanceledInv, KNOWN_STATUSES, NoRow
<1> QED
  BY <1>1, <1>2, <1>3 DEF IInv, DeliveryInv, TypeInv

\* One more fault is still within the bound.
LEMMA FaultKeepsBound ==
    ASSUME BoundsAssumption, faults \in 0..MaxFaults
    PROVE  /\ Fault => faults' \in 0..MaxFaults
           /\ UNCHANGED faults => faults' \in 0..MaxFaults
BY DEF Fault, BoundsAssumption

LEMMA StepTypes ==
    ASSUME BoundsAssumption, TypeInv, DeliveryInv', Next
    PROVE  TypeInv'
<1> USE DEF TypeInv, DeliveryInv
<1>1. ASSUME NEW count \in 0..MaxSeats, TrackedChanges(count)
      PROVE  TypeInv'
  BY <1>1 DEF TrackedChanges, FramesTyped, BoundsAssumption
<1>2. ASSUME NEW s \in Subscription, startCheckout(s)
      PROVE  TypeInv'
  BY <1>2 DEF startCheckout, FramesTyped, usage
<1>3. ASSUME NEW s \in Subscription, NEW status \in Statuses, PaddleChanges(s, status)
      PROVE  TypeInv'
  BY <1>3 DEF PaddleChanges, FramesTyped, usage
<1>4. ASSUME NEW event \in events, Webhook(event)
      PROVE  TypeInv'
  BY <1>4, FaultKeepsBound DEF Webhook, FramesTyped, usage
<1>5. CASE DispatchMetering
  BY <1>5 DEF DispatchMetering, FramesTyped, usage
<1>6. ASSUME NEW m \in Meter, NEW s \in Subscription, Receive(m, s)
      PROVE  TypeInv'
  <2>1. FramesTyped'
    BY <1>6 DEF Receive, FramesTyped
  <2>2. messages' \in [Subscription -> Nat]
    BY <1>6 DEF Receive
  <2> QED
    BY <1>6, <2>1, <2>2, FaultKeepsBound DEF Receive, usage
<1>7. ASSUME NEW m \in Meter, meterSubscription(m) \/ Crash(m)
      PROVE  TypeInv'
  <2>1. CASE CountUsers(m)
    <3>1. currentSeatCount \in Seats /\ frame[m].sub \in Subscription
      BY <2>1, SeatCountIsSeats, FrameFields DEF CountUsers
    <3>2. FramesTyped'
      BY <2>1, <3>1 DEF CountUsers, FramesTyped
    <3> QED
      BY <2>1, <3>2 DEF CountUsers, usage
  <2>2. CASE Reread(m)
    <3>1. /\ frame[m] # Idle
          /\ frame[m].sub \in Subscription
          /\ frame[m].quantity \in Seats
      BY <2>2, FrameFields DEF Reread
    <3>2. FramesTyped'
      <4>1. CASE ShouldMeter(m)
        <5>1. rows[current].quantity \in Seats
          <6>1. rows[current] \in Row \cup {NoRow}
            BY <3>1, <4>1 DEF ShouldMeter, RowsTyped
          <6>2. rows[current].status # "none"
            BY <4>1 DEF ShouldMeter
          <6> QED
            BY <6>1, <6>2 DEF Row, NoRow
        <5> QED
          BY <2>2, <3>1, <4>1, <5>1 DEF Reread, FramesTyped, Claim
      <4>2. CASE ~ShouldMeter(m)
        BY <2>2, <3>1, <4>2, LettingGoKeepsTypes DEF Reread
      <4> QED
        BY <4>1, <4>2
    <3> QED
      BY <2>2, <3>2 DEF Reread, usage
  <2>3. CASE ClaimQuantity(m)
    <3>1. frame[m] # Idle /\ frame[m] \in Claim
      BY <2>3, FrameFields DEF ClaimQuantity
    <3>2. FramesTyped'
      BY <2>3, <3>1, LettingGoKeepsTypes, GotoKeepsFrames DEF ClaimQuantity
    <3> QED
      BY <2>3, <3>2 DEF ClaimQuantity, usage
  <2>4. CASE PatchApplied(m)
    <3>1. frame[m] \in Claim
      BY <2>4, FrameFields DEF PatchApplied
    <3>2. FramesTyped'
      BY <2>4, <3>1, GotoKeepsFrames DEF PatchApplied
    <3> QED
      BY <2>4, <3>2, FaultKeepsBound DEF PatchApplied, usage
  <2>5. CASE PatchFailed(m)
    <3>1. frame[m] \in Claim
      BY <2>5, FrameFields DEF PatchFailed
    <3>2. FramesTyped'
      BY <2>5, <3>1, GotoKeepsFrames DEF PatchFailed
    <3> QED
      BY <2>5, <3>2, FaultKeepsBound DEF PatchFailed, usage
  <2>6. CASE Rollback(m)
    <3>1. frame[m] # Idle
      BY <2>6, FrameFields DEF Rollback
    <3> QED
      BY <2>6, <3>1, LettingGoKeepsTypes DEF Rollback, usage
  <2>7. CASE Done(m)
    <3>1. frame[m] # Idle
      BY <2>7, FrameFields DEF Done
    <3> QED
      BY <2>7, <3>1, LettingGoKeepsTypes DEF Done, usage
  <2>8. CASE Crash(m)
    BY <2>8, LettingGoKeepsTypes, FaultKeepsBound DEF Crash, usage
  <2> QED
    BY <1>7, <2>1, <2>2, <2>3, <2>4, <2>5, <2>6, <2>7, <2>8 DEF meterSubscription
<1> QED
  BY <1>1, <1>2, <1>3, <1>4, <1>5, <1>6, <1>7 DEF Next

LEMMA StepDelivery ==
    ASSUME BoundsAssumption, IInv, Next
    PROVE  /\ DeliveryInv'
           /\ \A s \in Subscription :
                  rows[s].status = "canceled" => rows'[s].status = "canceled"
<1> USE DEF IInv
<1>1. ASSUME UNCHANGED <<vendor, events, rows>>
      PROVE  /\ DeliveryInv'
             /\ \A s \in Subscription :
                    rows[s].status = "canceled" => rows'[s].status = "canceled"
  BY <1>1, SeatsMoveKeepsDelivery DEF DeliveryInv, RowsTyped
<1>2. ASSUME NEW m \in Meter, NEW expected, NEW next \in Seats, frame[m].sub \in Subscription,
             setQuantityIf(frame[m].sub, expected, next), UNCHANGED <<vendor, events>>
      PROVE  /\ DeliveryInv'
             /\ \A s \in Subscription :
                    rows[s].status = "canceled" => rows'[s].status = "canceled"
  <2>1. RowsTyped
    BY DEF DeliveryInv
  <2>2. /\ rows' \in [Subscription -> Row \cup {NoRow}]
        /\ \A s \in Subscription : /\ rows'[s].status = rows[s].status
                                   /\ rows'[s].at = rows[s].at
                                   /\ (rows'[s] = NoRow <=> rows[s] = NoRow)
    BY <1>2, <2>1, ClaimsMoveSeats
  <2> QED
    BY <1>2, <2>2, SeatsMoveKeepsDelivery
<1>3. ASSUME NEW count \in 0..MaxSeats, TrackedChanges(count)
      PROVE  UNCHANGED <<vendor, events, rows>>
  BY <1>3 DEF TrackedChanges
<1>4. ASSUME NEW s \in Subscription, startCheckout(s)
      PROVE  DeliveryInv' /\ rows' = rows
  <2>1. rows' = rows
    BY <1>4 DEF startCheckout
  <2> QED
    BY <1>4, <2>1, CheckoutKeepsDelivery DEF TypeInv
<1>5. ASSUME NEW s \in Subscription, NEW status \in Statuses, PaddleChanges(s, status)
      PROVE  DeliveryInv' /\ rows' = rows
  <2>1. status \in KNOWN_STATUSES
    BY DEF BoundsAssumption, KNOWN_STATUSES
  <2>2. paddle[s].status \in {"checkout"} \cup (KNOWN_STATUSES \ {"canceled"})
    BY <1>5 DEF PaddleChanges
  <2>3. paddle[s].quantity \in Seats
    BY DEF DeliveryInv, RowsTyped
  <2>4. Emit(s, status, paddle[s].quantity) /\ rows' = rows
    BY <1>5 DEF PaddleChanges
  <2> QED
    BY <2>1, <2>2, <2>3, <2>4, EmitKeepsDelivery
<1>6. ASSUME NEW event \in events, Webhook(event)
      PROVE  /\ DeliveryInv'
             /\ \A s \in Subscription :
                    rows[s].status = "canceled" => rows'[s].status = "canceled"
  <2>1. /\ applyPaddleSubscriptionEvent(event)
        /\ events' \in {events, events \ {event}}
        /\ UNCHANGED vendor
    BY <1>6 DEF Webhook
  <2> QED
    BY <2>1, WebhookKeepsDelivery
<1>7. DispatchMetering => UNCHANGED <<vendor, events, rows>>
  BY DEF DispatchMetering
<1>8. ASSUME NEW m \in Meter, NEW s \in Subscription, Receive(m, s)
      PROVE  UNCHANGED <<vendor, events, rows>>
  BY <1>8 DEF Receive
<1>9. ASSUME NEW m \in Meter, meterSubscription(m) \/ Crash(m)
      PROVE  /\ DeliveryInv'
             /\ \A s \in Subscription :
                    rows[s].status = "canceled" => rows'[s].status = "canceled"
  <2>1. CASE CountUsers(m) \/ Reread(m) \/ PatchFailed(m) \/ Done(m) \/ Crash(m)
    <3>1. UNCHANGED <<vendor, events, rows>>
      BY <2>1 DEF CountUsers, Reread, PatchFailed, Done, Crash
    <3> QED
      BY <1>1, <3>1
  <2>2. CASE ClaimQuantity(m)
    <3>1. frame[m].sub \in Subscription /\ frame[m].quantity \in Seats
      BY <2>2, FrameFields DEF ClaimQuantity, TypeInv, Claim
    <3>2. CASE CanClaim(frame[m])
      <4>1. /\ setQuantityIf(frame[m].sub, frame[m].expected, frame[m].quantity)
            /\ UNCHANGED <<vendor, events>>
        BY <2>2, <3>2 DEF ClaimQuantity
      <4> QED
        BY <1>2, <3>1, <4>1
    <3>3. CASE ~CanClaim(frame[m])
      <4>1. UNCHANGED <<vendor, events, rows>>
        BY <2>2, <3>3 DEF ClaimQuantity
      <4> QED
        BY <1>1, <4>1
    <3> QED
      BY <3>2, <3>3
  <2>3. CASE PatchApplied(m)
    <3>1. frame[m].sub \in Subscription /\ frame[m].quantity \in Seats
      BY <2>3, FrameFields DEF PatchApplied, TypeInv, Claim
    <3>2. /\ paddle[frame[m].sub].status \in {"active", "trialing"}
          /\ Emit(frame[m].sub, paddle[frame[m].sub].status, frame[m].quantity)
          /\ rows' = rows
      BY <2>3 DEF PatchApplied, Accepts
    <3>3. paddle[frame[m].sub].status \in KNOWN_STATUSES \ {"canceled"}
      BY <3>2 DEF KNOWN_STATUSES
    <3> QED
      BY <3>1, <3>2, <3>3, EmitKeepsDelivery
  <2>4. CASE Rollback(m)
    <3>1. /\ frame[m].sub \in Subscription
          /\ frame[m].expected \in Seats
      BY <2>4, FrameFields DEF Rollback, TypeInv, Claim
    <3>2. /\ setQuantityIf(frame[m].sub, frame[m].quantity, frame[m].expected)
          /\ UNCHANGED <<vendor, events>>
      BY <2>4 DEF Rollback
    <3> QED
      BY <1>2, <3>1, <3>2
  <2> QED
    BY <1>9, <2>1, <2>2, <2>3, <2>4 DEF meterSubscription
<1> QED
  BY <1>1, <1>3, <1>4, <1>5, <1>6, <1>7, <1>8, <1>9 DEF Next

LEMMA InvStutter ==
    ASSUME IInv, UNCHANGED vars
    PROVE  IInv'
<1> USE DEF IInv, vars
<1>1. TypeInv'
  BY DEF TypeInv, RowsTyped, FramesTyped, usage, vendor
<1>2. DeliveryInv'
  <2>1. UNCHANGED <<vendor, events, rows>>
    OBVIOUS
  <2> QED
    BY <2>1, SeatsMoveKeepsDelivery DEF DeliveryInv, RowsTyped
<1> QED
  BY <1>1, <1>2

(***************************************************************************)
(* The invariant behind the theorems below: types, and what the events not *)
(* acknowledged and the rows say together of each subscription.            *)
(***************************************************************************)
THEOREM Invariance == Spec => []IInv
<1> USE BoundsAssumption
<1>1. Init => IInv
  BY InvInit
<1>2. IInv /\ [Next]_vars => IInv'
  <2> SUFFICES ASSUME IInv, [Next]_vars
               PROVE  IInv'
    OBVIOUS
  <2>1. CASE Next
    BY <2>1, StepDelivery, StepTypes DEF IInv
  <2>2. CASE UNCHANGED vars
    BY <2>2, InvStutter
  <2> QED
    BY <2>1, <2>2
<1> QED
  BY <1>1, <1>2, PTL DEF Spec

(***************************************************************************)
(* Type correctness of SeatBilling.                                        *)
(***************************************************************************)
THEOREM TypeCorrect == Spec => []TypeOK
<1>1. IInv => TypeOK
  BY DEF IInv, TypeInv, RowsTyped, FramesTyped, TypeOK
<1> QED
  BY <1>1, Invariance, PTL

(***************************************************************************)
(* A canceled subscription is never granted access again, however late and *)
(* often older webhooks come (subscriptions.ts,                            *)
(* applyPaddleSubscriptionEvent).                                          *)
(***************************************************************************)
THEOREM CancellationIsFinal == Spec => CancellationSticks
<1> USE BoundsAssumption
<1>1. IInv /\ [Next]_vars =>
          [\A s \in Subscription : rows[s].status = "canceled" => rows'[s].status = "canceled"]_vars
  BY StepDelivery
<1> QED
  BY <1>1, Invariance, PTL DEF Spec, CancellationSticks

(***************************************************************************)
(* With every webhook delivered the entitlement is Paddle's, whatever      *)
(* order they came in (subscriptions.ts, resolveEntitlement).              *)
(***************************************************************************)
THEOREM EntitlementIsPaddles == Spec => []SettledEntitlement
<1>1. IInv => SettledEntitlement
  <2> SUFFICES ASSUME IInv, events = {}
               PROVE  Entitling # {} <=>
                      \E s \in Subscription : paddle[s].status \in ENTITLING_STATUSES
    BY DEF SettledEntitlement
  <2> USE DEF IInv, DeliveryInv
  <2>1. ASSUME NEW s \in Subscription
        PROVE  s \in Entitling <=> paddle[s].status \in ENTITLING_STATUSES
    <3>1. CASE paddle[s].status \in KNOWN_STATUSES
      <4>1. rows[s].status = paddle[s].status
        BY <3>1 DEF LastInv, RowIsLast
      <4>2. rows[s] # NoRow
        BY <3>1, <4>1 DEF NoRow, KNOWN_STATUSES
      <4> QED
        BY <4>1, <4>2 DEF Entitling, Stored
    <3>2. CASE paddle[s].status \in {"none", "checkout"}
      BY <3>2 DEF StartInv, Entitling, Stored, ENTITLING_STATUSES
    <3>3. paddle[s].status \in {"none", "checkout"} \cup KNOWN_STATUSES
      BY DEF RowsTyped
    <3> QED
      BY <3>1, <3>2, <3>3
  <2> QED
    BY <2>1 DEF Entitling, Stored
<1> QED
  BY <1>1, Invariance, PTL
=============================================================================

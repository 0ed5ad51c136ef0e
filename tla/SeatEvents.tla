----------------------------- MODULE SeatEvents -----------------------------
(***************************************************************************)
(* One seat and everything that writes or announces it by way of the bus:  *)
(* Booking's transactions, outbox and consumer of payment events, the seat *)
(* projection of Trip (seat-events.consumer.ts), which updates the very    *)
(* row Booking updates, and the mails of Notification.                     *)
(*                                                                         *)
(* A handler of Booking reads, awaits and writes, and nothing it read need *)
(* still be so when it writes.  So an action here is one statement, or one *)
(* transaction, that writes Postgres; it may come at any time after the    *)
(* reads it rests on, and of them its guard keeps only what, once so, is   *)
(* so for ever.  Redis is left out: whatever it holds, keys lapse in       *)
(* between.  Which of these orders the handlers produce is the subject of  *)
(* Booking; what is shown here holds in all of them.                       *)
(***************************************************************************)
EXTENDS FanoutBus

CONSTANTS Holds,       \* holds on the seat, numbered in the order they are got
          MaxReleases, \* bound: releases of a hold
          MaxUnsent    \* bound: events in the outbox

VARIABLES
  seat,     \* "Seat".status
  hold,     \* how far the create of each hold got
  row,      \* its Reservation.status; EXPIRED and CANCELLED are both ENDED
  releases, \* times it was released
  outbox,   \* committed events the relay has not marked
  sent,     \* the outcomes Payment published for the hold
  tickets,  \* the holds whose ticket was mailed
  sales,    \* history: the holds whose confirmation was committed
  lost      \* history: events that left the outbox and reached no queue

bookingVars == <<hold, row, releases, sales>>
seatVars == <<seat, bookingVars, outbox, sent, tickets, lost>>
vars == <<busVars, seatVars>>

-----------------------------------------------------------------------------
(* Events and who asks for them *)

SeatKeys == {"seat.reserved", "seat.confirmed", "seat.released"}
PaymentKeys == {"payment.approved", "payment.failed"}

Event(key, h) == [key |-> key, hold |-> h]
EventsOf(keys) == [key : keys, hold : Holds]

DomainEvents == EventsOf(SeatKeys \cup PaymentKeys)

BookingInterest == EventsOf(PaymentKeys)
MutantTripInterest == EventsOf({"seat.reserved", "seat.released"})   \* one key forgotten
TripInterest == EventsOf(SeatKeys)
MutantNotificationInterest ==   \* likewise
  EventsOf({"seat.reserved", "seat.released"} \cup PaymentKeys)
NotificationInterest == EventsOf(SeatKeys \cup PaymentKeys)

Subscriptions ==
  [booking_domain |-> BookingInterest,
   trip_domain |-> TripInterest,
   notification_queue |-> NotificationInterest]

ASSUME SeatEventsAssumption ==
  /\ Holds \subseteq Nat
  /\ MaxReleases \in Nat
  /\ MaxUnsent \in Nat
  /\ Events = DomainEvents
  /\ Interest = Subscriptions

TypeOK ==
  /\ BusTypeOK
  /\ seat \in {"AVAILABLE", "HELD", "SOLD"}
  /\ hold \in [Holds -> {"none", "locked", "made"}]
  /\ row \in [Holds -> {"NONE", "PENDING_PAYMENT", "CONFIRMED", "ENDED"}]
  /\ releases \in [Holds -> Nat]
  /\ outbox \in Seq(EventsOf(SeatKeys))
  /\ sent \in [Holds -> SUBSET PaymentKeys]
  /\ tickets \subseteq Holds
  /\ sales \subseteq Holds
  /\ lost \subseteq EventsOf(SeatKeys)

Init ==
  /\ BusInit
  /\ seat = "AVAILABLE"
  /\ hold = [h \in Holds |-> "none"]
  /\ row = [h \in Holds |-> "NONE"]
  /\ releases = [h \in Holds |-> 0]
  /\ outbox = <<>>
  /\ sent = [h \in Holds |-> {}]
  /\ tickets = {}
  /\ sales = {}
  /\ lost = {}

-----------------------------------------------------------------------------
(* Booking: create *)

Running(q) == q \in bound

\* UPDATE "Seat" SET status = 'AVAILABLE' WHERE id = ... AND status = 'HELD'
Freed == IF seat = "HELD" THEN "AVAILABLE" ELSE seat

MutantEnqueue(key, h) ==   \* a routing key nobody subscribes to
  outbox' = Append(outbox, Event("seat.held", h))
Enqueue(key, h) == outbox' = Append(outbox, Event(key, h))

\* UPDATE "Seat" ... WHERE status = 'AVAILABLE', then the keys in Redis.
Lock(h) ==
  /\ hold[h] = "none"
  /\ \A g \in Holds : g < h => hold[g] # "none"
  /\ seat = "AVAILABLE"
  /\ seat' = "HELD"
  /\ hold' = [hold EXCEPT ![h] = "locked"]
  /\ UNCHANGED <<row, releases, sales, outbox>>

\* tryCreate finds another hold under one of the keys: this one was never
\* stored, so nobody can have found it.
Undo(h) ==
  /\ hold[h] = "locked" /\ row[h] = "NONE" /\ releases[h] = 0
  /\ seat' = Freed
  /\ hold' = [hold EXCEPT ![h] = "none"]
  /\ UNCHANGED <<row, releases, sales, outbox>>

\* The transaction that ends create.
Make(h) ==
  /\ hold[h] = "locked"
  /\ hold' = [hold EXCEPT ![h] = "made"]
  /\ Enqueue("seat.reserved", h)
  /\ UNCHANGED <<seat, row, releases, sales>>

-----------------------------------------------------------------------------
(* Booking: checkouts and their end *)

\* beginPayment inserts the row; one PENDING_PAYMENT row per seat is allowed.
Open(h) ==
  /\ hold[h] # "none"
  /\ row[h] = "NONE"
  /\ \A g \in Holds : row[g] # "PENDING_PAYMENT"
  /\ row' = [row EXCEPT ![h] = "PENDING_PAYMENT"]
  /\ UNCHANGED <<seat, hold, releases, sales, outbox>>

\* The updates by id of compensateCheckout, expireHolds and healOrphans: each
\* has seen the row PENDING_PAYMENT, which it was once, and may write over
\* anything.
EndRow(h) ==
  /\ row[h] # "NONE"
  /\ row' = [row EXCEPT ![h] = "ENDED"]
  /\ UNCHANGED <<seat, hold, releases, sales, outbox>>

\* The transaction of releaseHold.  The cron releases any hold it has found, a
\* compensation one whose payment window was opened.
Release(h) ==
  /\ hold[h] # "none"
  /\ releases[h] < MaxReleases
  /\ releases' = [releases EXCEPT ![h] = @ + 1]
  /\ seat' = Freed
  /\ Enqueue("seat.released", h)
  /\ UNCHANGED <<hold, row, sales>>

\* The UPDATE "Seat" by id that ends healOrphans and the branch for orphans of
\* compensateCheckout.  A seat is HELD before its keys are set, so a sweep that
\* has seen neither key nor checkout can free it at any time.
Free ==
  /\ seat = "HELD"
  /\ seat' = "AVAILABLE"
  /\ UNCHANGED <<bookingVars, outbox>>

\* Statements of Booking, however the handlers they belong to interleave.
Book(h) ==
  /\ Running("booking_domain") /\ Len(outbox) < MaxUnsent
  /\ \/ Lock(h) \/ Undo(h) \/ Make(h)
     \/ Open(h) \/ EndRow(h) \/ Free
     \/ Release(h)
  /\ UNCHANGED <<busVars, sent, tickets, lost>>

-----------------------------------------------------------------------------
(* Booking: the consumer of payment events *)

Confirmable(h) == row[h] = "PENDING_PAYMENT"

\* The transaction of onPaymentApproved: the row goes from PENDING_PAYMENT to
\* CONFIRMED, and the seat is sold if it is still HELD or SOLD.
OnPaymentApproved(h) ==
  \/ /\ Confirmable(h)
     /\ row' = [row EXCEPT ![h] = "CONFIRMED"]
     /\ sales' = sales \cup {h}
     /\ seat' = IF seat = "AVAILABLE" THEN seat ELSE "SOLD"
     /\ Enqueue("seat.confirmed", h)
     /\ UNCHANGED <<hold, releases>>
  \/ /\ ~Confirmable(h)
     /\ UNCHANGED <<seat, bookingVars, outbox>>

\* compensateCheckout, which the saga calls by RPC as well: its statements are
\* EndRow, Release and Free above, and the last of them ends the handler.
OnPaymentFailed(h) ==
  \/ EndRow(h) \/ Release(h) \/ Free
  \/ UNCHANGED <<seat, bookingVars, outbox>>

-----------------------------------------------------------------------------
(* Publishers *)

InsertAt(s, k, e) == SubSeq(s, 1, k) \o <<e>> \o SubSeq(s, k + 1, Len(s))

\* The relay sends the oldest event on the channel of Booking.  When marking it
\* fails it is sent again, after some of the rest; with the channel gone, five
\* failures poison it.
Relay ==
  /\ outbox # <<>>
  /\ \/ /\ up["booking_domain"]
        /\ Publish(Head(outbox))
        /\ outbox' = Tail(outbox)
        /\ lost' = IF log' = log THEN lost \cup {Head(outbox)} ELSE lost
     \/ /\ up["booking_domain"]
        /\ Fault
        /\ Route(Head(outbox))
        /\ \E k \in 0..Len(outbox) - 1 : outbox' = InsertAt(Tail(outbox), k, Head(outbox))
        /\ UNCHANGED lost
     \/ /\ ~up["booking_domain"]
        /\ outbox' = Tail(outbox)
        /\ lost' = lost \cup {Head(outbox)}
        /\ UNCHANGED busVars
  /\ UNCHANGED <<seat, bookingVars, sent, tickets>>

\* The saga has opened the payment window and publishes what the gateway
\* answered, perhaps a decline and then, in a new try, an approval.  That
\* publishWithRetry, or a second payment, sends one outcome twice is a fault.
Settle(h, outcome) ==
  /\ row[h] # "NONE"
  /\ \/ outcome \notin sent[h] /\ Publish(Event(outcome, h))
     \/ outcome \in sent[h] /\ Fault /\ Route(Event(outcome, h))
  /\ sent' = [sent EXCEPT ![h] = @ \cup {outcome}]
  /\ UNCHANGED <<seat, bookingVars, outbox, tickets, lost>>

-----------------------------------------------------------------------------
(* Handlers *)

\* SeatEventsConsumer
OnReserved == seat' = IF seat = "AVAILABLE" THEN "HELD" ELSE seat

MutantOnConfirmed == seat' = IF seat = "HELD" THEN "SOLD" ELSE seat   \* WHERE status = 'HELD'
OnConfirmed == seat' = "SOLD"

MutantOnReleased == seat' = "AVAILABLE"   \* without the status
OnReleased == seat' = Freed

MutantBookingHandles(e) ==   \* no look at the routing key
  OnPaymentApproved(e.hold) /\ UNCHANGED <<sent, tickets, lost>>
BookingHandles(e) ==
  /\ \/ e.key = "payment.approved" /\ OnPaymentApproved(e.hold)
     \/ e.key = "payment.failed" /\ OnPaymentFailed(e.hold)
  /\ UNCHANGED <<sent, tickets, lost>>

TripHandles(e) ==
  /\ \/ e.key = "seat.reserved" /\ OnReserved
     \/ e.key = "seat.confirmed" /\ OnConfirmed
     \/ e.key = "seat.released" /\ OnReleased
  /\ UNCHANGED <<bookingVars, outbox, sent, tickets, lost>>

\* Of the mails only the ticket is kept, the one a property is about.  It goes
\* out for seat.confirmed; an approval, with which Payment always sends the
\* passenger's address, causes no mail.
TicketsFor(e) == IF e.key = "seat.confirmed" THEN {e.hold} ELSE {}

NotificationHandles(e) ==
  /\ tickets' = tickets \cup TicketsFor(e)
  /\ UNCHANGED <<seat, bookingVars, outbox, sent, lost>>

Effect(q, e) ==
  \/ q = "booking_domain" /\ BookingHandles(e)
  \/ q = "trip_domain" /\ TripHandles(e)
  \/ q = "notification_queue" /\ NotificationHandles(e)

\* A handler ends, with an ack or without a channel to ack on.
Handled(q, i) ==
  /\ Handle(q, i) \/ Orphan(q, i)
  /\ Effect(q, log[i])

\* What the bus does without a handler having its effect.
Transport(q) ==
  /\ \/ Start(q) \/ Drop(q)
     \/ \E i \in DOMAIN log : Reject(q, i)
  /\ UNCHANGED seatVars

-----------------------------------------------------------------------------
Next ==
  \/ \E h \in Holds : Book(h) \/ \E outcome \in PaymentKeys : Settle(h, outcome)
  \/ Relay
  \/ \E q \in Queues : Transport(q) \/ \E i \in DOMAIN log : Handled(q, i)

Spec == Init /\ [][Next]_vars

\* The relay's cron and the handlers go on while the channel is open.  Nothing
\* restarts a service whose channel is gone, and nothing is assumed of the
\* other crons, of customers or of the saga.
Fairness ==
  /\ WF_vars(up["booking_domain"] /\ Relay)
  /\ \A q \in Queues : WF_vars(\E i \in DOMAIN log : Handle(q, i) /\ Effect(q, log[i]))

FairSpec == Spec /\ Fairness

-----------------------------------------------------------------------------
(* Properties *)

\* Late, repeated and reordered events never put a sold seat back on the market.
SoldStaysSold == [][seat = "SOLD" => seat' = "SOLD"]_vars

\* A ticket is mailed only about a reservation whose confirmation was committed
\* after Payment had announced its approval, and which is open no more; what a
\* cron has written over the row since changes nothing.
TicketsAreSales ==
  \A h \in tickets :
    /\ h \in sales
    /\ "payment.approved" \in sent[h]
    /\ row[h] \in {"CONFIRMED", "ENDED"}

Confirmation(h) == Event("seat.confirmed", h)

\* Event e reached no queue, or q's service was never there to hear it, or gave
\* a copy up.
Forfeited(q, e) ==
  \/ e \in lost
  \/ \E i \in DOMAIN log : log[i] = e /\ copies[q][i].at \in {"missed", "rejected"}

\* It is in the outbox, or in the queue or at work in the service.
Pending(q, e) ==
  \/ \E k \in DOMAIN outbox : outbox[k] = e
  \/ \E i \in DOMAIN log : log[i] = e /\ copies[q][i].at = "ready"

\* No sale is forgotten: unless seat.confirmed is on its way or forfeited, the
\* seat is off the market, whatever release, sweep or late event freed it before
\* or after the confirmation, and the ticket has been mailed.
SalesAreTracked ==
  \A h \in sales :
    /\ \/ seat = "SOLD"
       \/ Pending("trip_domain", Confirmation(h)) \/ Forfeited("trip_domain", Confirmation(h))
    /\ \/ h \in tickets
       \/ Pending("notification_queue", Confirmation(h)) \/ Forfeited("notification_queue", Confirmation(h))

\* Every sale gets its ticket by mail, unless a channel is gone or the event was
\* forfeited.
ConfirmedGetsTicket ==
  \A h \in Holds :
    h \in sales ~>
      \/ h \in tickets
      \/ ~up["booking_domain"] \/ ~up["notification_queue"]
      \/ Forfeited("notification_queue", Confirmation(h))

\* The seat of a sale is sold in the end, also when a late release had put it back
\* on the market before the confirmation.
SaleReachesSeat ==
  \A h \in Holds :
    h \in sales ~>
      \/ seat = "SOLD"
      \/ ~up["booking_domain"] \/ ~up["trip_domain"]
      \/ Forfeited("trip_domain", Confirmation(h))
=============================================================================

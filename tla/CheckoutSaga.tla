---------------------------- MODULE CheckoutSaga ----------------------------
(***************************************************************************)
(* CheckoutSagaService (payment-service/src/payments): run opens a payment *)
(* window at Booking by RPC, charges, publishes payment.approved or        *)
(* payment.failed and, when it fails, asks Booking to compensate.  Calls   *)
(* of run interleave at every await; statements, the channel and the       *)
(* process may fail between any two of them.  Booking is reduced to what   *)
(* a checkout sees of it; its own races are in module Booking.             *)
(***************************************************************************)
EXTENDS Naturals

CONSTANTS Reservations, Keys,   \* values of the Idempotency-Key header
          resOf,                \* the reservation each key is used for
          Calls,                \* bound: calls of run at once
          MaxFaults,            \* bound: faults in a behaviour
          None

ASSUME SagaAssumption ==
  /\ resOf \in [Keys -> Reservations]
  /\ MaxFaults \in Nat
  /\ None \notin Calls \cup Keys

VARIABLES
  payment,    \* Payment.status of the row with that idempotencyKey, or "none"
  saga,       \* CheckoutSaga.status of the row with that idempotencyKey, or "none"
  call,       \* the calls of run in flight
  inbox,      \* RPC requests in Booking's queue
  booking,    \* the reservation, as Booking answers for it
  approved,   \* reservations whose payment.approved is on the bus
  declined,   \* reservations whose payment.failed is on the bus
  asked,      \* reservations for which a compensation was asked by RPC
  channelUp,  \* RabbitMqService's channel accepts a publish
  overlapped, \* history: reservations for which two calls ran at once
  faults

rows == <<payment, saga>>
bus  == <<approved, declined, channelUp>>
rpc  == <<inbox, asked>>
vars == <<rows, call, rpc, booking, bus, overlapped, faults>>

Points == {"idle", "findActive", "upsert", "findSettled", "awaitBegin", "open",
           "failWindow", "findApproved", "replay", "create", "link", "charge",
           "charged", "publishApproved", "complete", "publishFailed", "compensate",
           "awaitCompensate", "compensated", "compFailed", "recheck", "postCharge"}

\* pc: the awaited command a call is at; reply: the reservation's status as
\* beginPayment returned it; tries: publishes tried; caught: compensate is
\* called from a catch, so that its own failure leaves run.
NoKey == None
Idle == [pc |-> "idle", key |-> NoKey, reply |-> "none", tries |-> 0, caught |-> FALSE]

Tries == 3

Call == [pc : Points, key : Keys \cup {NoKey}, tries : 0..2, caught : BOOLEAN,
         reply : {"none", "PENDING_PAYMENT", "CONFIRMED"}]

Request == [kind : {"begin", "compensate"}, res : Reservations, from : Calls \cup {None}]

CallsOK ==
  /\ call \in [Calls -> Call]
  /\ \A c \in Calls : call[c].key = NoKey => call[c] = Idle

TypeOK ==
  /\ payment \in [Keys -> {"none", "PENDING", "APPROVED", "FAILED"}]
  /\ saga \in [Keys -> {"none", "STARTED", "PAYMENT_WINDOW_OPEN", "CHARGED", "COMPLETED",
                        "COMPENSATING", "COMPENSATED", "FAILED"}]
  /\ CallsOK
  /\ inbox \subseteq Request
  /\ booking \in [Reservations -> {"HELD", "PENDING_PAYMENT", "CONFIRMED", "ENDED"}]
  /\ approved \subseteq Reservations
  /\ declined \subseteq Reservations
  /\ asked \subseteq Reservations
  /\ overlapped \subseteq Reservations
  /\ channelUp \in BOOLEAN
  /\ faults \in 0..MaxFaults

Init ==
  /\ payment = [k \in Keys |-> "none"]
  /\ saga = [k \in Keys |-> "none"]
  /\ call = [c \in Calls |-> Idle]
  /\ inbox = {}
  /\ booking = [r \in Reservations |-> "HELD"]
  /\ approved = {} /\ declined = {} /\ asked = {} /\ overlapped = {}
  /\ channelUp = TRUE
  /\ faults = 0

-----------------------------------------------------------------------------
(* Moves of a call *)

At(c, point) == call[c].pc = point
Key(c) == call[c].key
Res(c) == resOf[Key(c)]

Serves(c, r) == ~At(c, "idle") /\ Res(c) = r

Goto(c, point) == call' = [call EXCEPT ![c].pc = point]
Leave(c) == call' = [call EXCEPT ![c] = Idle]
MutantUnwind(c) == Leave(c)   \* throws without compensating
Unwind(c) == call' = [call EXCEPT ![c].pc = "compensate", ![c].caught = TRUE]

\* A throw: out of run, or into the catch around the charge.
Rethrow(c) == IF call[c].caught THEN Leave(c) ELSE Goto(c, "recheck")

Fault == faults < MaxFaults /\ faults' = faults + 1

\* A statement that reads: it answers, or it throws.
Select(answer, throw) ==
  /\ \/ answer /\ UNCHANGED faults
     \/ Fault /\ throw
  /\ UNCHANGED <<rows, rpc, booking, bus, overlapped>>

\* A statement that writes the saga's row.  One that throws may have written.
SetSaga(c, status, done, throw) ==
  LET written == [saga EXCEPT ![Key(c)] = status] IN
  /\ \/ saga' = written /\ done /\ UNCHANGED faults
     \/ Fault /\ saga' \in {saga, written} /\ throw
  /\ UNCHANGED payment

\* The same for the payment's row.
SetPayment(c, status, done, throw) ==
  LET written == [payment EXCEPT ![Key(c)] = status] IN
  /\ \/ payment' = written /\ done /\ UNCHANGED faults
     \/ Fault /\ payment' \in {payment, written} /\ throw
  /\ UNCHANGED saga

Ask(c, kind) == inbox' = inbox \cup {[kind |-> kind, res |-> Res(c), from |-> c]}

\* The reply to c, if it comes, finds nobody.
Forget(callers) == {[q EXCEPT !.from = IF @ \in callers THEN None ELSE @] : q \in inbox}

-----------------------------------------------------------------------------
(* run *)

Active(r) == {k \in Keys : resOf[k] = r /\ payment[k] \in {"PENDING", "APPROVED"}}

Begun(k) == [pc |-> "findActive", key |-> k, reply |-> "none", tries |-> 0, caught |-> FALSE]

\* existingPayment: a key that has a payment is answered with it.
Start(c, k) ==
  /\ At(c, "idle")
  /\ payment[k] = "none"
  /\ call' = [call EXCEPT ![c] = Begun(k)]
  /\ overlapped' = overlapped \cup {r \in {resOf[k]} : \E d \in Calls : Serves(d, r)}
  /\ UNCHANGED <<rows, rpc, booking, bus, faults>>

\* activePayment
MutantFindActive(c) ==   \* looks for APPROVED only
  /\ At(c, "findActive")
  /\ Select(IF \E k \in Active(Res(c)) : payment[k] = "APPROVED" THEN Leave(c) ELSE Goto(c, "upsert"),
            Leave(c))
FindActive(c) ==
  /\ At(c, "findActive")
  /\ Select(IF Active(Res(c)) # {} THEN Leave(c) ELSE Goto(c, "upsert"), Leave(c))

\* The saga's row, made unless it exists; then beginPayment is sent, unless
\* the row is settled and its payment found.
Upsert(c) ==
  LET settled == saga[Key(c)] \in {"COMPLETED", "COMPENSATED"}
      status == IF saga[Key(c)] = "none" THEN "STARTED" ELSE saga[Key(c)]
      send == Goto(c, "awaitBegin") /\ Ask(c, "begin") IN
  /\ At(c, "upsert")
  /\ SetSaga(c, status,
             IF settled THEN Goto(c, "findSettled") /\ UNCHANGED inbox ELSE send,
             Leave(c) /\ UNCHANGED inbox)
  /\ UNCHANGED <<asked, booking, bus, overlapped>>

FindSettled(c) ==
  /\ At(c, "findSettled")
  /\ \/ /\ payment[Key(c)] = "none"
        /\ Goto(c, "awaitBegin") /\ Ask(c, "begin")
        /\ UNCHANGED faults
     \/ payment[Key(c)] # "none" /\ Leave(c) /\ UNCHANGED <<inbox, faults>>
     \/ Fault /\ Leave(c) /\ UNCHANGED inbox
  /\ UNCHANGED <<rows, asked, booking, bus, overlapped>>

\* No reply in 10 s, an error, or a reservation that cannot be paid for (ended,
\* or its expiresAt has passed).  What was sent may still be served.
MutantGiveUp(c) ==   \* the timeout of a compensation counts as its success
  /\ \/ At(c, "awaitBegin") /\ Goto(c, "failWindow")
     \/ At(c, "awaitCompensate") /\ Goto(c, "compensated")
  /\ inbox' = Forget({c})
  /\ UNCHANGED <<rows, asked, booking, bus, overlapped, faults>>
GiveUp(c) ==
  /\ \/ At(c, "awaitBegin") /\ Goto(c, "failWindow")
     \/ At(c, "awaitCompensate") /\ Goto(c, "compFailed")
  /\ inbox' = Forget({c})
  /\ UNCHANGED <<rows, asked, booking, bus, overlapped, faults>>

FailWindow(c) ==
  /\ At(c, "failWindow")
  /\ SetSaga(c, "FAILED", Leave(c), Leave(c))
  /\ UNCHANGED <<rpc, booking, bus, overlapped>>

Open(c) ==
  /\ At(c, "open")
  /\ SetSaga(c, "PAYMENT_WINDOW_OPEN",
             Goto(c, IF call[c].reply = "CONFIRMED" THEN "findApproved" ELSE "create"),
             Goto(c, "failWindow"))
  /\ UNCHANGED <<rpc, booking, bus, overlapped>>

\* A confirmed reservation is not charged again if its payment is found.
FindApproved(c) ==
  /\ At(c, "findApproved")
  /\ Select(Goto(c, IF \E k \in Active(Res(c)) : payment[k] = "APPROVED" THEN "replay" ELSE "create"),
            Leave(c))

Replay(c) ==
  /\ At(c, "replay")
  /\ SetSaga(c, "COMPLETED", Leave(c), Leave(c))
  /\ UNCHANGED <<rpc, booking, bus, overlapped>>

\* createPaymentRow: a row with the key is taken over whatever its status.
Create(c) ==
  /\ At(c, "create")
  /\ SetPayment(c, IF payment[Key(c)] = "none" THEN "PENDING" ELSE payment[Key(c)],
                Goto(c, "link"), Unwind(c))
  /\ UNCHANGED <<rpc, booking, bus, overlapped>>

\* The saga's paymentId, outside of every try.
Link(c) ==
  /\ At(c, "link")
  /\ Select(Goto(c, "charge"), Leave(c))

MutantCharge(c) ==   \* a failed update taken for a charge
  /\ At(c, "charge")
  /\ \/ SetPayment(c, "APPROVED", Goto(c, "charged"), Goto(c, "charged"))
     \/ SetPayment(c, "FAILED", Goto(c, "publishFailed"), Goto(c, "recheck"))
  /\ UNCHANGED <<rpc, booking, bus, overlapped>>
Charge(c) ==
  /\ At(c, "charge")
  /\ \/ SetPayment(c, "APPROVED", Goto(c, "charged"), Goto(c, "recheck"))
     \/ SetPayment(c, "FAILED", Goto(c, "publishFailed"), Goto(c, "recheck"))
  /\ UNCHANGED <<rpc, booking, bus, overlapped>>

Charged(c) ==
  /\ At(c, "charged")
  /\ SetSaga(c, "CHARGED", Goto(c, "publishApproved"), Goto(c, "recheck"))
  /\ UNCHANGED <<rpc, booking, bus, overlapped>>

\* publishWithRetry, one try: the channel takes the event, or throws.
MutantPublishFails(c) ==   \* the last error is swallowed
  /\ ~channelUp
  /\ call' = [call EXCEPT ![c].tries = (@ + 1) % Tries,
                          ![c].pc = IF call[c].tries + 1 < Tries THEN @
                                    ELSE IF @ = "publishApproved" THEN "complete" ELSE "compensate"]
PublishFails(c) ==
  /\ ~channelUp
  /\ call' = [call EXCEPT ![c].tries = (@ + 1) % Tries,
                          ![c].pc = IF call[c].tries + 1 < Tries THEN @ ELSE "recheck"]

PublishApproved(c) ==
  /\ At(c, "publishApproved")
  /\ \/ channelUp /\ approved' = approved \cup {Res(c)} /\ Goto(c, "complete")
     \/ PublishFails(c) /\ UNCHANGED approved
  /\ UNCHANGED <<rows, rpc, booking, declined, channelUp, overlapped, faults>>

Complete(c) ==
  /\ At(c, "complete")
  /\ SetSaga(c, "COMPLETED", Leave(c), Goto(c, "recheck"))
  /\ UNCHANGED <<rpc, booking, bus, overlapped>>

PublishFailed(c) ==
  /\ At(c, "publishFailed")
  /\ \/ channelUp /\ declined' = declined \cup {Res(c)} /\ Goto(c, "compensate")
     \/ PublishFails(c) /\ UNCHANGED declined
  /\ UNCHANGED <<rows, rpc, booking, approved, channelUp, overlapped, faults>>

\* The catch around the charge.
MutantRecheck(c) ==   \* compensates without looking at the payment
  /\ At(c, "recheck")
  /\ Select(Unwind(c), Leave(c))
Recheck(c) ==
  /\ At(c, "recheck")
  /\ Select(IF payment[Key(c)] = "APPROVED" THEN Goto(c, "postCharge") ELSE Unwind(c), Leave(c))

PostCharge(c) ==
  /\ At(c, "postCharge")
  /\ SetSaga(c, "FAILED", Leave(c), Leave(c))
  /\ UNCHANGED <<rpc, booking, bus, overlapped>>

-----------------------------------------------------------------------------
(* compensate *)

Compensate(c) ==
  /\ At(c, "compensate")
  /\ SetSaga(c, "COMPENSATING",
             Goto(c, "awaitCompensate") /\ Ask(c, "compensate") /\ asked' = asked \cup {Res(c)},
             Rethrow(c) /\ UNCHANGED rpc)
  /\ UNCHANGED <<booking, bus, overlapped>>

Compensated(c) ==
  /\ At(c, "compensated")
  /\ SetSaga(c, "COMPENSATED", Leave(c), Goto(c, "compFailed"))
  /\ UNCHANGED <<rpc, booking, bus, overlapped>>

CompFailed(c) ==
  /\ At(c, "compFailed")
  /\ SetSaga(c, "FAILED", Leave(c), Rethrow(c))
  /\ UNCHANGED <<rpc, booking, bus, overlapped>>

Step(c) ==
  \/ FindActive(c) \/ Upsert(c) \/ FindSettled(c) \/ GiveUp(c) \/ FailWindow(c)
  \/ Open(c) \/ FindApproved(c) \/ Replay(c) \/ Create(c) \/ Link(c) \/ Charge(c)
  \/ Charged(c) \/ PublishApproved(c) \/ Complete(c) \/ PublishFailed(c)
  \/ Recheck(c) \/ PostCharge(c) \/ Compensate(c) \/ Compensated(c) \/ CompFailed(c)

-----------------------------------------------------------------------------
(* Booking, each handler in one step *)

\* beginPayment opens the window once and answers for one that is open or was
\* confirmed; for the rest it throws, which the caller sees as GiveUp.
BookBegin(q) ==
  /\ q.kind = "begin"
  /\ inbox' = inbox \ {q}
  /\ booking' = [booking EXCEPT ![q.res] = IF @ = "HELD" THEN "PENDING_PAYMENT" ELSE @]
  /\ call' = IF q.from = None \/ booking[q.res] = "ENDED" THEN call
             ELSE [call EXCEPT ![q.from].pc = "open", ![q.from].reply = booking'[q.res]]
  /\ UNCHANGED <<rows, asked, bus, overlapped, faults>>

Cancelled(r) == [booking EXCEPT ![r] = IF @ = "CONFIRMED" THEN @ ELSE "ENDED"]

BookCompensate(q) ==
  /\ q.kind = "compensate"
  /\ inbox' = inbox \ {q}
  /\ booking' = Cancelled(q.res)
  /\ call' = IF q.from = None THEN call ELSE [call EXCEPT ![q.from].pc = "compensated"]
  /\ UNCHANGED <<rows, asked, bus, overlapped, faults>>

\* onPaymentApproved and onPaymentFailed, whenever and as often as the bus
\* delivers; expireHolds.
BookEvent(r) ==
  /\ \/ /\ r \in approved /\ booking[r] = "PENDING_PAYMENT"
        /\ booking' = [booking EXCEPT ![r] = "CONFIRMED"]
     \/ r \in declined /\ booking' = Cancelled(r)
     \/ booking' = Cancelled(r)
  /\ UNCHANGED <<rows, call, rpc, bus, overlapped, faults>>

-----------------------------------------------------------------------------
(* The environment *)

LoseChannel ==
  /\ channelUp /\ Fault
  /\ channelUp' = FALSE
  /\ UNCHANGED <<rows, call, rpc, booking, approved, declined, overlapped>>

Work ==
  \/ \E c \in Calls : Step(c) \/ \E k \in Keys : Start(c, k)
  \/ \E q \in inbox : BookBegin(q) \/ BookCompensate(q)
  \/ \E r \in Reservations : BookEvent(r)
  \/ LoseChannel

\* The payment service dies and starts again.  No one resumes its sagas.
Restart ==
  /\ Fault
  /\ call' = [c \in Calls |-> Idle]
  /\ inbox' = Forget(Calls)
  /\ channelUp' = TRUE
  /\ UNCHANGED <<rows, asked, booking, approved, declined, overlapped>>

Next == Work \/ Restart

Spec == Init /\ [][Next]_vars

-----------------------------------------------------------------------------
(* Properties *)

\* A saga is COMPLETED only if payment.approved of its reservation is on the bus.
CompletedIsAnnounced ==
  \A k \in Keys : saga[k] = "COMPLETED" => resOf[k] \in approved

\* A saga is COMPENSATED only if Booking served the compensation: the window is
\* not open any more.
CompensatedIsServed ==
  \A k \in Keys : saga[k] = "COMPENSATED" => booking[resOf[k]] \in {"ENDED", "CONFIRMED"}

\* The rest holds of a reservation whose calls never overlap, with lost requests,
\* late replies, failed statements and restarts, and whatever keys it is paid with.
Alone(r) == r \notin overlapped

AtMostOneActive(r) == \A k, l \in Active(r) : k = l

\* At most one payment of a reservation is PENDING or APPROVED.
OneActive == \A r \in Reservations : Alone(r) => AtMostOneActive(r)

\* A charge whose event did not reach the bus is not hidden: its saga is neither
\* COMPLETED nor COMPENSATED (checkout-saga.service.ts:215-225, post_charge).
ChargedIsVisible ==
  \A k \in Keys :
    payment[k] = "APPROVED" /\ resOf[k] \notin approved /\ Alone(resOf[k])
      => saga[k] \notin {"COMPLETED", "COMPENSATED"}

\* A confirmed reservation was paid for.
ConfirmedIsPaid ==
  \A r \in Reservations :
    Alone(r) /\ booking[r] = "CONFIRMED" => \E k \in Active(r) : payment[k] = "APPROVED"

\* Once approved or declined, a payment stays so: a retry with its key does
\* not charge again.
SettledIsFinal ==
  [][\A k \in Keys :
       payment[k] \in {"APPROVED", "FAILED"} /\ Alone(resOf[k]) => payment'[k] = payment[k]]_vars

\* No compensation is asked for a reservation that is paid for.
PaidNotCompensated ==
  [][\A r \in Reservations :
       Alone(r) /\ r \in asked' \ asked => \A k \in Active(r) : payment[k] # "APPROVED"]_vars

\* A checkout that had its window ends uncharged and uncompensated only where
\* the window could not be recorded, or by a statement that throws in that very
\* step: a failed charge or publish always reaches the compensation
\* (checkout-saga.service.ts:38, 112, 215-227).
OnlyThrowsSkipCompensation ==
  [][\A c \in Calls :
       call[c].reply # "none" /\ call[c].pc # "failWindow" /\ call'[c].pc = "idle"
         /\ faults' = faults /\ Alone(Res(c)) =>
           Res(c) \in asked \cup declined \/ \E k \in Active(Res(c)) : payment[k] = "APPROVED"]_vars

\* What docs/architecture.md:90 says, which the code does not keep: at most one
\* payment of a reservation is PENDING or APPROVED.
OnePayment == \A r \in Reservations : AtMostOneActive(r)
=============================================================================

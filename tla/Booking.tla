------------------------------- MODULE Booking -------------------------------
(***************************************************************************)
(* ReservationsService (booking-service/src/reservations/                  *)
(* reservations.service.ts): the RPCs create, beginPayment and             *)
(* compensateCheckout, the handlers of payment.approved and payment.failed *)
(* and the two crons, over the Redis of HoldStore and the Postgres tables  *)
(* Seat, Trip, Reservation and OutboxEvent.                                *)
(*                                                                         *)
(* The service is one Node.js process: code between two awaits runs alone, *)
(* and every awaited command may let any other handler run first.  So a    *)
(* running handler is a record in task (the command it will issue next,    *)
(* its subject, what it remembers of an earlier reply), and an action is   *)
(* one command with the code that follows it up to the next await.  A      *)
(* Prisma $transaction is one step: its row locks order it against the     *)
(* others.  Aborted(w) is a command that fails, or a crash just before it. *)
(***************************************************************************)
EXTENDS HoldStore, Naturals, FiniteSets

CONSTANTS Workers,      \* bound: handlers running at once
          MaxBegins,    \* bound: beginPayment calls per hold
          MaxFailures   \* bound: handlers aborted in a behaviour

ASSUME TripAssumption == IsFiniteSet(Seats)

ASSUME BoundsAssumption == MaxBegins \in Nat /\ MaxFailures \in Nat

VARIABLES
  seat,            \* Seat.status
  availableSeats,  \* Trip."availableSeats"
  resv,            \* Reservation.status, "NONE" when there is no row
  resDue,          \* rows whose own expiresAt has passed
  outbox,          \* OutboxEvent: rows per reservation and routing key
  task,            \* the handlers in flight
  verdict,         \* payment events and compensation RPCs sent, per reservation
  begins,          \* beginPayment calls so far, per hold
  failures         \* aborts so far

database == <<seat, availableSeats, resv, resDue, outbox>>
bounds   == <<begins, failures>>
vars     == <<storeVars, database, task, verdict, bounds>>

Statuses   == {"NONE", "PENDING_PAYMENT", "CONFIRMED", "EXPIRED", "CANCELLED"}
SeatEvents == {"seat.reserved", "seat.confirmed", "seat.released"}
Verdicts   == {"approved", "failed"}

Points ==
  {"idle",
   "create.lock", "create.idem", "create.replay", "create.seat",
   "create.unidem", "create.undo", "create.hold", "create.commit",
   "begin.touch", "begin.hold", "begin.refresh", "begin.insert",
   "approve.hold", "approve.confirm", "approve.drop",
   "comp.cancel", "comp.hold", "comp.orphan",
   "release.delete", "release.commit",
   "expire.hold", "expire.forget", "expire.check", "expire.mark",
   "heal.hold", "heal.expire", "sweep.key", "sweep.checkout",
   "free.seat", "free.trip"}

\* What a handler remembers: a row's status, whether it was handed a hold
\* ("hold", "gone"), whether that hold had run out ("late", "fresh").
Seen == Statuses \cup {"hold", "gone", "late", "fresh", "-"}

Idle == [pc |-> "idle", on |-> None, saw |-> "-"]

TypeOK ==
  /\ StoreTypeOK
  /\ seat \in [Seats -> {"AVAILABLE", "HELD", "SOLD"}]
  /\ availableSeats \in Nat
  /\ resv \in [Holds -> Statuses]
  /\ resDue \subseteq Holds
  /\ outbox \in [Holds -> [SeatEvents -> Nat]]
  /\ task \in [Workers -> [pc : Points, on : Holds \cup Seats \cup {None}, saw : Seen]]
  /\ verdict \in [Holds -> SUBSET Verdicts]
  /\ begins \in [Holds -> Nat]
  /\ failures \in Nat

Init ==
  /\ StoreInit
  /\ seat = [s \in Seats |-> "AVAILABLE"]
  /\ availableSeats = Cardinality(Seats)
  /\ resv = [h \in Holds |-> "NONE"]
  /\ resDue = {}
  /\ outbox = [h \in Holds |-> [e \in SeatEvents |-> 0]]
  /\ task = [w \in Workers |-> Idle]
  /\ verdict = [h \in Holds |-> {}]
  /\ begins = [h \in Holds |-> 0]
  /\ failures = 0

-----------------------------------------------------------------------------
(* Handlers and statements *)

At(w, point) == task[w].pc = point

Start(w, point, subject, saw) ==
  /\ At(w, "idle")
  /\ task' = [task EXCEPT ![w] = [pc |-> point, on |-> subject, saw |-> saw]]

Goto(w, point) == task' = [task EXCEPT ![w].pc = point]

GotoSeeing(w, point, saw) ==
  task' = [task EXCEPT ![w] = [pc |-> point, on |-> @.on, saw |-> saw]]

Return(w) == task' = [task EXCEPT ![w] = Idle]

\* UPDATE "Seat" SET status = 'HELD' WHERE id = s AND status = 'AVAILABLE'
LockSeat(s) ==
  /\ seat[s] = "AVAILABLE"
  /\ seat' = [seat EXCEPT ![s] = "HELD"]

\* UPDATE "Seat" SET status = 'AVAILABLE' WHERE id = s AND status = 'HELD'
MutantReleaseSeat(s) ==   \* without the status in the WHERE
  seat' = [seat EXCEPT ![s] = "AVAILABLE"]
ReleaseSeat(s) ==
  seat' = IF seat[s] = "HELD" THEN [seat EXCEPT ![s] = "AVAILABLE"] ELSE seat

\* UPDATE "Seat" SET status = 'SOLD' WHERE id = s AND status IN ('HELD', 'SOLD')
SellSeat(s) ==
  seat' = IF seat[s] \in {"HELD", "SOLD"} THEN [seat EXCEPT ![s] = "SOLD"] ELSE seat

\* GREATEST("availableSeats" - 1, 0)
MutantDebit == availableSeats' = availableSeats - 1   \* without GREATEST
Debit == availableSeats' = IF availableSeats > 0 THEN availableSeats - 1 ELSE 0

Credit == availableSeats' = availableSeats + 1

SetStatus(h, status) == resv' = [resv EXCEPT ![h] = status]

MutantEnqueue(h, event) ==   \* onPaymentApproved forgets it
  outbox' = IF event = "seat.confirmed" THEN outbox
            ELSE [outbox EXCEPT ![h][event] = @ + 1]
Enqueue(h, event) == outbox' = [outbox EXCEPT ![h][event] = @ + 1]
-----------------------------------------------------------------------------
(* create: Idempotency-Key lookups, UPDATE Seat, tryCreate, transaction *)

\* Neither lookup finds the key, so a hold id is minted.  (When one does, the
\* call answers from it and writes nothing.)  Rows are never deleted, so the
\* two lookups may be read together.
StartCreate(w, h, s, k) ==
  /\ h \notin Minted
  /\ ~GetByIdempotencyKey(k)
  /\ \A g \in Minted : keyOf[g] = k => resv[g] = "NONE"
  /\ Start(w, "create.lock", h, "-")
  /\ seatOf' = [seatOf EXCEPT ![h] = s]
  /\ keyOf' = [keyOf EXCEPT ![h] = k]
  /\ UNCHANGED <<redis, due, database, verdict, bounds>>

CreateLock(w) ==
  LET h == task[w].on IN
  /\ At(w, "create.lock")
  /\ \/ LockSeat(seatOf[h]) /\ Goto(w, "create.idem")
     \/ /\ seat[seatOf[h]] # "AVAILABLE"
        /\ Return(w)
        /\ UNCHANGED seat
  /\ UNCHANGED <<storeVars, availableSeats, resv, resDue, outbox, verdict, bounds>>

CreateIdem(w) ==
  LET h == task[w].on IN
  /\ At(w, "create.idem")
  /\ \/ SetIdemNX(h) /\ Goto(w, "create.seat")
     \/ /\ idemKey[keyOf[h]] # None
        /\ Goto(w, "create.replay")
        /\ UNCHANGED redis
  /\ UNCHANGED <<document, due, database, verdict, bounds>>

\* The key is taken: replay the hold it names, and give the seat back unless
\* it is that hold's seat; a key without a hold counts as seat_taken.
CreateReplay(w) ==
  LET h == task[w].on
      g == idemKey[keyOf[h]]
  IN
  /\ At(w, "create.replay")
  /\ IF GetByIdempotencyKey(keyOf[h]) /\ seatOf[g] = seatOf[h]
     THEN Return(w)
     ELSE Goto(w, "create.undo")
  /\ UNCHANGED <<storeVars, database, verdict, bounds>>

CreateSeat(w) ==
  LET h == task[w].on IN
  /\ At(w, "create.seat")
  /\ \/ SetSeatNX(h) /\ Goto(w, "create.hold")
     \/ /\ GetHoldIdBySeat(seatOf[h]) # None
        /\ Goto(w, "create.unidem")
        /\ UNCHANGED redis
  /\ UNCHANGED <<document, due, database, verdict, bounds>>

CreateUnidem(w) ==
  /\ At(w, "create.unidem")
  /\ DelIdem(task[w].on)
  /\ Goto(w, "create.undo")
  /\ UNCHANGED <<document, due, database, verdict, bounds>>

MutantCreateUndo(w) ==   \* gives back what the hold under the key has taken
  LET h == IF GetByIdempotencyKey(keyOf[task[w].on])
           THEN idemKey[keyOf[task[w].on]] ELSE task[w].on
  IN
  /\ At(w, "create.undo")
  /\ ReleaseSeat(seatOf[h])
  /\ seatKey' = [seatKey EXCEPT ![seatOf[h]] = None]
  /\ Return(w)
  /\ UNCHANGED <<document, due, holdKey, idemKey, expiring, availableSeats, resv, resDue,
                 outbox, verdict, bounds>>
MutantCreateFallThrough(w) ==   \* no return after the undo
  /\ At(w, "create.undo")
  /\ ReleaseSeat(seatOf[task[w].on])
  /\ Goto(w, "create.commit")
  /\ UNCHANGED <<storeVars, availableSeats, resv, resDue, outbox, verdict, bounds>>
CreateUndo(w) ==
  /\ At(w, "create.undo")
  /\ ReleaseSeat(seatOf[task[w].on])
  /\ Return(w)
  /\ UNCHANGED <<storeVars, availableSeats, resv, resDue, outbox, verdict, bounds>>

CreateHold(w) ==
  /\ At(w, "create.hold")
  /\ PutHold(task[w].on)
  /\ Goto(w, "create.commit")
  /\ UNCHANGED <<document, due, database, verdict, bounds>>

CreateCommit(w) ==
  /\ At(w, "create.commit")
  /\ Debit
  /\ Enqueue(task[w].on, "seat.reserved")
  /\ Return(w)
  /\ UNCHANGED <<storeVars, seat, resv, resDue, verdict, bounds>>

Create(w) ==
  \/ \E h \in Holds, s \in Seats, k \in Keys : StartCreate(w, h, s, k)
  \/ CreateLock(w) \/ CreateIdem(w) \/ CreateReplay(w) \/ CreateSeat(w)
  \/ CreateUnidem(w) \/ CreateUndo(w) \/ CreateHold(w) \/ CreateCommit(w)

-----------------------------------------------------------------------------
(* beginPayment *)

\* The row is read first.  CONFIRMED answers at once and writes nothing; with
\* neither a row nor a hold the call writes nothing either.
StartBegin(w, h) ==
  /\ begins[h] < MaxBegins
  /\ resv[h] # "CONFIRMED"
  /\ resv[h] # "NONE" \/ GetById(h)
  /\ Start(w, IF resv[h] = "PENDING_PAYMENT" THEN "begin.touch" ELSE "begin.hold", h, "-")
  /\ begins' = [begins EXCEPT ![h] = @ + 1]
  /\ UNCHANGED <<storeVars, database, verdict, failures>>

\* A checkout that is under way has its hold extended, if it still has one.
BeginTouch(w) ==
  /\ At(w, "begin.touch")
  /\ IF GetById(task[w].on)
     THEN GotoSeeing(w, "begin.refresh", "PENDING_PAYMENT")
     ELSE Return(w)
  /\ UNCHANGED <<storeVars, database, verdict, bounds>>

\* hold not found, or reservation already expired: the call is refused.
BeginHold(w) ==
  LET h == task[w].on IN
  /\ At(w, "begin.hold")
  /\ IF GetById(h) /\ h \notin due THEN Goto(w, "begin.refresh") ELSE Return(w)
  /\ UNCHANGED <<storeVars, database, verdict, bounds>>

BeginRefresh(w) ==
  /\ At(w, "begin.refresh")
  /\ Refresh(task[w].on)
  /\ IF task[w].saw = "PENDING_PAYMENT" THEN Return(w) ELSE Goto(w, "begin.insert")
  /\ UNCHANGED <<document, database, verdict, bounds>>

\* What P2002 stands for: the id, the idempotencyKey, or the partial unique
\* index that allows one PENDING_PAYMENT row per seat.
Conflicts(h, g) ==
  /\ resv[g] # "NONE"
  /\ \/ g = h
     \/ keyOf[g] = keyOf[h]
     \/ seatOf[g] = seatOf[h] /\ resv[g] = "PENDING_PAYMENT"

\* reservation.create.  On P2002 the call answers with its own row when there
\* is one and retries otherwise; only a change of the table makes a retry
\* differ, so the retries are the repetitions of this step and giving up after
\* the fifth is the second disjunct.
BeginInsert(w) ==
  LET h == task[w].on IN
  /\ At(w, "begin.insert")
  /\ \/ /\ \A g \in Holds : ~Conflicts(h, g)
        /\ SetStatus(h, "PENDING_PAYMENT")
        /\ resDue' = IF h \in due THEN resDue \cup {h} ELSE resDue
     \/ /\ \E g \in Holds : Conflicts(h, g)
        /\ UNCHANGED <<resv, resDue>>
  /\ Return(w)
  /\ UNCHANGED <<storeVars, seat, availableSeats, outbox, verdict, bounds>>

BeginPayment(w) ==
  \/ \E h \in Minted : StartBegin(w, h)
  \/ BeginTouch(w) \/ BeginHold(w) \/ BeginRefresh(w) \/ BeginInsert(w)

-----------------------------------------------------------------------------
(* onPaymentApproved *)

\* A CONFIRMED row ends the handler; a repeated event does nothing.
StartApprove(w, h) ==
  /\ "approved" \in verdict[h]
  /\ resv[h] # "CONFIRMED"
  /\ Start(w, "approve.hold", h, resv[h])
  /\ UNCHANGED <<storeVars, database, verdict, bounds>>

\* Without a row there is nothing to confirm: the hold, if any, is dropped.
ApproveHold(w) ==
  LET found == GetById(task[w].on) IN
  /\ At(w, "approve.hold")
  /\ IF task[w].saw # "NONE"
     THEN GotoSeeing(w, "approve.confirm", IF found THEN "hold" ELSE "gone")
     ELSE IF found THEN Goto(w, "approve.drop") ELSE Return(w)
  /\ UNCHANGED <<storeVars, database, verdict, bounds>>

DropIfSeen(w) == IF task[w].saw = "hold" THEN Goto(w, "approve.drop") ELSE Return(w)

MutantConfirmable(h) == resv[h] # "NONE"   \* updateMany by id alone
Confirmable(h) == resv[h] = "PENDING_PAYMENT"

\* One transaction: updateMany where PENDING_PAYMENT; when it changed the row,
\* Seat to SOLD and seat.confirmed to the outbox.
ApproveConfirm(w) ==
  LET h == task[w].on IN
  /\ At(w, "approve.confirm")
  /\ \/ /\ Confirmable(h)
        /\ SetStatus(h, "CONFIRMED")
        /\ SellSeat(seatOf[h])
        /\ Enqueue(h, "seat.confirmed")
     \/ /\ ~Confirmable(h)
        /\ UNCHANGED <<resv, seat, outbox>>
  /\ DropIfSeen(w)
  /\ UNCHANGED <<storeVars, availableSeats, resDue, verdict, bounds>>

ApproveDrop(w) ==
  /\ At(w, "approve.drop")
  /\ Delete(task[w].on)
  /\ Return(w)
  /\ UNCHANGED <<document, due, database, verdict, bounds>>

OnPaymentApproved(w) ==
  \/ \E h \in Minted : StartApprove(w, h)
  \/ ApproveHold(w) \/ ApproveConfirm(w) \/ ApproveDrop(w)
-----------------------------------------------------------------------------
(* compensateCheckout: the saga's RPC and onPaymentFailed *)

\* CONFIRMED is skipped.
StartCompensate(w, h) ==
  /\ "failed" \in verdict[h]
  /\ resv[h] # "CONFIRMED"
  /\ Start(w, IF resv[h] = "PENDING_PAYMENT" THEN "comp.cancel" ELSE "comp.hold", h, resv[h])
  /\ UNCHANGED <<storeVars, database, verdict, bounds>>

\* update by id: the status it was read with is not part of the WHERE.
CompCancel(w) ==
  /\ At(w, "comp.cancel")
  /\ SetStatus(task[w].on, "CANCELLED")
  /\ Goto(w, "comp.hold")
  /\ UNCHANGED <<storeVars, seat, availableSeats, resDue, outbox, verdict, bounds>>

CompHold(w) ==
  /\ At(w, "comp.hold")
  /\ IF GetById(task[w].on) THEN GotoSeeing(w, "release.delete", "-")
     ELSE IF task[w].saw \in {"PENDING_PAYMENT", "CANCELLED"}
          THEN Goto(w, "comp.orphan")
          ELSE Return(w)
  /\ UNCHANGED <<storeVars, database, verdict, bounds>>

CompOrphan(w) ==
  /\ At(w, "comp.orphan")
  /\ ReleaseSeat(seatOf[task[w].on])
  /\ Return(w)
  /\ UNCHANGED <<storeVars, availableSeats, resv, resDue, outbox, verdict, bounds>>

\* releaseHold, for compensateCheckout and expireHolds.
ReleaseDelete(w) ==
  /\ At(w, "release.delete")
  /\ Delete(task[w].on)
  /\ Goto(w, "release.commit")
  /\ UNCHANGED <<document, due, database, verdict, bounds>>

ReleaseCommit(w) ==
  /\ At(w, "release.commit")
  /\ ReleaseSeat(seatOf[task[w].on])
  /\ Credit
  /\ Enqueue(task[w].on, "seat.released")
  /\ Return(w)
  /\ UNCHANGED <<storeVars, resv, resDue, verdict, bounds>>

CompensateCheckout(w) ==
  \/ \E h \in Minted : StartCompensate(w, h)
  \/ CompCancel(w) \/ CompHold(w) \/ CompOrphan(w)

ReleaseHold(w) == ReleaseDelete(w) \/ ReleaseCommit(w)

-----------------------------------------------------------------------------
(* expireHolds.  Ticks of a cron overlap when one is slow, so each id of a  *)
(* batch is a handler of its own.                                           *)

StartExpire(w, h) ==
  /\ h \in ListDueIds
  /\ Start(w, "expire.hold", h, "-")
  /\ UNCHANGED <<storeVars, database, verdict, bounds>>

ExpireHold(w) ==
  LET h == task[w].on IN
  /\ At(w, "expire.hold")
  /\ IF GetById(h)
     THEN GotoSeeing(w, "expire.check", IF h \in due THEN "late" ELSE "fresh")
     ELSE Goto(w, "expire.forget")
  /\ UNCHANGED <<storeVars, database, verdict, bounds>>

ExpireForget(w) ==
  /\ At(w, "expire.forget")
  /\ RemoveDueId(task[w].on)
  /\ Return(w)
  /\ UNCHANGED <<document, due, database, verdict, bounds>>

\* A checkout under way is spared while the copy of the hold read before has
\* not run out.
ExpireCheck(w) ==
  LET h == task[w].on
      runOut == task[w].saw = "late" \/ h \in due
  IN
  /\ At(w, "expire.check")
  /\ IF resv[h] # "PENDING_PAYMENT" THEN GotoSeeing(w, "release.delete", "-")
     ELSE IF runOut THEN Goto(w, "expire.mark")
          ELSE Return(w)
  /\ UNCHANGED <<storeVars, database, verdict, bounds>>

ExpireMark(w) ==
  /\ At(w, "expire.mark")
  /\ SetStatus(task[w].on, "EXPIRED")
  /\ GotoSeeing(w, "release.delete", "-")
  /\ UNCHANGED <<storeVars, seat, availableSeats, resDue, outbox, verdict, bounds>>

ExpireHolds(w) ==
  \/ \E h \in Minted : StartExpire(w, h)
  \/ ExpireHold(w) \/ ExpireForget(w) \/ ExpireCheck(w) \/ ExpireMark(w)

-----------------------------------------------------------------------------
(* healOrphans: rows whose window is over and whose hold is gone, then HELD *)
(* seats without a seat key and without a checkout.  Each row and each seat *)
(* of a batch is a handler of its own (a batch is below its LIMIT here).    *)

MutantHealable(h) == h \in resDue   \* without the status filter
MutantHealableLive(h) == resv[h] = "PENDING_PAYMENT" /\ h \notin resDue   \* gt for lt
Healable(h) == resv[h] = "PENDING_PAYMENT" /\ h \in resDue

StartHeal(w, h) ==
  /\ Healable(h)
  /\ Start(w, "heal.hold", h, "-")
  /\ UNCHANGED <<storeVars, database, verdict, bounds>>

HealHold(w) ==
  /\ At(w, "heal.hold")
  /\ IF GetById(task[w].on) THEN Return(w) ELSE Goto(w, "heal.expire")
  /\ UNCHANGED <<storeVars, database, verdict, bounds>>

HealExpire(w) ==
  LET h == task[w].on IN
  /\ At(w, "heal.expire")
  /\ SetStatus(h, "EXPIRED")
  /\ task' = [task EXCEPT ![w] = [pc |-> "free.seat", on |-> seatOf[h], saw |-> "-"]]
  /\ UNCHANGED <<storeVars, seat, availableSeats, resDue, outbox, verdict, bounds>>

StartSweep(w, s) ==
  /\ seat[s] = "HELD"
  /\ Start(w, "sweep.key", s, "-")
  /\ UNCHANGED <<storeVars, database, verdict, bounds>>

SweepKey(w) ==
  /\ At(w, "sweep.key")
  /\ IF GetHoldIdBySeat(task[w].on) = None THEN Goto(w, "sweep.checkout") ELSE Return(w)
  /\ UNCHANGED <<storeVars, database, verdict, bounds>>

SweepCheckout(w) ==
  /\ At(w, "sweep.checkout")
  /\ IF \E g \in Minted \ resDue : seatOf[g] = task[w].on /\ resv[g] = "PENDING_PAYMENT"
     THEN Return(w)
     ELSE Goto(w, "free.seat")
  /\ UNCHANGED <<storeVars, database, verdict, bounds>>

\* The two statements that end both parts; no transaction joins them.
FreeSeat(w) ==
  /\ At(w, "free.seat")
  /\ ReleaseSeat(task[w].on)
  /\ Goto(w, "free.trip")
  /\ UNCHANGED <<storeVars, availableSeats, resv, resDue, outbox, verdict, bounds>>

FreeTrip(w) ==
  /\ At(w, "free.trip")
  /\ Credit
  /\ Return(w)
  /\ UNCHANGED <<storeVars, seat, resv, resDue, outbox, verdict, bounds>>

HealOrphans(w) ==
  \/ \E h \in Minted : StartHeal(w, h)
  \/ \E s \in Seats : StartSweep(w, s)
  \/ HealHold(w) \/ HealExpire(w) \/ SweepKey(w) \/ SweepCheckout(w)
  \/ FreeSeat(w) \/ FreeTrip(w)

-----------------------------------------------------------------------------
(* The environment *)

\* A payment event or compensation RPC is sent.  It stays in verdict, so it
\* may be delivered again: an unacknowledged message is redelivered.
Decide(h, v) ==
  /\ v \notin verdict[h]
  /\ verdict' = [verdict EXCEPT ![h] = @ \cup {v}]
  /\ UNCHANGED <<storeVars, database, task, bounds>>

\* The expiresAt last written for h passes; so does the row's, which is
\* never later.
Elapse(h) ==
  /\ h \notin due
  /\ due' = due \cup {h}
  /\ resDue' = IF resv[h] = "NONE" THEN resDue ELSE resDue \cup {h}
  /\ UNCHANGED <<document, redis, seat, availableSeats, resv, outbox, task, verdict, bounds>>

\* An expiresAt copied before a later beginPayment extended the hold passes:
\* the row's, or that of the hold an expireHolds read.
ElapseRow(h) ==
  /\ begins[h] > 1 /\ resv[h] # "NONE" /\ h \notin resDue
  /\ resDue' = resDue \cup {h}
  /\ UNCHANGED <<storeVars, seat, availableSeats, resv, outbox, task, verdict, bounds>>

ElapseCopy(w) ==
  /\ At(w, "expire.check") /\ task[w].saw = "fresh" /\ begins[task[w].on] > 1
  /\ GotoSeeing(w, "expire.check", "late")
  /\ UNCHANGED <<storeVars, database, verdict, bounds>>

KeyLapses ==
  /\ \/ \E h \in Holds : HoldKeyLapses(h)
     \/ \E s \in Seats : SeatKeyLapses(s)
     \/ \E k \in Keys : IdemKeyLapses(k)
  /\ UNCHANGED <<document, due, database, task, verdict, bounds>>

Aborted(w) ==
  /\ ~At(w, "idle")
  /\ failures < MaxFailures
  /\ failures' = failures + 1
  /\ Return(w)
  /\ UNCHANGED <<storeVars, database, verdict, begins>>

Handler(w) ==
  \/ Create(w) \/ BeginPayment(w) \/ OnPaymentApproved(w) \/ CompensateCheckout(w)
  \/ ReleaseHold(w) \/ ExpireHolds(w) \/ HealOrphans(w)

TimePasses ==
  \/ \E h \in Minted : Elapse(h) \/ ElapseRow(h)
  \/ \E w \in Workers : ElapseCopy(w)
  \/ KeyLapses

Next ==
  \/ \E w \in Workers : Handler(w) \/ Aborted(w)
  \/ \E h \in Minted, v \in Verdicts : Decide(h, v)
  \/ TimePasses

Spec == Init /\ [][Next]_vars

\* A handler that runs reaches its end.
Proceed(w) == ~At(w, "idle") /\ Handler(w)

\* Fairness: the event loop runs every handler on, time passes, Redis drops
\* keys, and the crons tick for ever.  A tick needs no free worker in the code,
\* only in this model, hence strong fairness.  Nothing is assumed of clients,
\* of the saga or of messages.
Fairness ==
  /\ \A w \in Workers : WF_vars(Proceed(w))
  /\ \A h \in Holds :
       /\ WF_vars(h \in Minted /\ Elapse(h))
       /\ SF_vars(\E w \in Workers : StartExpire(w, h))
       /\ SF_vars(\E w \in Workers : StartHeal(w, h))
  /\ \A s \in Seats : SF_vars(\E w \in Workers : StartSweep(w, s))
  /\ WF_vars(KeyLapses)

FairSpec == Spec /\ Fairness

\* The part of the service that takes seats and never gives one back: rival
\* customers, retries, aborts and elapsed windows, but no compensation and no
\* cron.
AcquireNext ==
  \/ \E w \in Workers :
       Create(w) \/ BeginPayment(w) \/ OnPaymentApproved(w) \/ Aborted(w)
  \/ \E h \in Minted : Decide(h, "approved")
  \/ TimePasses

AcquireSpec == Init /\ [][AcquireNext]_vars

-----------------------------------------------------------------------------
(* Properties of every behaviour *)

\* A sold seat stays sold: no handler gives it away, however stale the row,
\* the hold or the list it acts upon.
SoldIsFinal == [][\A s \in Seats : seat[s] = "SOLD" => seat'[s] = "SOLD"]_vars

\* A checkout that ended without a sale is never confirmed or reopened, and a
\* CONFIRMED row was PENDING_PAYMENT the step before.
EndedStaysEnded ==
  [][\A h \in Holds :
       /\ resv[h] \in {"EXPIRED", "CANCELLED"} => resv'[h] \in {"EXPIRED", "CANCELLED"}
       /\ resv'[h] = "PENDING_PAYMENT" => resv[h] \in {"NONE", "PENDING_PAYMENT"}
       /\ resv'[h] = "CONFIRMED" => resv[h] \in {"PENDING_PAYMENT", "CONFIRMED"}]_vars

\* However often payment.approved is delivered, and whatever races with it, a
\* reservation has at most one seat.confirmed in the outbox: exactly one while
\* it is CONFIRMED, none before it is.
ConfirmedOnce ==
  \A h \in Holds :
    /\ outbox[h]["seat.confirmed"] <= 1
    /\ resv[h] \in {"NONE", "PENDING_PAYMENT"} => outbox[h]["seat.confirmed"] = 0
    /\ resv[h] = "CONFIRMED" => outbox[h]["seat.confirmed"] = 1

\* A seat is SOLD only if seat.confirmed was recorded for a hold of that seat.
SoldIsAnnounced ==
  \A s \in Seats : seat[s] = "SOLD" =>
    \E h \in Holds : seatOf[h] = s /\ outbox[h]["seat.confirmed"] > 0

-----------------------------------------------------------------------------
(* Properties that hold while handlers do not interleave, or while no seat   *)
(* is given back; MCBooking has the runs, and the runs that violate them.    *)

\* A CONFIRMED reservation stays CONFIRMED: compensation and expiry spare it.
ConfirmedIsFinal ==
  [][\A h \in Holds : resv[h] = "CONFIRMED" => resv'[h] = "CONFIRMED"]_vars

\* Two holds that are alive and have not run out are on different seats.
SeatMutex ==
  \A g, h \in holdKey \ due : seatOf[g] = seatOf[h] => g = h

\* A hold that is alive and has not run out keeps its seat off the market.
HoldKeepsSeat ==
  \A h \in holdKey \ due : seat[seatOf[h]] # "AVAILABLE"

\* One seat is never sold to two reservations.
NoDoubleSale ==
  \A g, h \in Holds :
    resv[g] = "CONFIRMED" /\ resv[h] = "CONFIRMED" /\ seatOf[g] = seatOf[h] => g = h

\* A CONFIRMED reservation owns a SOLD seat.
ConfirmedSeatIsSold ==
  \A h \in Holds : resv[h] = "CONFIRMED" => seat[seatOf[h]] = "SOLD"

\* The seats a search promises (trips.service.ts:52) are never fewer than the
\* seats on the market: each UPDATE Seat pays for at most one debit, whatever is
\* undone or aborted in between (reservations.service.ts:181, 212, 240-246).
CountCoversMarket ==
  availableSeats >= Cardinality({s \in Seats : seat[s] = "AVAILABLE"})

\* A hold is released at most once: one seat.released, one credit to the trip.
ReleasedOnce == \A h \in Holds : outbox[h]["seat.released"] <= 1

-----------------------------------------------------------------------------
(* What the service promises, see ReservationLedger *)

LedgerStatus ==
  [NONE |-> "none", PENDING_PAYMENT |-> "open", CONFIRMED |-> "confirmed",
   EXPIRED |-> "ended", CANCELLED |-> "ended"]

Ledger == INSTANCE ReservationLedger WITH
  status  <- [h \in Holds |-> LedgerStatus[resv[h]]],
  sales   <- [h \in Holds |-> outbox[h]["seat.confirmed"]],
  returns <- [h \in Holds |-> outbox[h]["seat.released"]],
  sold    <- {s \in Seats : seat[s] = "SOLD"}

\* With handlers that do not interleave, a reservation is confirmed at most once
\* and for good, its sale is announced with it and only then is its seat sold,
\* and at most one release is announced.
KeepsLedger == Ledger!Spec

-----------------------------------------------------------------------------
(* Liveness, under FairSpec *)

\* A HELD seat is sold or comes back to the market, also when the handler
\* that took it died between any two commands.
SeatsComeBack == \A s \in Seats : seat[s] = "HELD" ~> seat[s] # "HELD"

\* A checkout does not stay open for ever, also when no payment event arrives.
CheckoutsEnd ==
  \A h \in Holds : resv[h] = "PENDING_PAYMENT" ~> resv[h] # "PENDING_PAYMENT"
=============================================================================

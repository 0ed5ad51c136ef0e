---------------------------- MODULE BookingProofs ----------------------------
(***************************************************************************)
(* Theorems about Booking, for every set of holds, seats, keys and         *)
(* handlers and every value of the bounds.                                 *)
(***************************************************************************)
EXTENDS Booking, FiniteSetTheorems, TLAPS

Tasks == [pc : Points, on : Holds \cup Seats \cup {None}, saw : Seen]

SeatPoints == {"sweep.key", "sweep.checkout", "free.seat", "free.trip"}

\* The subject of a handler is the seat it sweeps, or a hold that was minted.
SubjectOK ==
  \A w \in Workers :
    IF task[w].pc \in SeatPoints THEN task[w].on \in Seats
    ELSE task[w].pc # "idle" => task[w].on \in Minted

\* A minted hold never changes its seat.
Keeps == \A h \in Minted : seatOf'[h] = seatOf[h] /\ h \in Minted'

-----------------------------------------------------------------------------
(* Types and subjects *)

LEMMA StartTyped ==
  ASSUME TypeOK, SubjectOK, Keeps, NEW w \in Workers,
         NEW p \in Points \ ({"idle"} \cup SeatPoints), NEW x \in Minted, NEW v \in Seen,
         Start(w, p, x, v)
  PROVE  task' \in [Workers -> Tasks] /\ SubjectOK'
BY DEF TypeOK, SubjectOK, Keeps, Tasks, Start, Minted

LEMMA GotoTyped ==
  ASSUME TypeOK, SubjectOK, Keeps, NEW w \in Workers, NEW p \in Points \ {"idle"},
         task[w].pc # "idle", p \in SeatPoints <=> task[w].pc \in SeatPoints,
         Goto(w, p)
  PROVE  task' \in [Workers -> Tasks] /\ SubjectOK'
BY DEF TypeOK, SubjectOK, Keeps, Tasks, Goto

LEMMA GotoSeeingTyped ==
  ASSUME TypeOK, SubjectOK, Keeps, NEW w \in Workers, NEW p \in Points \ {"idle"},
         NEW v \in Seen,
         task[w].pc # "idle", p \in SeatPoints <=> task[w].pc \in SeatPoints,
         GotoSeeing(w, p, v)
  PROVE  task' \in [Workers -> Tasks] /\ SubjectOK'
BY DEF TypeOK, SubjectOK, Keeps, Tasks, GotoSeeing

LEMMA ReturnTyped ==
  ASSUME TypeOK, SubjectOK, Keeps, NEW w \in Workers, Return(w)
  PROVE  task' \in [Workers -> Tasks] /\ SubjectOK'
BY DEF TypeOK, SubjectOK, Keeps, Tasks, Return, Idle, Points, SeatPoints, Seen

LEMMA CreateTyped ==
  ASSUME TypeOK, SubjectOK, NEW w \in Workers, Create(w)
  PROVE  TypeOK' /\ SubjectOK'
<1> USE DEF Points, SeatPoints, Seen, Statuses
<1>1. ASSUME NEW h \in Holds, NEW s \in Seats, NEW k \in Keys, StartCreate(w, h, s, k)
      PROVE  TypeOK' /\ SubjectOK'
  <2>1. Keeps
    BY <1>1 DEF StartCreate, Keeps, Minted, TypeOK, StoreTypeOK
  <2>2. h \in Minted'
    BY <1>1, NoneAssumption DEF StartCreate, Minted, TypeOK, StoreTypeOK
  <2>3. task' \in [Workers -> Tasks]
    BY <1>1 DEF StartCreate, Start, TypeOK, Tasks
  <2>4. SubjectOK'
    BY <1>1, <2>2, <2>1 DEF StartCreate, Start, TypeOK, SubjectOK, Keeps, Tasks
  <2>5. task' \in [Workers -> Tasks] /\ SubjectOK'
    BY <2>3, <2>4
  <2> QED BY <1>1, <2>5 DEF StartCreate, TypeOK, StoreTypeOK, Tasks, redis, database, bounds
<1>2. CASE CreateLock(w)
  <2>1. Keeps
    BY <1>2 DEF CreateLock, Keeps, Minted, storeVars, document
  <2>2. task' \in [Workers -> Tasks] /\ SubjectOK'
    BY <1>2, <2>1, GotoTyped, ReturnTyped DEF CreateLock, At
  <2> QED BY <1>2, <2>2 DEF CreateLock, LockSeat, TypeOK, StoreTypeOK, Tasks, storeVars, document, redis, bounds
<1>3. CASE CreateIdem(w)
  <2>1. Keeps
    BY <1>3 DEF CreateIdem, Keeps, Minted, storeVars, document
  <2>2. task' \in [Workers -> Tasks] /\ SubjectOK'
    BY <1>3, <2>1, GotoTyped DEF CreateIdem, At
  <2>3. task[w].on \in Holds
    BY <1>3 DEF CreateIdem, At, SubjectOK, Minted
  <2> QED BY <1>3, <2>2, <2>3 DEF CreateIdem, SetIdemNX, TypeOK, StoreTypeOK, Tasks, document, redis, database, bounds
<1>4. CASE CreateReplay(w)
  <2>1. Keeps
    BY <1>4 DEF CreateReplay, Keeps, Minted, storeVars, document
  <2>2. task' \in [Workers -> Tasks] /\ SubjectOK'
    BY <1>4, <2>1, GotoTyped, ReturnTyped DEF CreateReplay, At
  <2> QED BY <1>4, <2>2 DEF CreateReplay, TypeOK, StoreTypeOK, Tasks, storeVars, document, redis, database, bounds
<1>5. CASE CreateSeat(w)
  <2>1. Keeps
    BY <1>5 DEF CreateSeat, Keeps, Minted, storeVars, document
  <2>2. task' \in [Workers -> Tasks] /\ SubjectOK'
    BY <1>5, <2>1, GotoTyped DEF CreateSeat, At
  <2>3. task[w].on \in Holds
    BY <1>5 DEF CreateSeat, At, SubjectOK, Minted
  <2> QED BY <1>5, <2>2, <2>3 DEF CreateSeat, SetSeatNX, TypeOK, StoreTypeOK, Tasks, document, redis, database, bounds
<1>6. CASE CreateUnidem(w)
  <2>1. Keeps
    BY <1>6 DEF CreateUnidem, Keeps, Minted, storeVars, document
  <2>2. task' \in [Workers -> Tasks] /\ SubjectOK'
    BY <1>6, <2>1, GotoTyped DEF CreateUnidem, At
  <2>3. task[w].on \in Holds
    BY <1>6 DEF CreateUnidem, At, SubjectOK, Minted
  <2> QED BY <1>6, <2>2, <2>3 DEF CreateUnidem, DelIdem, TypeOK, StoreTypeOK, Tasks, document, database, bounds
<1>7. CASE CreateUndo(w)
  <2>1. Keeps
    BY <1>7 DEF CreateUndo, Keeps, Minted, storeVars, document
  <2>2. task' \in [Workers -> Tasks] /\ SubjectOK'
    BY <1>7, <2>1, ReturnTyped DEF CreateUndo, At
  <2> QED BY <1>7, <2>2 DEF CreateUndo, ReleaseSeat, TypeOK, StoreTypeOK, Tasks, storeVars, document, redis, bounds
<1>8. CASE CreateHold(w)
  <2>1. Keeps
    BY <1>8 DEF CreateHold, Keeps, Minted, storeVars, document
  <2>2. task' \in [Workers -> Tasks] /\ SubjectOK'
    BY <1>8, <2>1, GotoTyped DEF CreateHold, At
  <2>3. task[w].on \in Holds
    BY <1>8 DEF CreateHold, At, SubjectOK, Minted
  <2> QED BY <1>8, <2>2, <2>3 DEF CreateHold, PutHold, TypeOK, StoreTypeOK, Tasks, document, database, bounds
<1>9. CASE CreateCommit(w)
  <2>1. Keeps
    BY <1>9 DEF CreateCommit, Keeps, Minted, storeVars, document
  <2>2. task' \in [Workers -> Tasks] /\ SubjectOK'
    BY <1>9, <2>1, ReturnTyped DEF CreateCommit, At
  <2>3. task[w].on \in Holds
    BY <1>9 DEF CreateCommit, At, SubjectOK, Minted
  <2> QED BY <1>9, <2>2, <2>3 DEF CreateCommit, Debit, Enqueue, SeatEvents, TypeOK, StoreTypeOK, Tasks, storeVars, document, redis, bounds
<1> QED BY <1>1, <1>2, <1>3, <1>4, <1>5, <1>6, <1>7, <1>8, <1>9 DEF Create

LEMMA BeginPaymentTyped ==
  ASSUME TypeOK, SubjectOK, NEW w \in Workers, BeginPayment(w)
  PROVE  TypeOK' /\ SubjectOK'
<1> USE DEF Points, SeatPoints, Seen, Statuses
<1>1. ASSUME NEW h \in Minted, StartBegin(w, h)
      PROVE  TypeOK' /\ SubjectOK'
  <2>1. Keeps
    BY <1>1 DEF StartBegin, Keeps, Minted, storeVars, document
  <2>2. task' \in [Workers -> Tasks] /\ SubjectOK'
    BY <1>1, <2>1, StartTyped DEF StartBegin
  <2> QED BY <1>1, <2>2 DEF StartBegin, Minted, TypeOK, StoreTypeOK, Tasks, storeVars, document, redis, database
<1>2. CASE BeginTouch(w)
  <2>1. Keeps
    BY <1>2 DEF BeginTouch, Keeps, Minted, storeVars, document
  <2>2. task' \in [Workers -> Tasks] /\ SubjectOK'
    BY <1>2, <2>1, GotoSeeingTyped, ReturnTyped DEF BeginTouch, At
  <2> QED BY <1>2, <2>2 DEF BeginTouch, TypeOK, StoreTypeOK, Tasks, storeVars, document, redis, database, bounds
<1>3. CASE BeginHold(w)
  <2>1. Keeps
    BY <1>3 DEF BeginHold, Keeps, Minted, storeVars, document
  <2>2. task' \in [Workers -> Tasks] /\ SubjectOK'
    BY <1>3, <2>1, GotoTyped, ReturnTyped DEF BeginHold, At
  <2> QED BY <1>3, <2>2 DEF BeginHold, TypeOK, StoreTypeOK, Tasks, storeVars, document, redis, database, bounds
<1>4. CASE BeginRefresh(w)
  <2>1. Keeps
    BY <1>4 DEF BeginRefresh, Keeps, Refresh, Minted, storeVars, document
  <2>2. task' \in [Workers -> Tasks] /\ SubjectOK'
    BY <1>4, <2>1, GotoTyped, ReturnTyped DEF BeginRefresh, At
  <2>3. task[w].on \in Holds
    BY <1>4 DEF BeginRefresh, At, SubjectOK, Minted
  <2> QED BY <1>4, <2>2, <2>3 DEF BeginRefresh, Refresh, TypeOK, StoreTypeOK, Tasks, document, database, bounds
<1>5. CASE BeginInsert(w)
  <2>1. Keeps
    BY <1>5 DEF BeginInsert, Keeps, Minted, storeVars, document
  <2>2. task' \in [Workers -> Tasks] /\ SubjectOK'
    BY <1>5, <2>1, ReturnTyped DEF BeginInsert, At
  <2>3. task[w].on \in Holds
    BY <1>5 DEF BeginInsert, At, SubjectOK, Minted
  <2> QED BY <1>5, <2>2, <2>3 DEF BeginInsert, SetStatus, TypeOK, StoreTypeOK, Tasks, storeVars, document, redis, bounds
<1> QED BY <1>1, <1>2, <1>3, <1>4, <1>5 DEF BeginPayment

LEMMA OnPaymentApprovedTyped ==
  ASSUME TypeOK, SubjectOK, NEW w \in Workers, OnPaymentApproved(w)
  PROVE  TypeOK' /\ SubjectOK'
<1> USE DEF Points, SeatPoints, Seen, Statuses
<1>1. ASSUME NEW h \in Minted, StartApprove(w, h)
      PROVE  TypeOK' /\ SubjectOK'
  <2>1. Keeps
    BY <1>1 DEF StartApprove, Keeps, Minted, storeVars, document
  <2>2. resv[h] \in Seen
    BY DEF Minted, TypeOK
  <2>3. task' \in [Workers -> Tasks] /\ SubjectOK'
    BY <1>1, <2>1, StartTyped, <2>2 DEF StartApprove
  <2> QED BY <1>1, <2>3 DEF StartApprove, Minted, TypeOK, StoreTypeOK, Tasks, storeVars, document, redis, database, bounds
<1>2. CASE ApproveHold(w)
  <2>1. Keeps
    BY <1>2 DEF ApproveHold, Keeps, Minted, storeVars, document
  <2>2. task' \in [Workers -> Tasks] /\ SubjectOK'
    BY <1>2, <2>1, GotoTyped, GotoSeeingTyped, ReturnTyped DEF ApproveHold, At
  <2> QED BY <1>2, <2>2 DEF ApproveHold, TypeOK, StoreTypeOK, Tasks, storeVars, document, redis, database, bounds
<1>3. CASE ApproveConfirm(w)
  <2>1. Keeps
    BY <1>3 DEF ApproveConfirm, Keeps, Minted, storeVars, document
  <2>2. task' \in [Workers -> Tasks] /\ SubjectOK'
    BY <1>3, <2>1, GotoTyped, ReturnTyped DEF ApproveConfirm, DropIfSeen, At
  <2>3. task[w].on \in Holds
    BY <1>3 DEF ApproveConfirm, At, SubjectOK, Minted
  <2>4. outbox' \in [Holds -> [SeatEvents -> Nat]]
    BY <1>3, <2>3 DEF ApproveConfirm, Enqueue, SeatEvents, TypeOK
  <2>5. seat' \in [Seats -> {"AVAILABLE", "HELD", "SOLD"}]
    BY <1>3 DEF ApproveConfirm, SellSeat, ReleaseSeat, TypeOK
  <2> QED BY <1>3, <2>2, <2>3, <2>4, <2>5 DEF ApproveConfirm, SetStatus, TypeOK, StoreTypeOK, Tasks, storeVars, document, redis, bounds
<1>4. CASE ApproveDrop(w)
  <2>1. Keeps
    BY <1>4 DEF ApproveDrop, Keeps, Minted, storeVars, document
  <2>2. task' \in [Workers -> Tasks] /\ SubjectOK'
    BY <1>4, <2>1, ReturnTyped DEF ApproveDrop, At
  <2> QED BY <1>4, <2>2 DEF ApproveDrop, Delete, TypeOK, StoreTypeOK, Tasks, document, database, bounds
<1> QED BY <1>1, <1>2, <1>3, <1>4 DEF OnPaymentApproved

LEMMA CompensateCheckoutTyped ==
  ASSUME TypeOK, SubjectOK, NEW w \in Workers, CompensateCheckout(w)
  PROVE  TypeOK' /\ SubjectOK'
<1> USE DEF Points, SeatPoints, Seen, Statuses
<1>1. ASSUME NEW h \in Minted, StartCompensate(w, h)
      PROVE  TypeOK' /\ SubjectOK'
  <2>1. Keeps
    BY <1>1 DEF StartCompensate, Keeps, Minted, storeVars, document
  <2>2. resv[h] \in Seen
    BY DEF Minted, TypeOK
  <2>3. task' \in [Workers -> Tasks] /\ SubjectOK'
    BY <1>1, <2>1, StartTyped, <2>2 DEF StartCompensate
  <2> QED BY <1>1, <2>3 DEF StartCompensate, Minted, TypeOK, StoreTypeOK, Tasks, storeVars, document, redis, database, bounds
<1>2. CASE CompCancel(w)
  <2>1. Keeps
    BY <1>2 DEF CompCancel, Keeps, Minted, storeVars, document
  <2>2. task' \in [Workers -> Tasks] /\ SubjectOK'
    BY <1>2, <2>1, GotoTyped DEF CompCancel, At
  <2> QED BY <1>2, <2>2 DEF CompCancel, SetStatus, TypeOK, StoreTypeOK, Tasks, storeVars, document, redis, bounds
<1>3. CASE CompHold(w)
  <2>1. Keeps
    BY <1>3 DEF CompHold, Keeps, Minted, storeVars, document
  <2>2. task' \in [Workers -> Tasks] /\ SubjectOK'
    BY <1>3, <2>1, GotoTyped, GotoSeeingTyped, ReturnTyped DEF CompHold, At
  <2> QED BY <1>3, <2>2 DEF CompHold, TypeOK, StoreTypeOK, Tasks, storeVars, document, redis, database, bounds
<1>4. CASE CompOrphan(w)
  <2>1. Keeps
    BY <1>4 DEF CompOrphan, Keeps, Minted, storeVars, document
  <2>2. task' \in [Workers -> Tasks] /\ SubjectOK'
    BY <1>4, <2>1, ReturnTyped DEF CompOrphan, At
  <2> QED BY <1>4, <2>2 DEF CompOrphan, ReleaseSeat, TypeOK, StoreTypeOK, Tasks, storeVars, document, redis, bounds
<1> QED BY <1>1, <1>2, <1>3, <1>4 DEF CompensateCheckout

LEMMA ReleaseHoldTyped ==
  ASSUME TypeOK, SubjectOK, NEW w \in Workers, ReleaseHold(w)
  PROVE  TypeOK' /\ SubjectOK'
<1> USE DEF Points, SeatPoints, Seen, Statuses
<1>1. CASE ReleaseDelete(w)
  <2>1. Keeps
    BY <1>1 DEF ReleaseDelete, Keeps, Minted, storeVars, document
  <2>2. task' \in [Workers -> Tasks] /\ SubjectOK'
    BY <1>1, <2>1, GotoTyped DEF ReleaseDelete, At
  <2> QED BY <1>1, <2>2 DEF ReleaseDelete, Delete, TypeOK, StoreTypeOK, Tasks, document, database, bounds
<1>2. CASE ReleaseCommit(w)
  <2>1. Keeps
    BY <1>2 DEF ReleaseCommit, Keeps, Minted, storeVars, document
  <2>2. task' \in [Workers -> Tasks] /\ SubjectOK'
    BY <1>2, <2>1, ReturnTyped DEF ReleaseCommit, At
  <2>3. task[w].on \in Holds
    BY <1>2 DEF ReleaseCommit, At, SubjectOK, Minted
  <2>4. outbox' \in [Holds -> [SeatEvents -> Nat]]
    BY <1>2, <2>3 DEF ReleaseCommit, Enqueue, SeatEvents, TypeOK
  <2>5. seat' \in [Seats -> {"AVAILABLE", "HELD", "SOLD"}]
    BY <1>2 DEF ReleaseCommit, SellSeat, ReleaseSeat, TypeOK
  <2> QED BY <1>2, <2>2, <2>3, <2>4, <2>5 DEF ReleaseCommit, Credit, TypeOK, StoreTypeOK, Tasks, storeVars, document, redis, bounds
<1> QED BY <1>1, <1>2 DEF ReleaseHold

LEMMA ExpireHoldsTyped ==
  ASSUME TypeOK, SubjectOK, NEW w \in Workers, ExpireHolds(w)
  PROVE  TypeOK' /\ SubjectOK'
<1> USE DEF Points, SeatPoints, Seen, Statuses
<1>1. ASSUME NEW h \in Minted, StartExpire(w, h)
      PROVE  TypeOK' /\ SubjectOK'
  <2>1. Keeps
    BY <1>1 DEF StartExpire, Keeps, Minted, storeVars, document
  <2>2. task' \in [Workers -> Tasks] /\ SubjectOK'
    BY <1>1, <2>1, StartTyped DEF StartExpire
  <2> QED BY <1>1, <2>2 DEF StartExpire, Minted, TypeOK, StoreTypeOK, Tasks, storeVars, document, redis, database, bounds
<1>2. CASE ExpireHold(w)
  <2>1. Keeps
    BY <1>2 DEF ExpireHold, Keeps, Minted, storeVars, document
  <2>2. task' \in [Workers -> Tasks] /\ SubjectOK'
    BY <1>2, <2>1, GotoTyped, GotoSeeingTyped DEF ExpireHold, At
  <2> QED BY <1>2, <2>2 DEF ExpireHold, TypeOK, StoreTypeOK, Tasks, storeVars, document, redis, database, bounds
<1>3. CASE ExpireForget(w)
  <2>1. Keeps
    BY <1>3 DEF ExpireForget, Keeps, Minted, storeVars, document
  <2>2. task' \in [Workers -> Tasks] /\ SubjectOK'
    BY <1>3, <2>1, ReturnTyped DEF ExpireForget, At
  <2> QED BY <1>3, <2>2 DEF ExpireForget, RemoveDueId, TypeOK, StoreTypeOK, Tasks, document, database, bounds
<1>4. CASE ExpireCheck(w)
  <2>1. Keeps
    BY <1>4 DEF ExpireCheck, Keeps, Minted, storeVars, document
  <2>2. task' \in [Workers -> Tasks] /\ SubjectOK'
    BY <1>4, <2>1, GotoTyped, GotoSeeingTyped, ReturnTyped DEF ExpireCheck, At
  <2> QED BY <1>4, <2>2 DEF ExpireCheck, TypeOK, StoreTypeOK, Tasks, storeVars, document, redis, database, bounds
<1>5. CASE ExpireMark(w)
  <2>1. Keeps
    BY <1>5 DEF ExpireMark, Keeps, Minted, storeVars, document
  <2>2. task' \in [Workers -> Tasks] /\ SubjectOK'
    BY <1>5, <2>1, GotoSeeingTyped DEF ExpireMark, At
  <2> QED BY <1>5, <2>2 DEF ExpireMark, SetStatus, TypeOK, StoreTypeOK, Tasks, storeVars, document, redis, bounds
<1> QED BY <1>1, <1>2, <1>3, <1>4, <1>5 DEF ExpireHolds

LEMMA HealOrphansTyped ==
  ASSUME TypeOK, SubjectOK, NEW w \in Workers, HealOrphans(w)
  PROVE  TypeOK' /\ SubjectOK'
<1> USE DEF Points, SeatPoints, Seen, Statuses
<1>1. ASSUME NEW h \in Minted, StartHeal(w, h)
      PROVE  TypeOK' /\ SubjectOK'
  <2>1. Keeps
    BY <1>1 DEF StartHeal, Keeps, Minted, storeVars, document
  <2>2. task' \in [Workers -> Tasks] /\ SubjectOK'
    BY <1>1, <2>1, StartTyped DEF StartHeal
  <2> QED BY <1>1, <2>2 DEF StartHeal, Minted, TypeOK, StoreTypeOK, Tasks, storeVars, document, redis, database, bounds
<1>2. ASSUME NEW s \in Seats, StartSweep(w, s)
      PROVE  TypeOK' /\ SubjectOK'
  <2>1. Keeps
    BY <1>2 DEF StartSweep, Keeps, Minted, storeVars, document
  <2>2. task' \in [Workers -> Tasks] /\ SubjectOK'
    BY <1>2, <2>1 DEF StartSweep, Start, TypeOK, StoreTypeOK, SubjectOK, Keeps, Tasks, Minted
  <2> QED BY <1>2, <2>2 DEF StartSweep, Minted, TypeOK, StoreTypeOK, Tasks, storeVars, document, redis, database, bounds
<1>3. CASE HealHold(w)
  <2>1. Keeps
    BY <1>3 DEF HealHold, Keeps, Minted, storeVars, document
  <2>2. task' \in [Workers -> Tasks] /\ SubjectOK'
    BY <1>3, <2>1, GotoTyped, ReturnTyped DEF HealHold, At
  <2> QED BY <1>3, <2>2 DEF HealHold, TypeOK, StoreTypeOK, Tasks, storeVars, document, redis, database, bounds
<1>4. CASE HealExpire(w)
  <2>1. Keeps
    BY <1>4 DEF HealExpire, Keeps, Minted, storeVars, document
  <2>2. task[w].on \in Minted /\ seatOf[task[w].on] \in Seats
    BY <1>4 DEF HealExpire, At, SubjectOK, Minted, TypeOK, StoreTypeOK
  <2>3. task' \in [Workers -> Tasks] /\ SubjectOK'
    BY <1>4, <2>2, <2>1 DEF HealExpire, TypeOK, Tasks, SubjectOK, Keeps
  <2>4. task[w].on \in Holds
    BY <1>4 DEF HealExpire, At, SubjectOK, Minted
  <2> QED BY <1>4, <2>3, <2>4 DEF HealExpire, SetStatus, TypeOK, StoreTypeOK, Tasks, storeVars, document, redis, bounds
<1>5. CASE SweepKey(w)
  <2>1. Keeps
    BY <1>5 DEF SweepKey, Keeps, Minted, storeVars, document
  <2>2. task' \in [Workers -> Tasks] /\ SubjectOK'
    BY <1>5, <2>1, GotoTyped, ReturnTyped DEF SweepKey, At
  <2> QED BY <1>5, <2>2 DEF SweepKey, TypeOK, StoreTypeOK, Tasks, storeVars, document, redis, database, bounds
<1>6. CASE SweepCheckout(w)
  <2>1. Keeps
    BY <1>6 DEF SweepCheckout, Keeps, Minted, storeVars, document
  <2>2. task' \in [Workers -> Tasks] /\ SubjectOK'
    BY <1>6, <2>1, GotoTyped, ReturnTyped DEF SweepCheckout, At
  <2> QED BY <1>6, <2>2 DEF SweepCheckout, TypeOK, StoreTypeOK, Tasks, storeVars, document, redis, database, bounds
<1>7. CASE FreeSeat(w)
  <2>1. Keeps
    BY <1>7 DEF FreeSeat, Keeps, Minted, storeVars, document
  <2>2. task' \in [Workers -> Tasks] /\ SubjectOK'
    BY <1>7, <2>1, GotoTyped DEF FreeSeat, At
  <2> QED BY <1>7, <2>2 DEF FreeSeat, ReleaseSeat, TypeOK, StoreTypeOK, Tasks, storeVars, document, redis, bounds
<1>8. CASE FreeTrip(w)
  <2>1. Keeps
    BY <1>8 DEF FreeTrip, Keeps, Minted, storeVars, document
  <2>2. task' \in [Workers -> Tasks] /\ SubjectOK'
    BY <1>8, <2>1, ReturnTyped DEF FreeTrip, At
  <2> QED BY <1>8, <2>2 DEF FreeTrip, Credit, TypeOK, StoreTypeOK, Tasks, storeVars, document, redis, bounds
<1> QED BY <1>1, <1>2, <1>3, <1>4, <1>5, <1>6, <1>7, <1>8 DEF HealOrphans

LEMMA EnvironmentTyped ==
  ASSUME TypeOK, SubjectOK,
         \/ \E w \in Workers : Aborted(w)
         \/ \E h \in Minted, v \in Verdicts : Decide(h, v)
         \/ TimePasses
  PROVE  TypeOK' /\ SubjectOK'
<1>1. ASSUME NEW w \in Workers, Aborted(w)
      PROVE  TypeOK' /\ SubjectOK'
  <2>1. Keeps
    BY <1>1 DEF Aborted, Keeps, Minted, storeVars, document
  <2>2. task' \in [Workers -> Tasks] /\ SubjectOK'
    BY <1>1, <2>1, ReturnTyped DEF Aborted
  <2> QED BY <1>1, <2>2 DEF Aborted, TypeOK, StoreTypeOK, Tasks, storeVars, document, redis, database
<1>2. ASSUME NEW w \in Workers, ElapseCopy(w)
      PROVE  TypeOK' /\ SubjectOK'
  <2>1. Keeps
    BY <1>2 DEF ElapseCopy, Keeps, Minted, storeVars, document
  <2>2. task' \in [Workers -> Tasks] /\ SubjectOK'
    BY <1>2, <2>1, GotoSeeingTyped DEF ElapseCopy, At, Points, SeatPoints, Seen
  <2> QED BY <1>2, <2>2 DEF ElapseCopy, TypeOK, StoreTypeOK, Tasks, storeVars, document, redis, database, bounds
<1>3. ASSUME NEW h \in Minted, NEW v \in Verdicts, Decide(h, v)
      PROVE  TypeOK' /\ SubjectOK'
  BY <1>3 DEF Decide, TypeOK, StoreTypeOK, SubjectOK, Minted, storeVars, document, redis, database, bounds
<1>4. ASSUME NEW h \in Minted, Elapse(h) \/ ElapseRow(h)
      PROVE  TypeOK' /\ SubjectOK'
  BY <1>4 DEF Elapse, ElapseRow, TypeOK, StoreTypeOK, SubjectOK, Minted, storeVars, document, redis, bounds
<1>5. CASE KeyLapses
  BY <1>5 DEF KeyLapses, HoldKeyLapses, SeatKeyLapses, IdemKeyLapses,
              TypeOK, StoreTypeOK, SubjectOK, Minted, document, database, bounds
<1> QED BY <1>1, <1>2, <1>3, <1>4, <1>5 DEF TimePasses

LEMMA StepTyped ==
  ASSUME TypeOK, SubjectOK, [Next]_vars
  PROVE  TypeOK' /\ SubjectOK'
<1>1. ASSUME NEW w \in Workers, Handler(w)
      PROVE  TypeOK' /\ SubjectOK'
  BY <1>1, CreateTyped, BeginPaymentTyped, OnPaymentApprovedTyped, CompensateCheckoutTyped,
     ReleaseHoldTyped, ExpireHoldsTyped, HealOrphansTyped DEF Handler
<1>2. CASE UNCHANGED vars
  BY <1>2 DEF vars, TypeOK, StoreTypeOK, SubjectOK, Minted, storeVars, document, redis, database, bounds
<1> QED BY <1>1, <1>2, EnvironmentTyped DEF Next

\* Every variable keeps its type, and a handler only ever works on a hold that
\* was minted or on a seat of the trip.
THEOREM TypeCorrect == Spec => [](TypeOK /\ SubjectOK)
<1>1. Init => TypeOK /\ SubjectOK
  <2>1. SUFFICES ASSUME Init PROVE TypeOK /\ SubjectOK
    OBVIOUS
  <2>2. Cardinality(Seats) \in Nat
    BY TripAssumption, FS_CardinalityType
  <2> QED BY <2>1, <2>2 DEF Init, StoreInit, TypeOK, StoreTypeOK, SubjectOK, Idle, Points, Seen, Statuses,
               SeatEvents, SeatPoints
<1>2. TypeOK /\ SubjectOK /\ [Next]_vars => (TypeOK /\ SubjectOK)'
  BY StepTyped
<1> QED BY <1>1, <1>2, PTL DEF Spec

-----------------------------------------------------------------------------
(* Who writes Seat, Reservation and OutboxEvent *)

Writes(w) ==
  \/ CreateLock(w) \/ CreateUndo(w) \/ CreateCommit(w) \/ BeginInsert(w)
  \/ ApproveConfirm(w) \/ CompCancel(w) \/ CompOrphan(w) \/ ReleaseCommit(w)
  \/ ExpireMark(w) \/ HealExpire(w) \/ FreeSeat(w)

tables == <<seat, resv, outbox>>

LEMMA WritersOnly ==
  ASSUME [Next]_vars
  PROVE  (\E w \in Workers : Writes(w)) \/ UNCHANGED tables
<1> USE DEF tables, database
<1>1. ASSUME NEW w \in Workers, Handler(w)
      PROVE  Writes(w) \/ UNCHANGED tables
  <2>1. CASE Create(w)
    BY <2>1 DEF Create, Writes, StartCreate, CreateIdem, CreateReplay, CreateSeat, CreateUnidem, CreateHold
  <2>2. CASE BeginPayment(w)
    BY <2>2 DEF BeginPayment, Writes, StartBegin, BeginTouch, BeginHold, BeginRefresh
  <2>3. CASE OnPaymentApproved(w)
    BY <2>3 DEF OnPaymentApproved, Writes, StartApprove, ApproveHold, ApproveDrop
  <2>4. CASE CompensateCheckout(w) \/ ReleaseHold(w)
    BY <2>4 DEF CompensateCheckout, ReleaseHold, Writes, StartCompensate, CompHold, ReleaseDelete
  <2>5. CASE ExpireHolds(w)
    BY <2>5 DEF ExpireHolds, Writes, StartExpire, ExpireHold, ExpireForget, ExpireCheck
  <2>6. CASE HealOrphans(w)
    BY <2>6 DEF HealOrphans, Writes, StartHeal, StartSweep, HealHold, SweepKey, SweepCheckout, FreeTrip
  <2> QED BY <1>1, <2>1, <2>2, <2>3, <2>4, <2>5, <2>6 DEF Handler
<1>2. ASSUME NEW w \in Workers, Aborted(w) \/ ElapseCopy(w)
      PROVE  UNCHANGED tables
  BY <1>2 DEF Aborted, ElapseCopy
<1>3. ASSUME NEW h \in Minted, NEW v \in Verdicts, Decide(h, v)
      PROVE  UNCHANGED tables
  BY <1>3 DEF Decide
<1>4. ASSUME NEW h \in Minted, Elapse(h) \/ ElapseRow(h)
      PROVE  UNCHANGED tables
  BY <1>4 DEF Elapse, ElapseRow
<1>5. CASE KeyLapses
  BY <1>5 DEF KeyLapses
<1>6. CASE UNCHANGED vars
  BY <1>6 DEF vars
<1> QED BY <1>1, <1>2, <1>3, <1>4, <1>5, <1>6 DEF Next, TimePasses

-----------------------------------------------------------------------------
(* A sold seat stays sold *)

LEMMA SoldStep ==
  ASSUME TypeOK, [Next]_vars, NEW s \in Seats, seat[s] = "SOLD"
  PROVE  seat'[s] = "SOLD"
<1>1. ASSUME NEW w \in Workers, Writes(w)
      PROVE  seat'[s] = "SOLD"
  <2>1. CASE CreateLock(w)
    BY <2>1 DEF CreateLock, LockSeat, TypeOK
  <2>2. CASE CreateUndo(w) \/ CompOrphan(w) \/ ReleaseCommit(w) \/ FreeSeat(w)
    BY <2>2 DEF CreateUndo, CompOrphan, ReleaseCommit, FreeSeat, ReleaseSeat, TypeOK
  <2>3. CASE ApproveConfirm(w)
    BY <2>3 DEF ApproveConfirm, SellSeat, TypeOK
  <2>4. CASE CreateCommit(w) \/ BeginInsert(w) \/ CompCancel(w) \/ ExpireMark(w) \/ HealExpire(w)
    BY <2>4 DEF CreateCommit, BeginInsert, CompCancel, ExpireMark, HealExpire
  <2> QED BY <1>1, <2>1, <2>2, <2>3, <2>4 DEF Writes
<1> QED BY <1>1, WritersOnly DEF tables

\* SoldIsFinal: whatever interleaves, no statement of the service takes a sold
\* seat back.
THEOREM SoldSeatsStaySold == Spec => SoldIsFinal
<1>1. TypeOK /\ [Next]_vars => [\A s \in Seats : seat[s] = "SOLD" => seat'[s] = "SOLD"]_vars
  BY SoldStep
<1> QED BY <1>1, TypeCorrect, PTL DEF Spec, SoldIsFinal

-----------------------------------------------------------------------------
(* A checkout that ended stays ended *)

StatusStep(h) ==
  /\ resv[h] \in {"EXPIRED", "CANCELLED"} => resv'[h] \in {"EXPIRED", "CANCELLED"}
  /\ resv'[h] = "PENDING_PAYMENT" => resv[h] \in {"NONE", "PENDING_PAYMENT"}
  /\ resv'[h] = "CONFIRMED" => resv[h] \in {"PENDING_PAYMENT", "CONFIRMED"}

LEMMA StatusSteps ==
  ASSUME TypeOK, SubjectOK, [Next]_vars, NEW h \in Holds
  PROVE  StatusStep(h)
<1> USE DEF StatusStep
<1>1. ASSUME NEW w \in Workers, Writes(w)
      PROVE  StatusStep(h)
  <2>1. CASE BeginInsert(w)
    BY <2>1 DEF BeginInsert, SetStatus, Conflicts, TypeOK
  <2>2. CASE ApproveConfirm(w)
    BY <2>2 DEF ApproveConfirm, Confirmable, SetStatus, TypeOK
  <2>3. CASE CompCancel(w) \/ ExpireMark(w) \/ HealExpire(w)
    BY <2>3 DEF CompCancel, ExpireMark, HealExpire, SetStatus, TypeOK
  <2>4. CASE CreateLock(w) \/ CreateUndo(w) \/ CreateCommit(w) \/ CompOrphan(w)
             \/ ReleaseCommit(w) \/ FreeSeat(w)
    BY <2>4 DEF CreateLock, CreateUndo, CreateCommit, CompOrphan, ReleaseCommit, FreeSeat
  <2> QED BY <1>1, <2>1, <2>2, <2>3, <2>4 DEF Writes
<1> QED BY <1>1, WritersOnly DEF tables

\* EndedStaysEnded: no late approval confirms, and no late beginPayment
\* reopens, a checkout that was cancelled or expired.
THEOREM EndedCheckoutsStayEnded == Spec => EndedStaysEnded
<1>1. TypeOK /\ SubjectOK /\ [Next]_vars => [\A h \in Holds : StatusStep(h)]_vars
  BY StatusSteps
<1> QED BY <1>1, TypeCorrect, PTL DEF Spec, EndedStaysEnded, StatusStep

-----------------------------------------------------------------------------
(* One seat.confirmed per reservation; every sold seat has one *)

LEMMA ConfirmedOnceStep ==
  ASSUME TypeOK, SubjectOK, ConfirmedOnce, [Next]_vars
  PROVE  ConfirmedOnce'
<1> USE DEF ConfirmedOnce, SeatEvents
<1>1. ASSUME NEW w \in Workers, Writes(w)
      PROVE  ConfirmedOnce'
  <2>1. CASE BeginInsert(w)
    BY <2>1 DEF BeginInsert, SetStatus, Conflicts, TypeOK
  <2>2. CASE ApproveConfirm(w)
    BY <2>2 DEF ApproveConfirm, Confirmable, SetStatus, Enqueue, TypeOK
  <2>3. CASE CompCancel(w) \/ ExpireMark(w) \/ HealExpire(w)
    BY <2>3 DEF CompCancel, ExpireMark, HealExpire, SetStatus, TypeOK
  <2>4. CASE CreateCommit(w) \/ ReleaseCommit(w)
    BY <2>4 DEF CreateCommit, ReleaseCommit, Enqueue, TypeOK
  <2>5. CASE CreateLock(w) \/ CreateUndo(w) \/ CompOrphan(w) \/ FreeSeat(w)
    BY <2>5 DEF CreateLock, CreateUndo, CompOrphan, FreeSeat
  <2> QED BY <1>1, <2>1, <2>2, <2>3, <2>4, <2>5 DEF Writes
<1> QED BY <1>1, WritersOnly DEF tables

\* ConfirmedOnce: duplicated and racing approvals put one seat.confirmed, at
\* most, into the outbox of a reservation.
THEOREM ConfirmedAtMostOnce == Spec => []ConfirmedOnce
<1>1. Init => ConfirmedOnce
  <2>1. SUFFICES ASSUME Init PROVE ConfirmedOnce
    OBVIOUS
  <2>2. "seat.confirmed" \in SeatEvents
    BY DEF SeatEvents
  <2>3. ASSUME NEW h \in Holds
        PROVE  /\ outbox[h]["seat.confirmed"] <= 1
               /\ outbox[h]["seat.confirmed"] = 0
               /\ resv[h] # "CONFIRMED"
    <3>1. resv[h] = "NONE" /\ outbox[h]["seat.confirmed"] = 0
      BY <2>1, <2>2 DEF Init
    <3>2. 0 <= 1
      OBVIOUS
    <3> QED BY <3>1, <3>2
  <2> QED BY <2>3, Zenon DEF ConfirmedOnce
<1>2. TypeOK /\ SubjectOK /\ ConfirmedOnce /\ [Next]_vars => ConfirmedOnce'
  BY ConfirmedOnceStep
<1> QED BY <1>1, <1>2, TypeCorrect, PTL DEF Spec

LEMMA KeepsStep ==
  ASSUME TypeOK, [Next]_vars
  PROVE  Keeps
<1> USE DEF Keeps, Minted, document
<1>1. CASE UNCHANGED document
  BY <1>1
<1>2. ASSUME NEW w \in Workers, NEW h \in Holds, NEW s \in Seats, NEW k \in Keys,
             StartCreate(w, h, s, k)
      PROVE  Keeps
  BY <1>2 DEF StartCreate, TypeOK, StoreTypeOK
<1>3. ASSUME NEW w \in Workers, Handler(w)
      PROVE  Keeps
  <2> USE DEF storeVars
  <2>1. CASE Create(w)
    BY <2>1, <1>1, <1>2 DEF Create, CreateLock, CreateIdem, CreateReplay, CreateSeat, CreateUnidem,
                       CreateUndo, CreateHold, CreateCommit
  <2>2. CASE BeginPayment(w)
    BY <2>2, <1>1 DEF BeginPayment, StartBegin, BeginTouch, BeginHold, BeginRefresh, BeginInsert
  <2>3. CASE OnPaymentApproved(w)
    BY <2>3, <1>1 DEF OnPaymentApproved, StartApprove, ApproveHold, ApproveConfirm, ApproveDrop
  <2>4. CASE CompensateCheckout(w) \/ ReleaseHold(w)
    BY <2>4, <1>1 DEF CompensateCheckout, ReleaseHold, StartCompensate, CompCancel, CompHold,
                      CompOrphan, ReleaseDelete, ReleaseCommit
  <2>5. CASE ExpireHolds(w)
    BY <2>5, <1>1 DEF ExpireHolds, StartExpire, ExpireHold, ExpireForget, ExpireCheck, ExpireMark
  <2>6. CASE HealOrphans(w)
    BY <2>6, <1>1 DEF HealOrphans, StartHeal, StartSweep, HealHold, HealExpire, SweepKey,
                      SweepCheckout, FreeSeat, FreeTrip
  <2> QED BY <1>3, <2>1, <2>2, <2>3, <2>4, <2>5, <2>6 DEF Handler
<1>4. ASSUME NEW w \in Workers, Aborted(w) \/ ElapseCopy(w)
      PROVE  Keeps
  BY <1>4, <1>1 DEF Aborted, ElapseCopy, storeVars
<1>5. ASSUME NEW h \in Minted, NEW v \in Verdicts, Decide(h, v)
      PROVE  Keeps
  BY <1>5, <1>1 DEF Decide, storeVars
<1>6. ASSUME NEW h \in Minted, Elapse(h) \/ ElapseRow(h)
      PROVE  Keeps
  BY <1>6, <1>1 DEF Elapse, ElapseRow, storeVars
<1>7. CASE KeyLapses
  BY <1>7, <1>1 DEF KeyLapses
<1>8. CASE UNCHANGED vars
  BY <1>8, <1>1 DEF vars, storeVars
<1> QED BY <1>3, <1>4, <1>5, <1>6, <1>7, <1>8 DEF Next, TimePasses

Announced(s) == \E h \in Holds : seatOf[h] = s /\ outbox[h]["seat.confirmed"] > 0

LEMMA AnnouncedKept ==
  ASSUME TypeOK, [Next]_vars, NEW s \in Seats, Announced(s)
  PROVE  Announced(s)'
<1>1. PICK h \in Holds : seatOf[h] = s /\ outbox[h]["seat.confirmed"] > 0
  BY DEF Announced
<1>2. h \in Minted
  BY <1>1, NoneAssumption DEF Minted
<1>3. seatOf'[h] = s
  BY <1>1, <1>2, KeepsStep DEF Keeps
<1>4. outbox'[h]["seat.confirmed"] > 0
  <2>1. ASSUME NEW w \in Workers, Writes(w)
        PROVE  outbox'[h]["seat.confirmed"] > 0
    <3>1. CASE ApproveConfirm(w) \/ CreateCommit(w) \/ ReleaseCommit(w)
      BY <3>1, <1>1 DEF ApproveConfirm, CreateCommit, ReleaseCommit, Enqueue, TypeOK, SeatEvents
    <3>2. CASE \/ CreateLock(w) \/ CreateUndo(w) \/ BeginInsert(w) \/ CompCancel(w) \/ CompOrphan(w)
               \/ ExpireMark(w) \/ HealExpire(w) \/ FreeSeat(w)
      BY <3>2, <1>1 DEF CreateLock, CreateUndo, BeginInsert, CompCancel, CompOrphan, ExpireMark,
                        HealExpire, FreeSeat
    <3> QED BY <2>1, <3>1, <3>2 DEF Writes
  <2> QED BY <2>1, <1>1, WritersOnly DEF tables
<1> QED BY <1>3, <1>4 DEF Announced

LEMMA SoldIsAnnouncedStep ==
  ASSUME TypeOK, SubjectOK, SoldIsAnnounced, [Next]_vars
  PROVE  SoldIsAnnounced'
<1>1. SUFFICES ASSUME NEW s \in Seats, seat'[s] = "SOLD"
               PROVE  Announced(s)'
  BY DEF SoldIsAnnounced, Announced
<1>2. CASE seat[s] = "SOLD"
  BY <1>2, AnnouncedKept DEF SoldIsAnnounced, Announced
<1>3. CASE seat[s] # "SOLD"
  <2>1. PICK w \in Workers : Writes(w)
    BY <1>1, <1>3, WritersOnly DEF tables
  <2>2. CASE ApproveConfirm(w)
    <3>1. task[w].on \in Minted
      BY <2>2 DEF ApproveConfirm, At, SubjectOK, SeatPoints
    <3>2. seatOf[task[w].on] = s /\ Enqueue(task[w].on, "seat.confirmed")
      BY <1>1, <1>3, <2>2 DEF ApproveConfirm, SellSeat, TypeOK
    <3>3. outbox'[task[w].on]["seat.confirmed"] > 0
      BY <3>1, <3>2 DEF Enqueue, Minted, TypeOK, SeatEvents
    <3>4. seatOf'[task[w].on] = s
      BY <3>1, <3>2, KeepsStep DEF Keeps
    <3> QED BY <3>1, <3>3, <3>4 DEF Announced, Minted
  <2>3. CASE CreateLock(w)
    BY <1>1, <1>3, <2>3 DEF CreateLock, LockSeat, TypeOK
  <2>4. CASE CreateUndo(w) \/ CompOrphan(w) \/ ReleaseCommit(w) \/ FreeSeat(w)
    BY <1>1, <1>3, <2>4 DEF CreateUndo, CompOrphan, ReleaseCommit, FreeSeat, ReleaseSeat, TypeOK
  <2>5. CASE CreateCommit(w) \/ BeginInsert(w) \/ CompCancel(w) \/ ExpireMark(w) \/ HealExpire(w)
    BY <1>1, <1>3, <2>5 DEF CreateCommit, BeginInsert, CompCancel, ExpireMark, HealExpire
  <2> QED BY <2>1, <2>2, <2>3, <2>4, <2>5 DEF Writes
<1> QED BY <1>2, <1>3

\* SoldIsAnnounced: no seat becomes SOLD without its seat.confirmed row.
THEOREM SoldSeatsAreAnnounced == Spec => []SoldIsAnnounced
<1>1. Init => SoldIsAnnounced
  BY DEF Init, SoldIsAnnounced
<1>2. TypeOK /\ SubjectOK /\ SoldIsAnnounced /\ [Next]_vars => SoldIsAnnounced'
  BY SoldIsAnnouncedStep
<1> QED BY <1>1, <1>2, TypeCorrect, PTL DEF Spec

-----------------------------------------------------------------------------
(* One handler at a time *)

OneHandler == \A v, w \in Workers : v = w

\* What a handler that is about to end a checkout has read is still so.
SeesOpen ==
  \A w \in Workers :
    task[w].pc \in {"comp.cancel", "expire.mark", "heal.hold", "heal.expire"} =>
      resv[task[w].on] = "PENDING_PAYMENT"

LEMMA SeesOpenStep ==
  ASSUME OneHandler, TypeOK, SubjectOK, SeesOpen, [Next]_vars
  PROVE  SeesOpen'
<1> DEFINE Ends(p) == p \in {"comp.cancel", "expire.mark", "heal.hold", "heal.expire"}
<1>0. ASSUME NEW w \in Workers, ~Ends(task'[w].pc)
      PROVE  SeesOpen'
  BY <1>0 DEF OneHandler, SeesOpen
<1>1. /\ \A w \in Workers : Return(w) => SeesOpen'
      /\ \A w \in Workers, p \in Points : Goto(w, p) /\ ~Ends(p) => SeesOpen'
      /\ \A w \in Workers, p \in Points, v \in Seen : GotoSeeing(w, p, v) /\ ~Ends(p) => SeesOpen'
  <2>1. ASSUME NEW w \in Workers, Return(w)
        PROVE  SeesOpen'
    BY <2>1, <1>0 DEF Return, Idle, TypeOK
  <2>2. ASSUME NEW w \in Workers, NEW p, Goto(w, p), ~Ends(p)
        PROVE  SeesOpen'
    BY <2>2, <1>0 DEF Goto, TypeOK
  <2>3. ASSUME NEW w \in Workers, NEW p, NEW v, GotoSeeing(w, p, v), ~Ends(p)
        PROVE  SeesOpen'
    BY <2>3, <1>0 DEF GotoSeeing, TypeOK
  <2> QED BY <2>1, <2>2, <2>3
<1>2. ASSUME NEW w \in Workers, NEW p, NEW x, NEW v, Start(w, p, x, v), ~Ends(p)
      PROVE  SeesOpen'
  <2>1. task'[w].pc = p
    BY <1>2 DEF Start, TypeOK
  <2> QED BY <1>2, <2>1 DEF OneHandler, SeesOpen
<1> USE DEF Points, Seen, Statuses
<1>3. ASSUME NEW w \in Workers, Create(w)
      PROVE  SeesOpen'
  <2>1. CASE \E h \in Holds, s \in Seats, k \in Keys : StartCreate(w, h, s, k)
    BY <2>1, <1>1, <1>2 DEF StartCreate
  <2>2. CASE CreateLock(w)
    BY <2>2, <1>1, <1>2 DEF CreateLock
  <2>3. CASE CreateIdem(w)
    BY <2>3, <1>1, <1>2 DEF CreateIdem
  <2>4. CASE CreateReplay(w)
    BY <2>4, <1>1, <1>2 DEF CreateReplay
  <2>5. CASE CreateSeat(w)
    BY <2>5, <1>1, <1>2 DEF CreateSeat
  <2>6. CASE CreateUnidem(w)
    BY <2>6, <1>1, <1>2 DEF CreateUnidem
  <2>7. CASE CreateUndo(w)
    BY <2>7, <1>1, <1>2 DEF CreateUndo
  <2>8. CASE CreateHold(w)
    BY <2>8, <1>1, <1>2 DEF CreateHold
  <2>9. CASE CreateCommit(w)
    BY <2>9, <1>1, <1>2 DEF CreateCommit
  <2> QED BY <1>3, <2>1, <2>2, <2>3, <2>4, <2>5, <2>6, <2>7, <2>8, <2>9 DEF Create
<1>4. ASSUME NEW w \in Workers, BeginPayment(w)
      PROVE  SeesOpen'
  <2>1. CASE \E h \in Minted : StartBegin(w, h)
    BY <2>1, <1>1, <1>2 DEF StartBegin
  <2>2. CASE BeginTouch(w)
    BY <2>2, <1>1, <1>2 DEF BeginTouch
  <2>3. CASE BeginHold(w)
    BY <2>3, <1>1, <1>2 DEF BeginHold
  <2>4. CASE BeginRefresh(w)
    BY <2>4, <1>1, <1>2 DEF BeginRefresh
  <2>5. CASE BeginInsert(w)
    BY <2>5, <1>1, <1>2 DEF BeginInsert
  <2> QED BY <1>4, <2>1, <2>2, <2>3, <2>4, <2>5 DEF BeginPayment
<1>5. ASSUME NEW w \in Workers, OnPaymentApproved(w)
      PROVE  SeesOpen'
  <2>1. CASE \E h \in Minted : StartApprove(w, h)
    BY <2>1, <1>1, <1>2 DEF StartApprove
  <2>2. CASE ApproveHold(w)
    BY <2>2, <1>1, <1>2 DEF ApproveHold
  <2>3. CASE ApproveConfirm(w)
    BY <2>3, <1>1, <1>2 DEF ApproveConfirm, DropIfSeen
  <2>4. CASE ApproveDrop(w)
    BY <2>4, <1>1, <1>2 DEF ApproveDrop
  <2> QED BY <1>5, <2>1, <2>2, <2>3, <2>4 DEF OnPaymentApproved
<1>6. ASSUME NEW w \in Workers, NEW h \in Minted, StartCompensate(w, h)
      PROVE  SeesOpen'
  <2>1. resv' = resv /\ task'[w].on = h /\ (task'[w].pc = "comp.cancel" => resv[h] = "PENDING_PAYMENT")
    BY <1>6 DEF StartCompensate, Start, database, TypeOK
  <2>2. task'[w].pc \in {"comp.cancel", "comp.hold"}
    BY <1>6 DEF StartCompensate, Start, TypeOK
  <2> QED BY <1>6, <2>1, <2>2 DEF OneHandler, SeesOpen
<1>7. ASSUME NEW w \in Workers, CompCancel(w) \/ CompHold(w) \/ CompOrphan(w) \/ ReleaseHold(w)
      PROVE  SeesOpen'
  <2>1. CASE CompCancel(w)
    BY <2>1, <1>1, <1>2 DEF CompCancel
  <2>2. CASE CompHold(w)
    BY <2>2, <1>1, <1>2 DEF CompHold
  <2>3. CASE CompOrphan(w)
    BY <2>3, <1>1, <1>2 DEF CompOrphan
  <2>4. CASE ReleaseDelete(w)
    BY <2>4, <1>1, <1>2 DEF ReleaseDelete
  <2>5. CASE ReleaseCommit(w)
    BY <2>5, <1>1, <1>2 DEF ReleaseCommit
  <2> QED BY <1>7, <2>1, <2>2, <2>3, <2>4, <2>5 DEF ReleaseHold
<1>8. ASSUME NEW w \in Workers, ExpireCheck(w)
      PROVE  SeesOpen'
  <2>1. CASE resv[task[w].on] = "PENDING_PAYMENT" /\ Goto(w, "expire.mark")
    <3>1. resv' = resv /\ task'[w].on = task[w].on
      BY <1>8, <2>1 DEF ExpireCheck, Goto, database, TypeOK
    <3> QED BY <1>8, <2>1, <3>1 DEF OneHandler, SeesOpen
  <2>2. CASE GotoSeeing(w, "release.delete", "-") \/ Return(w)
    BY <1>8, <2>2, <1>1
  <2> QED BY <1>8, <2>1, <2>2 DEF ExpireCheck
<1>9. ASSUME NEW w \in Workers, ExpireHolds(w), ~ExpireCheck(w)
      PROVE  SeesOpen'
  <2>1. CASE \E h \in Minted : StartExpire(w, h)
    BY <2>1, <1>1, <1>2 DEF StartExpire
  <2>2. CASE ExpireHold(w)
    BY <2>2, <1>1, <1>2 DEF ExpireHold
  <2>3. CASE ExpireForget(w)
    BY <2>3, <1>1, <1>2 DEF ExpireForget
  <2>4. CASE ExpireMark(w)
    BY <2>4, <1>1, <1>2 DEF ExpireMark
  <2> QED BY <1>9, <2>1, <2>2, <2>3, <2>4 DEF ExpireHolds
<1>10. ASSUME NEW w \in Workers, NEW h \in Minted, StartHeal(w, h)
      PROVE  SeesOpen'
  <2>1. resv' = resv /\ task'[w].on = h /\ resv[h] = "PENDING_PAYMENT"
    BY <1>10 DEF StartHeal, Start, Healable, database, TypeOK
  <2> QED BY <1>10, <2>1 DEF OneHandler, SeesOpen
<1>11. ASSUME NEW w \in Workers, HealHold(w)
      PROVE  SeesOpen'
  <2>1. resv' = resv /\ resv[task[w].on] = "PENDING_PAYMENT"
    BY <1>11 DEF HealHold, At, SeesOpen, database
  <2>2. task'[w] = Idle \/ task'[w].on = task[w].on
    BY <1>11 DEF HealHold, Goto, Return, TypeOK
  <2> QED BY <1>11, <2>1, <2>2 DEF OneHandler, SeesOpen, Idle
<1>12. ASSUME NEW w \in Workers, HealExpire(w)
      PROVE  SeesOpen'
  <2>1. task'[w].pc = "free.seat"
    BY <1>12 DEF HealExpire, TypeOK
  <2> QED BY <1>12, <2>1 DEF OneHandler, SeesOpen
<1>13. ASSUME NEW w \in Workers,
              \/ \E s \in Seats : StartSweep(w, s)
              \/ SweepKey(w) \/ SweepCheckout(w) \/ FreeSeat(w) \/ FreeTrip(w)
       PROVE  SeesOpen'
  <2>1. CASE \E s \in Seats : StartSweep(w, s)
    BY <2>1, <1>1, <1>2 DEF StartSweep
  <2>2. CASE SweepKey(w)
    BY <2>2, <1>1, <1>2 DEF SweepKey
  <2>3. CASE SweepCheckout(w)
    BY <2>3, <1>1, <1>2 DEF SweepCheckout
  <2>4. CASE FreeSeat(w)
    BY <2>4, <1>1, <1>2 DEF FreeSeat
  <2>5. CASE FreeTrip(w)
    BY <2>5, <1>1, <1>2 DEF FreeTrip
  <2> QED BY <1>13, <2>1, <2>2, <2>3, <2>4, <2>5
<1>14. ASSUME NEW w \in Workers, Aborted(w) \/ ElapseCopy(w)
       PROVE  SeesOpen'
  BY <1>14, <1>1 DEF Aborted, ElapseCopy
<1>15. CASE UNCHANGED <<task, resv>>
  BY <1>15 DEF SeesOpen
<1>16. ASSUME NEW w \in Workers, Handler(w)
       PROVE  SeesOpen'
  BY <1>16, <1>3, <1>4, <1>5, <1>6, <1>7, <1>8, <1>9, <1>10, <1>11, <1>12, <1>13
     DEF Handler, CompensateCheckout, HealOrphans
<1> QED BY <1>14, <1>15, <1>16 DEF Next, Decide, TimePasses, Elapse, ElapseRow, KeyLapses, vars, database

\* ConfirmedIsFinal, where no two handlers interleave: the updates by id of
\* compensateCheckout, expireHolds and healOrphans lose to no approval then.
THEOREM ConfirmedStaysConfirmed ==
  ASSUME OneHandler
  PROVE  Spec => ConfirmedIsFinal
<1>1. Init => SeesOpen
  BY DEF Init, Idle, SeesOpen
<1>2. TypeOK /\ SubjectOK /\ SeesOpen /\ [Next]_vars => SeesOpen'
  BY SeesOpenStep
<1>3. TypeOK /\ SeesOpen /\ [Next]_vars =>
        [\A h \in Holds : resv[h] = "CONFIRMED" => resv'[h] = "CONFIRMED"]_vars
  <2> SUFFICES ASSUME TypeOK, SeesOpen, [Next]_vars, NEW h \in Holds, resv[h] = "CONFIRMED"
               PROVE  resv'[h] = "CONFIRMED"
    OBVIOUS
  <2>1. ASSUME NEW w \in Workers, Writes(w)
        PROVE  resv'[h] = "CONFIRMED"
    <3>1. CASE BeginInsert(w)
      BY <3>1 DEF BeginInsert, SetStatus, Conflicts, TypeOK
    <3>2. CASE ApproveConfirm(w)
      BY <3>2 DEF ApproveConfirm, SetStatus, TypeOK
    <3>3. CASE CompCancel(w) \/ ExpireMark(w) \/ HealExpire(w)
      BY <3>3 DEF CompCancel, ExpireMark, HealExpire, SetStatus, At, SeesOpen, TypeOK
    <3>4. CASE \/ CreateLock(w) \/ CreateUndo(w) \/ CreateCommit(w) \/ CompOrphan(w)
               \/ ReleaseCommit(w) \/ FreeSeat(w)
      BY <3>4 DEF CreateLock, CreateUndo, CreateCommit, CompOrphan, ReleaseCommit, FreeSeat
    <3> QED BY <2>1, <3>1, <3>2, <3>3, <3>4 DEF Writes
  <2> QED BY <2>1, WritersOnly DEF tables
<1> QED BY <1>1, <1>2, <1>3, TypeCorrect, PTL DEF Spec, ConfirmedIsFinal
=============================================================================

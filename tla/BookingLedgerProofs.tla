------------------------- MODULE BookingLedgerProofs -------------------------
(***************************************************************************)
(* What Booking promises, proved: ReleasedOnce, and that it implements     *)
(* ReservationLedger, loosely whatever interleaves, fully with one handler *)
(* at a time, strictly while no seat is given back.  For every set of      *)
(* holds, seats and keys and every value of the bounds.                    *)
(***************************************************************************)
EXTENDS BookingAcquireProofs

-----------------------------------------------------------------------------
(* Who moves a handler, and where to *)

Moves(w) == Handler(w) \/ Aborted(w) \/ ElapseCopy(w)

LEMMA OthersWait ==
  ASSUME Typed, NEW v \in Workers, Moves(v), NEW w \in Workers, w # v
  PROVE  task'[w] = task[w]
<1> USE DEF Typed, TypeOK, Start, Goto, GotoSeeing, Return
<1>1. CASE Create(v)
  BY <1>1 DEF Create, StartCreate, CreateLock, CreateIdem, CreateReplay, CreateSeat, CreateUnidem,
              CreateUndo, CreateHold, CreateCommit
<1>2. CASE BeginPayment(v)
  BY <1>2 DEF BeginPayment, StartBegin, BeginTouch, BeginHold, BeginRefresh, BeginInsert
<1>3. CASE OnPaymentApproved(v)
  BY <1>3 DEF OnPaymentApproved, StartApprove, ApproveHold, ApproveConfirm, ApproveDrop, DropIfSeen
<1>4. CASE CompensateCheckout(v) \/ ReleaseHold(v)
  BY <1>4 DEF CompensateCheckout, ReleaseHold, StartCompensate, CompCancel, CompHold, CompOrphan,
              ReleaseDelete, ReleaseCommit
<1>5. CASE ExpireHolds(v)
  BY <1>5 DEF ExpireHolds, StartExpire, ExpireHold, ExpireForget, ExpireCheck, ExpireMark
<1>6. CASE HealOrphans(v)
  BY <1>6 DEF HealOrphans, StartHeal, StartSweep, HealHold, HealExpire, SweepKey, SweepCheckout,
              FreeSeat, FreeTrip
<1>7. CASE Aborted(v) \/ ElapseCopy(v)
  BY <1>7 DEF Aborted, ElapseCopy
<1> QED BY <1>1, <1>2, <1>3, <1>4, <1>5, <1>6, <1>7 DEF Moves, Handler

LEMMA MoverMoves ==
  ASSUME Typed, [Next]_vars, NEW w \in Workers, task'[w] # task[w]
  PROVE  Moves(w)
<1>1. ASSUME NEW v \in Workers, Moves(v)
      PROVE  v = w
  BY <1>1, OthersWait
<1>2. CASE UNCHANGED task
  BY <1>2
<1> QED BY <1>1, <1>2 DEF Next, TimePasses, Moves, Decide, Elapse, ElapseRow, KeyLapses, vars

\* A handler about to write EXPIRED or CANCELLED by id found the row open.
Ending == {"comp.cancel", "expire.mark", "heal.hold", "heal.expire"}

LEMMA EnterEnding ==
  ASSUME Typed, NEW w \in Workers, Moves(w), task'[w].pc \in Ending, task'[w] # task[w]
  PROVE  \/ task[w].pc \in Ending /\ task'[w].on = task[w].on
         \/ resv[task'[w].on] = "PENDING_PAYMENT"
<1> USE DEF Typed, TypeOK, Start, Goto, GotoSeeing, Return, Idle, Ending, At
<1>1. CASE Create(w)
  BY <1>1 DEF Create, StartCreate, CreateLock, CreateIdem, CreateReplay, CreateSeat, CreateUnidem,
              CreateUndo, CreateHold, CreateCommit
<1>2. CASE BeginPayment(w)
  BY <1>2 DEF BeginPayment, StartBegin, BeginTouch, BeginHold, BeginRefresh, BeginInsert
<1>3. CASE OnPaymentApproved(w)
  BY <1>3 DEF OnPaymentApproved, StartApprove, ApproveHold, ApproveConfirm, ApproveDrop, DropIfSeen
<1>4. CASE CompensateCheckout(w) \/ ReleaseHold(w)
  BY <1>4 DEF CompensateCheckout, ReleaseHold, StartCompensate, CompCancel, CompHold, CompOrphan,
              ReleaseDelete, ReleaseCommit
<1>5. CASE ExpireHolds(w)
  BY <1>5 DEF ExpireHolds, StartExpire, ExpireHold, ExpireForget, ExpireCheck, ExpireMark
<1>6. CASE HealOrphans(w)
  BY <1>6 DEF HealOrphans, StartHeal, StartSweep, HealHold, HealExpire, SweepKey, SweepCheckout,
              FreeSeat, FreeTrip, Healable
<1>7. CASE Aborted(w) \/ ElapseCopy(w)
  BY <1>7 DEF Aborted, ElapseCopy
<1> QED BY <1>1, <1>2, <1>3, <1>4, <1>5, <1>6, <1>7 DEF Moves, Handler

\* Rows are never deleted.
LEMMA RowsStay ==
  ASSUME Typed, [Next]_vars, NEW h \in Holds, resv[h] # "NONE"
  PROVE  resv'[h] # "NONE"
<1>1. ASSUME NEW w \in Workers, Writes(w)
      PROVE  resv'[h] # "NONE"
  <2>1. CASE BeginInsert(w) \/ ApproveConfirm(w) \/ CompCancel(w) \/ ExpireMark(w) \/ HealExpire(w)
    BY <2>1 DEF BeginInsert, ApproveConfirm, CompCancel, ExpireMark, HealExpire, SetStatus, Typed, TypeOK
  <2>2. CASE \/ CreateLock(w) \/ CreateUndo(w) \/ CreateCommit(w) \/ CompOrphan(w)
             \/ ReleaseCommit(w) \/ FreeSeat(w)
    BY <2>2 DEF CreateLock, CreateUndo, CreateCommit, CompOrphan, ReleaseCommit, FreeSeat
  <2> QED BY <1>1, <2>1, <2>2 DEF Writes
<1> QED BY <1>1, WritersOnly DEF tables

\* What ends a checkout has a row to end.
RowsSeen == \A w \in Workers : task[w].pc \in Ending => resv[task[w].on] # "NONE"

LEMMA RowsSeenStep ==
  ASSUME Typed, RowsSeen, [Next]_vars
  PROVE  RowsSeen'
<1> SUFFICES ASSUME NEW w \in Workers, task'[w].pc \in Ending
             PROVE  resv'[task'[w].on] # "NONE"
  BY DEF RowsSeen
<1>1. task'[w].on \in Holds
  BY StepTyped DEF Typed, SubjectOK, SeatPoints, Ending, Minted
<1>2. resv[task'[w].on] # "NONE"
  <2>1. CASE task'[w] = task[w]
    BY <2>1 DEF RowsSeen
  <2>2. CASE task'[w] # task[w]
    BY <2>2, MoverMoves, EnterEnding DEF RowsSeen
  <2> QED BY <2>1, <2>2
<1> QED BY <1>1, <1>2, RowsStay

-----------------------------------------------------------------------------
(* Steps of Booking as steps of the ledger *)

SoldSeats == {s \in Seats : seat[s] = "SOLD"}

LEMMA LedgerOpens ==
  ASSUME Typed, NEW h \in Minted, resv[h] = "NONE", SetStatus(h, "PENDING_PAYMENT"),
         seatOf' = seatOf, seat' = seat, outbox' = outbox
  PROVE  Ledger!Open(h)
<1>1. h \in Holds /\ seatOf[h] # None
  BY DEF Minted
<1>2. [g \in Holds |-> LedgerStatus[resv[g]]]'
        = [[g \in Holds |-> LedgerStatus[resv[g]]] EXCEPT ![h] = "open"]
  BY <1>1 DEF SetStatus, LedgerStatus, Typed, TypeOK, Statuses
<1>3. LedgerStatus[resv[h]] = "none"
  BY DEF LedgerStatus
<1> QED BY <1>1, <1>2, <1>3 DEF Ledger!Open

LEMMA LedgerConfirms ==
  ASSUME Typed, NEW h \in Minted, resv[h] = "PENDING_PAYMENT", SetStatus(h, "CONFIRMED"),
         SellSeat(seatOf[h]), Enqueue(h, "seat.confirmed"), UNCHANGED seatOf
  PROVE  /\ Ledger!Confirm(h)
         /\ seat[seatOf[h]] # "AVAILABLE" => SoldSeats' = SoldSeats \cup {seatOf[h]}
<1>1. h \in Holds /\ seatOf[h] \in Seats
  BY DEF Minted, Typed, TypeOK, StoreTypeOK
<1>2. /\ seat[seatOf[h]] = "AVAILABLE" => SoldSeats' = SoldSeats
      /\ seat[seatOf[h]] # "AVAILABLE" => SoldSeats' = SoldSeats \cup {seatOf[h]}
  BY <1>1 DEF SoldSeats, SellSeat, Typed, TypeOK
<1>3. [g \in Holds |-> LedgerStatus[resv[g]]]'
        = [[g \in Holds |-> LedgerStatus[resv[g]]] EXCEPT ![h] = "confirmed"]
  BY <1>1 DEF SetStatus, LedgerStatus, Typed, TypeOK, Statuses
<1>4. /\ [g \in Holds |-> outbox[g]["seat.confirmed"]]'
          = [[g \in Holds |-> outbox[g]["seat.confirmed"]] EXCEPT ![h] = @ + 1]
      /\ [g \in Holds |-> outbox[g]["seat.released"]]' = [g \in Holds |-> outbox[g]["seat.released"]]
  BY <1>1 DEF Enqueue, SeatEvents, Typed, TypeOK
<1>5. LedgerStatus[resv[h]] = "open"
  BY DEF LedgerStatus
<1> QED BY <1>1, <1>2, <1>3, <1>4, <1>5 DEF Ledger!Confirm, SoldSeats

LEMMA LedgerCloses ==
  ASSUME Typed, NEW h \in Minted, resv[h] \in {"PENDING_PAYMENT", "CONFIRMED"},
         NEW v \in {"CANCELLED", "EXPIRED"}, SetStatus(h, v),
         seatOf' = seatOf, seat' = seat, outbox' = outbox
  PROVE  Ledger!Close(h)
<1>1. h \in Holds
  BY DEF Minted
<1>2. [g \in Holds |-> LedgerStatus[resv[g]]]'
        = [[g \in Holds |-> LedgerStatus[resv[g]]] EXCEPT ![h] = "ended"]
  <2>1. CASE v = "CANCELLED"
    BY <1>1, <2>1 DEF SetStatus, LedgerStatus, Typed, TypeOK, Statuses
  <2>2. CASE v = "EXPIRED"
    BY <1>1, <2>2 DEF SetStatus, LedgerStatus, Typed, TypeOK, Statuses
  <2> QED BY <2>1, <2>2
<1>3. LedgerStatus[resv[h]] \in {"open", "confirmed"}
  BY DEF LedgerStatus
<1> QED BY <1>1, <1>2, <1>3 DEF Ledger!Close

LEMMA SameSold ==
  ASSUME Typed, NEW s \in Seats, LockSeat(s) \/ ReleaseSeat(s)
  PROVE  SoldSeats' = SoldSeats
BY DEF LockSeat, ReleaseSeat, SoldSeats, Typed, TypeOK

LEMMA LedgerReturns ==
  ASSUME Typed, NEW h \in Minted, ReleaseSeat(seatOf[h]), Enqueue(h, "seat.released"),
         seatOf' = seatOf, resv' = resv
  PROVE  Ledger!Return(h)
<1>1. h \in Holds /\ seatOf[h] \in Seats /\ seatOf[h] # None
  BY DEF Minted, Typed, TypeOK, StoreTypeOK
<1>2. SoldSeats' = SoldSeats
  BY <1>1, SameSold
<1>3. /\ [g \in Holds |-> outbox[g]["seat.released"]]'
          = [[g \in Holds |-> outbox[g]["seat.released"]] EXCEPT ![h] = @ + 1]
      /\ [g \in Holds |-> outbox[g]["seat.confirmed"]]' = [g \in Holds |-> outbox[g]["seat.confirmed"]]
  BY <1>1 DEF Enqueue, SeatEvents, Typed, TypeOK
<1> QED BY <1>1, <1>2, <1>3 DEF Ledger!Return, SoldSeats

LEMMA LedgerRequests ==
  ASSUME Typed, NEW w \in Workers, NEW h \in Holds, NEW s \in Seats, NEW k \in Keys,
         StartCreate(w, h, s, k)
  PROVE  Ledger!Request(h, s)
BY DEF StartCreate, Minted, database, Ledger!Request

LEMMA LedgerStutters ==
  ASSUME UNCHANGED <<seatOf, resv>>, SoldSeats' = SoldSeats,
         \A h \in Holds : /\ outbox'[h]["seat.confirmed"] = outbox[h]["seat.confirmed"]
                          /\ outbox'[h]["seat.released"] = outbox[h]["seat.released"]
  PROVE  UNCHANGED Ledger!ledgerVars
BY DEF Ledger!ledgerVars, SoldSeats

\* Steps that write neither a document nor a table, or not the part the ledger is about.
LEMMA Documents ==
  ASSUME [Next]_vars
  PROVE  \/ UNCHANGED document
         \/ \E w \in Workers, h \in Holds, s \in Seats, k \in Keys : StartCreate(w, h, s, k)
<1> USE DEF storeVars
<1>1. ASSUME NEW w \in Workers, Create(w)
      PROVE  \/ UNCHANGED document
             \/ \E h \in Holds, s \in Seats, k \in Keys : StartCreate(w, h, s, k)
  BY <1>1 DEF Create, CreateLock, CreateIdem, CreateReplay, CreateSeat, CreateUnidem, CreateUndo,
              CreateHold, CreateCommit
<1>2. ASSUME NEW w \in Workers,
             \/ BeginPayment(w) \/ OnPaymentApproved(w) \/ CompensateCheckout(w) \/ ReleaseHold(w)
             \/ ExpireHolds(w) \/ HealOrphans(w) \/ Aborted(w) \/ ElapseCopy(w)
      PROVE  UNCHANGED document
  <2>1. CASE BeginPayment(w) \/ OnPaymentApproved(w)
    BY <2>1 DEF BeginPayment, StartBegin, BeginTouch, BeginHold, BeginRefresh, BeginInsert,
                OnPaymentApproved, StartApprove, ApproveHold, ApproveConfirm, ApproveDrop
  <2>2. CASE CompensateCheckout(w) \/ ReleaseHold(w)
    BY <2>2 DEF CompensateCheckout, ReleaseHold, StartCompensate, CompCancel, CompHold, CompOrphan,
                ReleaseDelete, ReleaseCommit
  <2>3. CASE ExpireHolds(w) \/ HealOrphans(w)
    BY <2>3 DEF ExpireHolds, StartExpire, ExpireHold, ExpireForget, ExpireCheck, ExpireMark,
                HealOrphans, StartHeal, StartSweep, HealHold, HealExpire, SweepKey, SweepCheckout,
                FreeSeat, FreeTrip
  <2>4. CASE Aborted(w) \/ ElapseCopy(w)
    BY <2>4 DEF Aborted, ElapseCopy
  <2> QED BY <1>2, <2>1, <2>2, <2>3, <2>4
<1> QED BY <1>1, <1>2 DEF Next, Handler, TimePasses, Decide, Elapse, ElapseRow, KeyLapses, vars

-----------------------------------------------------------------------------
(* Every writer of the tables, as a step of the ledger *)

Finds(h) == seat[seatOf[h]] # "AVAILABLE" => SoldSeats' = SoldSeats \cup {seatOf[h]}

LEMMA AcquireWrites ==
  ASSUME Typed, seatOf' = seatOf, NEW w \in Workers,
         \/ CreateLock(w) \/ CreateUndo(w) \/ CreateCommit(w) \/ BeginInsert(w) \/ ApproveConfirm(w)
  PROVE  \/ UNCHANGED Ledger!ledgerVars
         \/ \E h \in Holds : \/ Ledger!Open(h)
                             \/ Ledger!Confirm(h) /\ Finds(h) /\ resv[h] = "PENDING_PAYMENT"
<1>1. PICK f \in Minted : f = task[w].on /\ f \in Holds /\ seatOf[f] \in Seats
  BY DEF Typed, TypeOK, StoreTypeOK, SubjectOK, SeatPoints, Minted, At, CreateLock, CreateUndo,
         CreateCommit, BeginInsert, ApproveConfirm
<1>2. CASE CreateLock(w) \/ CreateUndo(w)
  <2>1. UNCHANGED <<resv, outbox>>
    BY <1>2 DEF CreateLock, CreateUndo
  <2>2. SoldSeats' = SoldSeats
    BY <1>1, <1>2, SameSold DEF CreateLock, CreateUndo, SoldSeats
  <2> QED BY <2>1, <2>2, LedgerStutters
<1>3. CASE CreateCommit(w)
  <2>1. UNCHANGED <<resv, seat>> /\ SoldSeats' = SoldSeats
    BY <1>3 DEF CreateCommit, SoldSeats
  <2>2. \A h \in Holds : /\ outbox'[h]["seat.confirmed"] = outbox[h]["seat.confirmed"]
                         /\ outbox'[h]["seat.released"] = outbox[h]["seat.released"]
    BY <1>3 DEF CreateCommit, Enqueue, SeatEvents, Typed, TypeOK
  <2> QED BY <2>1, <2>2, LedgerStutters
<1>4. CASE BeginInsert(w)
  <2>1. UNCHANGED <<seat, outbox>> /\ SoldSeats' = SoldSeats
    BY <1>4 DEF BeginInsert, SoldSeats
  <2>2. CASE UNCHANGED resv
    BY <2>1, <2>2, LedgerStutters
  <2>3. CASE ~UNCHANGED resv
    <3>1. resv[f] = "NONE" /\ SetStatus(f, "PENDING_PAYMENT")
      BY <1>1, <1>4, <2>3 DEF BeginInsert, Conflicts
    <3> QED BY <1>1, <2>1, <3>1, LedgerOpens
  <2> QED BY <2>2, <2>3
<1>5. CASE ApproveConfirm(w)
  <2>1. CASE Confirmable(f)
    <3>1. /\ resv[f] = "PENDING_PAYMENT" /\ SetStatus(f, "CONFIRMED")
          /\ SellSeat(seatOf[f]) /\ Enqueue(f, "seat.confirmed")
      BY <1>1, <1>5, <2>1 DEF ApproveConfirm, Confirmable
    <3> QED BY <1>1, <3>1, LedgerConfirms DEF Finds
  <2>2. CASE ~Confirmable(f)
    <3>1. UNCHANGED <<resv, seat, outbox>> /\ SoldSeats' = SoldSeats
      BY <1>1, <1>5, <2>2 DEF ApproveConfirm, SoldSeats
    <3> QED BY <3>1, LedgerStutters
  <2> QED BY <2>1, <2>2
<1> QED BY <1>2, <1>3, <1>4, <1>5

LEMMA EndingWrites ==
  ASSUME Typed, RowsSeen, seatOf' = seatOf, NEW w \in Workers,
         CompCancel(w) \/ ExpireMark(w) \/ HealExpire(w)
  PROVE  \/ UNCHANGED Ledger!ledgerVars
         \/ \E h \in Holds : Ledger!Close(h) /\ h = task[w].on /\ task[w].pc \in Ending
<1>1. PICK f \in Minted : f = task[w].on /\ f \in Holds /\ task[w].pc \in Ending
  BY DEF Typed, SubjectOK, SeatPoints, Minted, At, Ending, CompCancel, ExpireMark, HealExpire
<1>2. PICK v \in {"CANCELLED", "EXPIRED"} : SetStatus(f, v)
  BY <1>1 DEF CompCancel, ExpireMark, HealExpire
<1>3. UNCHANGED <<seatOf, seat, outbox>> /\ SoldSeats' = SoldSeats
  BY DEF CompCancel, ExpireMark, HealExpire, SoldSeats
<1>4. resv[f] # "NONE" /\ resv[f] \in Statuses
  BY <1>1 DEF RowsSeen, Typed, TypeOK
<1>5. CASE resv[f] \in {"PENDING_PAYMENT", "CONFIRMED"}
  BY <1>1, <1>2, <1>3, <1>5, LedgerCloses
<1>6. CASE resv[f] \in {"CANCELLED", "EXPIRED"}
  <2>1. \A g \in Holds : LedgerStatus[resv'[g]] = LedgerStatus[resv[g]]
    <3> SUFFICES ASSUME NEW g \in Holds PROVE LedgerStatus[resv'[g]] = LedgerStatus[resv[g]]
      OBVIOUS
    <3>1. CASE g # f
      BY <1>1, <1>2, <3>1 DEF SetStatus, Typed, TypeOK
    <3>2. CASE g = f
      <4>1. resv'[g] \in {"CANCELLED", "EXPIRED"}
        BY <1>1, <1>2, <3>2 DEF SetStatus, Typed, TypeOK
      <4> QED BY <1>6, <3>2, <4>1 DEF LedgerStatus
    <3> QED BY <3>1, <3>2
  <2> QED BY <1>3, <2>1 DEF Ledger!ledgerVars, SoldSeats
<1> QED BY <1>4, <1>5, <1>6 DEF Statuses

LEMMA ReleaseWrites ==
  ASSUME Typed, seatOf' = seatOf, NEW w \in Workers, CompOrphan(w) \/ FreeSeat(w) \/ ReleaseCommit(w)
  PROVE  \/ UNCHANGED Ledger!ledgerVars
         \/ \E h \in Holds : Ledger!Return(h) /\ h = task[w].on /\ task[w].pc = "release.commit"
<1>1. CASE ReleaseCommit(w)
  <2>1. PICK f \in Minted : f = task[w].on /\ f \in Holds /\ task[w].pc = "release.commit"
    BY <1>1 DEF ReleaseCommit, At, Typed, SubjectOK, SeatPoints, Minted
  <2>2. ReleaseSeat(seatOf[f]) /\ Enqueue(f, "seat.released") /\ resv' = resv
    BY <1>1, <2>1 DEF ReleaseCommit
  <2> QED BY <1>1, <2>1, <2>2, LedgerReturns
<1>2. CASE CompOrphan(w) \/ FreeSeat(w)
  <2>1. PICK s \in Seats : ReleaseSeat(s)
    BY <1>2 DEF CompOrphan, FreeSeat, At, Typed, TypeOK, StoreTypeOK, SubjectOK, SeatPoints, Minted
  <2>2. UNCHANGED <<resv, outbox>>
    BY <1>2 DEF CompOrphan, FreeSeat
  <2> QED BY <2>1, <2>2, SameSold, LedgerStutters
<1> QED BY <1>1, <1>2

\* Every step of the service is a step of the ledger or changes nothing of it.
LEMMA LedgerStep ==
  ASSUME Typed, RowsSeen, [Next]_vars
  PROVE  \/ UNCHANGED Ledger!ledgerVars
         \/ \E h \in Holds : \/ \E s \in Seats : Ledger!Request(h, s)
                             \/ Ledger!Open(h) \/ Ledger!Confirm(h)
         \/ \E w \in Workers, h \in Holds :
              /\ h = task[w].on
              /\ \/ Ledger!Close(h) /\ task[w].pc \in Ending
                 \/ Ledger!Return(h) /\ task[w].pc = "release.commit"
<1>1. CASE \E w \in Workers, h \in Holds, s \in Seats, k \in Keys : StartCreate(w, h, s, k)
  BY <1>1, LedgerRequests
<1>2. CASE UNCHANGED document
  <2>1. seatOf' = seatOf
    BY <1>2 DEF document
  <2>2. CASE UNCHANGED tables
    BY <2>1, <2>2 DEF Ledger!ledgerVars, tables
  <2>3. ASSUME NEW w \in Workers, Writes(w)
        PROVE  \/ UNCHANGED Ledger!ledgerVars
               \/ \E h \in Holds : Ledger!Open(h) \/ Ledger!Confirm(h)
               \/ \E h \in Holds :
                    /\ h = task[w].on
                    /\ \/ Ledger!Close(h) /\ task[w].pc \in Ending
                       \/ Ledger!Return(h) /\ task[w].pc = "release.commit"
    BY <2>1, <2>3, AcquireWrites, EndingWrites, ReleaseWrites DEF Writes
  <2> QED BY <2>2, <2>3, WritersOnly
<1> QED BY <1>1, <1>2, Documents

LEMMA LedgerInit == Init => Ledger!Init
<1> SUFFICES ASSUME Init PROVE Ledger!Init
  OBVIOUS
<1>1. \A h \in Holds : LedgerStatus[resv[h]] = "none"
  BY DEF Init, LedgerStatus
<1>2. \A h \in Holds : outbox[h]["seat.confirmed"] = 0 /\ outbox[h]["seat.released"] = 0
  BY DEF Init, SeatEvents
<1> QED BY <1>1, <1>2 DEF Init, StoreInit, Ledger!Init

\* Handlers, crons and redeliveries may interleave as they like: the service
\* keeps the loose ledger, so a reservation is confirmed and announced at most
\* once, never after it has ended, and no sold seat is taken back.
THEOREM LedgerIsKeptLoosely == Spec => Ledger!LooseSpec
<1>1. Init => Ledger!Init /\ RowsSeen
  BY LedgerInit DEF Init, Idle, Ending, RowsSeen
<1>2. TypeOK /\ SubjectOK /\ RowsSeen /\ [Next]_vars => RowsSeen'
  BY RowsSeenStep DEF Typed
<1>3. TypeOK /\ SubjectOK /\ RowsSeen /\ [Next]_vars => [Ledger!LooseNext]_(Ledger!ledgerVars)
  BY LedgerStep DEF Typed, Ledger!LooseNext
<1> QED BY <1>1, <1>2, <1>3, TypeCorrect, PTL DEF Spec, Ledger!LooseSpec

-----------------------------------------------------------------------------
(* ReleasedOnce: who may yet release a hold, with one handler at a time *)

\* A handler at one of these points has found the hold in Redis, or is about to
\* put a new one there.
WillRelease ==
  {"create.lock", "create.idem", "create.seat", "create.hold", "begin.refresh",
   "expire.check", "expire.mark", "release.delete", "release.commit"}

Unreleased(h) == outbox[h]["seat.released"] = 0

ReleaseInv ==
  /\ ReleasedOnce
  /\ \A h \in Holds : h \notin Minted \/ h \in holdKey => Unreleased(h)
  /\ \A w \in Workers, h \in Holds : task[w].pc \in WillRelease /\ task[w].on = h => Unreleased(h)
  /\ \A w \in Workers : task[w].pc = "release.commit" => task[w].on \notin holdKey

LEMMA HoldsPut ==
  ASSUME Typed, [Next]_vars, NEW h \in Holds, h \in holdKey', h \notin holdKey
  PROVE  \E w \in Workers : task[w].on = h /\ task[w].pc \in {"create.hold", "begin.refresh"}
<1> USE DEF storeVars, redis, At
<1>1. ASSUME NEW w \in Workers, Handler(w)
      PROVE  task[w].on = h /\ task[w].pc \in {"create.hold", "begin.refresh"}
  <2>1. CASE Create(w)
    BY <2>1 DEF Create, StartCreate, CreateLock, CreateIdem, CreateReplay, CreateSeat, CreateUnidem,
                CreateUndo, CreateHold, CreateCommit, SetIdemNX, SetSeatNX, DelIdem, PutHold
  <2>2. CASE BeginPayment(w)
    BY <2>2 DEF BeginPayment, StartBegin, BeginTouch, BeginHold, BeginRefresh, BeginInsert, Refresh
  <2>3. CASE OnPaymentApproved(w)
    BY <2>3 DEF OnPaymentApproved, StartApprove, ApproveHold, ApproveConfirm, ApproveDrop, Delete
  <2>4. CASE CompensateCheckout(w) \/ ReleaseHold(w)
    BY <2>4 DEF CompensateCheckout, ReleaseHold, StartCompensate, CompCancel, CompHold, CompOrphan,
                ReleaseDelete, ReleaseCommit, Delete
  <2>5. CASE ExpireHolds(w)
    BY <2>5 DEF ExpireHolds, StartExpire, ExpireHold, ExpireForget, ExpireCheck, ExpireMark, RemoveDueId
  <2>6. CASE HealOrphans(w)
    BY <2>6 DEF HealOrphans, StartHeal, StartSweep, HealHold, HealExpire, SweepKey, SweepCheckout,
                FreeSeat, FreeTrip
  <2> QED BY <1>1, <2>1, <2>2, <2>3, <2>4, <2>5, <2>6 DEF Handler
<1>2. ASSUME NEW w \in Workers, Aborted(w) \/ ElapseCopy(w)
      PROVE  FALSE
  BY <1>2 DEF Aborted, ElapseCopy
<1>3. CASE KeyLapses
  BY <1>3 DEF KeyLapses, HoldKeyLapses, SeatKeyLapses, IdemKeyLapses
<1> QED BY <1>1, <1>2, <1>3 DEF Next, TimePasses, Decide, Elapse, ElapseRow, vars

LEMMA ReleasesCount ==
  ASSUME Typed, [Next]_vars, NEW h \in Holds,
         outbox'[h]["seat.released"] # outbox[h]["seat.released"]
  PROVE  /\ \E w \in Workers : ReleaseCommit(w) /\ task[w].on = h
         /\ outbox'[h]["seat.released"] = outbox[h]["seat.released"] + 1
<1>1. PICK w \in Workers : Writes(w)
  BY WritersOnly DEF tables
<1>2. CASE ReleaseCommit(w)
  BY <1>2 DEF ReleaseCommit, Enqueue, SeatEvents, Typed, TypeOK
<1>3. CASE ApproveConfirm(w) \/ CreateCommit(w)
  <2>1. CASE UNCHANGED outbox
    BY <2>1
  <2>2. CASE Enqueue(task[w].on, "seat.confirmed") \/ Enqueue(task[w].on, "seat.reserved")
    BY <2>2 DEF Enqueue, SeatEvents, Typed, TypeOK
  <2> QED BY <1>3, <2>1, <2>2 DEF ApproveConfirm, CreateCommit
<1>4. CASE \/ CreateLock(w) \/ CreateUndo(w) \/ BeginInsert(w) \/ CompCancel(w) \/ CompOrphan(w)
           \/ ExpireMark(w) \/ HealExpire(w) \/ FreeSeat(w)
  BY <1>4 DEF CreateLock, CreateUndo, BeginInsert, CompCancel, CompOrphan, ExpireMark, HealExpire,
              FreeSeat
<1> QED BY <1>1, <1>2, <1>3, <1>4 DEF Writes

LEMMA EnterRelease ==
  ASSUME Typed, NEW w \in Workers, Moves(w), task'[w].pc \in WillRelease
  PROVE  \/ task[w].pc \in WillRelease /\ task'[w].on = task[w].on
         \/ task'[w].on \in holdKey
         \/ task'[w].on \notin Minted
<1> USE DEF Typed, TypeOK, Start, Goto, GotoSeeing, Return, Idle, WillRelease, At, GetById
<1>1. CASE Create(w)
  BY <1>1 DEF Create, StartCreate, CreateLock, CreateIdem, CreateReplay, CreateSeat, CreateUnidem,
              CreateUndo, CreateHold, CreateCommit
<1>2. CASE BeginPayment(w)
  <2>1. CASE \E h \in Minted : StartBegin(w, h)
    BY <2>1 DEF StartBegin
  <2>2. CASE BeginTouch(w) \/ BeginHold(w)
    BY <2>2 DEF BeginTouch, BeginHold
  <2>3. CASE BeginRefresh(w) \/ BeginInsert(w)
    BY <2>3 DEF BeginRefresh, BeginInsert
  <2> QED BY <1>2, <2>1, <2>2, <2>3 DEF BeginPayment
<1>3. CASE OnPaymentApproved(w)
  BY <1>3 DEF OnPaymentApproved, StartApprove, ApproveHold, ApproveConfirm, ApproveDrop, DropIfSeen
<1>4. CASE CompensateCheckout(w) \/ ReleaseHold(w)
  BY <1>4 DEF CompensateCheckout, ReleaseHold, StartCompensate, CompCancel, CompHold, CompOrphan,
              ReleaseDelete, ReleaseCommit
<1>5. CASE ExpireHolds(w)
  BY <1>5 DEF ExpireHolds, StartExpire, ExpireHold, ExpireForget, ExpireCheck, ExpireMark
<1>6. CASE HealOrphans(w)
  BY <1>6 DEF HealOrphans, StartHeal, StartSweep, HealHold, HealExpire, SweepKey, SweepCheckout,
              FreeSeat, FreeTrip
<1>7. CASE Aborted(w) \/ ElapseCopy(w)
  BY <1>7 DEF Aborted, ElapseCopy
<1> QED BY <1>1, <1>2, <1>3, <1>4, <1>5, <1>6, <1>7 DEF Moves, Handler

\* releaseHold deletes the hold before it announces the release.
LEMMA EnterCommit ==
  ASSUME Typed, NEW w \in Workers, Moves(w), task'[w].pc = "release.commit"
  PROVE  task'[w].on \notin holdKey'
<1> USE DEF Typed, TypeOK, Start, Goto, GotoSeeing, Return, Idle, At
<1>1. CASE Create(w)
  BY <1>1 DEF Create, StartCreate, CreateLock, CreateIdem, CreateReplay, CreateSeat, CreateUnidem,
              CreateUndo, CreateHold, CreateCommit
<1>2. CASE BeginPayment(w)
  BY <1>2 DEF BeginPayment, StartBegin, BeginTouch, BeginHold, BeginRefresh, BeginInsert
<1>3. CASE OnPaymentApproved(w)
  BY <1>3 DEF OnPaymentApproved, StartApprove, ApproveHold, ApproveConfirm, ApproveDrop, DropIfSeen
<1>4. CASE CompensateCheckout(w) \/ ReleaseCommit(w)
  BY <1>4 DEF CompensateCheckout, StartCompensate, CompCancel, CompHold, CompOrphan, ReleaseCommit
<1>5. CASE ReleaseDelete(w)
  BY <1>5 DEF ReleaseDelete, Delete
<1>6. CASE ExpireHolds(w)
  BY <1>6 DEF ExpireHolds, StartExpire, ExpireHold, ExpireForget, ExpireCheck, ExpireMark
<1>7. CASE HealOrphans(w)
  BY <1>7 DEF HealOrphans, StartHeal, StartSweep, HealHold, HealExpire, SweepKey, SweepCheckout,
              FreeSeat, FreeTrip
<1>8. CASE Aborted(w) \/ ElapseCopy(w)
  BY <1>8 DEF Aborted, ElapseCopy
<1> QED BY <1>1, <1>2, <1>3, <1>4, <1>5, <1>6, <1>7, <1>8 DEF Moves, Handler, ReleaseHold

LEMMA ReleaseStep ==
  ASSUME OneHandler, Typed, ReleaseInv, [Next]_vars
  PROVE  ReleaseInv'
<1>1. ASSUME NEW w \in Workers, ReleaseCommit(w)
      PROVE  task[w].pc = "release.commit" /\ task'[w].pc = "idle" /\ task[w].on \in Minted
  BY <1>1 DEF ReleaseCommit, At, Return, Idle, Typed, TypeOK, SubjectOK, SeatPoints
<1>2. ASSUME NEW h \in Holds, Unreleased(h), ~Unreleased(h)'
      PROVE  \E w \in Workers : ReleaseCommit(w) /\ task[w].on = h
  BY <1>2, ReleasesCount DEF Unreleased
<1>3. ReleasedOnce'
  <2> SUFFICES ASSUME NEW h \in Holds, outbox'[h]["seat.released"] # outbox[h]["seat.released"]
               PROVE  outbox'[h]["seat.released"] <= 1
    BY DEF ReleasedOnce, ReleaseInv
  <2>1. Unreleased(h)
    BY <1>1, ReleasesCount DEF ReleaseInv, WillRelease
  <2> QED BY <2>1, ReleasesCount DEF Unreleased
<1>4. ASSUME NEW h \in Holds, h \notin Minted' \/ h \in holdKey'
      PROVE  Unreleased(h)'
  <2>1. CASE h \notin Minted'
    <3>1. h \notin Minted
      BY <2>1, KeepsStep DEF Keeps, Typed
    <3> QED BY <1>1, <1>2, <3>1 DEF ReleaseInv
  <2>2. CASE h \in holdKey /\ h \in holdKey'
    BY <1>1, <1>2, <2>2 DEF ReleaseInv
  <2>3. CASE h \notin holdKey /\ h \in holdKey'
    <3>1. PICK w \in Workers : task[w].on = h /\ task[w].pc \in {"create.hold", "begin.refresh"}
      BY <2>3, HoldsPut
    <3>2. Unreleased(h)
      BY <3>1 DEF ReleaseInv, WillRelease
    <3>3. \A v \in Workers : ~ReleaseCommit(v)
      BY <1>1, <3>1 DEF OneHandler
    <3> QED BY <1>2, <3>2, <3>3
  <2> QED BY <1>4, <2>1, <2>2, <2>3
<1>5. ASSUME NEW w \in Workers, NEW h \in Holds, task'[w].pc \in WillRelease, task'[w].on = h
      PROVE  Unreleased(h)'
  <2>1. \A v \in Workers : ~ReleaseCommit(v)
    BY <1>1, <1>5 DEF OneHandler, WillRelease
  <2>2. CASE task'[w] = task[w]
    BY <1>2, <1>5, <2>1, <2>2 DEF ReleaseInv
  <2>3. CASE task'[w] # task[w]
    BY <1>2, <1>5, <2>1, <2>3, MoverMoves, EnterRelease DEF ReleaseInv
  <2> QED BY <2>2, <2>3
<1>6. ASSUME NEW w \in Workers, task'[w].pc = "release.commit"
      PROVE  task'[w].on \notin holdKey'
  <2>1. CASE task'[w] # task[w]
    BY <1>6, <2>1, MoverMoves, EnterCommit
  <2>2. CASE task'[w] = task[w]
    <3>1. task[w].on \in Holds /\ task[w].on \notin holdKey
      BY <1>6, <2>2 DEF ReleaseInv, Typed, SubjectOK, SeatPoints, Minted
    <3>2. \A v \in Workers : task[v].pc = "release.commit"
      BY <1>6, <2>2 DEF OneHandler
    <3> QED BY <2>2, <3>1, <3>2, HoldsPut
  <2> QED BY <2>1, <2>2
<1> QED BY <1>3, <1>4, <1>5, <1>6 DEF ReleaseInv

LEMMA ReleaseInit == Init => ReleaseInv
<1> SUFFICES ASSUME Init PROVE ReleaseInv
  OBVIOUS
<1>1. "seat.released" \in SeatEvents /\ 0 <= 1
  BY DEF SeatEvents
<1>2. \A h \in Holds : outbox[h]["seat.released"] = 0
  BY <1>1 DEF Init
<1>3. \A w \in Workers : task[w].pc = "idle"
  BY DEF Init, Idle
<1> QED BY <1>1, <1>2, <1>3 DEF ReleaseInv, ReleasedOnce, Unreleased, WillRelease

\* ReleasedOnce, where no two handlers interleave: whatever the order of
\* expiry, compensation, healing and crashes, and however often each runs, a
\* hold has one seat.released in the outbox at most.
THEOREM SeatsAreReleasedOnce ==
  ASSUME OneHandler
  PROVE  Spec => []ReleasedOnce
<1>1. TypeOK /\ SubjectOK /\ ReleaseInv /\ [Next]_vars => ReleaseInv'
  BY ReleaseStep DEF Typed
<1>2. ReleaseInv => ReleasedOnce
  BY DEF ReleaseInv
<1> QED BY <1>1, <1>2, ReleaseInit, TypeCorrect, PTL DEF Spec

-----------------------------------------------------------------------------
(* The ledger, with one handler at a time and while no seat is given back *)

\* KeepsLedger, where no two handlers interleave: every reservation is announced
\* as it is confirmed, stays confirmed, ends only while open, and gives its seat
\* back once.
THEOREM LedgerIsKept ==
  ASSUME OneHandler
  PROVE  Spec => KeepsLedger
<1>1. Init => Ledger!Init /\ RowsSeen /\ SeesOpen
  BY LedgerInit DEF Init, Idle, Ending, RowsSeen, SeesOpen
<1>2. TypeOK /\ SubjectOK /\ RowsSeen /\ [Next]_vars => RowsSeen'
  BY RowsSeenStep DEF Typed
<1>3. TypeOK /\ SubjectOK /\ SeesOpen /\ [Next]_vars => SeesOpen'
  BY SeesOpenStep
<1>4. TypeOK /\ SubjectOK /\ ReleaseInv /\ [Next]_vars => ReleaseInv'
  BY ReleaseStep DEF Typed
<1>5. TypeOK /\ SubjectOK /\ RowsSeen /\ SeesOpen /\ ReleaseInv /\ [Next]_vars
        => [Ledger!Next]_(Ledger!ledgerVars)
  <2> SUFFICES ASSUME Typed, RowsSeen, SeesOpen, ReleaseInv, [Next]_vars
               PROVE  [Ledger!Next]_(Ledger!ledgerVars)
    BY DEF Typed
  <2>1. ASSUME NEW w \in Workers, NEW h \in Holds, h = task[w].on, Ledger!Close(h), task[w].pc \in Ending
        PROVE  Ledger!Next
    <3>1. resv[h] = "PENDING_PAYMENT"
      BY <2>1 DEF SeesOpen, Ending
    <3>2. LedgerStatus[resv[h]] = "open"
      BY <3>1 DEF LedgerStatus
    <3> QED BY <2>1, <3>2 DEF Ledger!Next
  <2>2. ASSUME NEW w \in Workers, NEW h \in Holds, h = task[w].on, Ledger!Return(h),
               task[w].pc = "release.commit"
        PROVE  Ledger!Next
    <3>1. outbox[h]["seat.released"] = 0
      BY <2>2 DEF ReleaseInv, WillRelease, Unreleased
    <3> QED BY <2>2, <3>1 DEF Ledger!Next
  <2> QED BY <2>1, <2>2, LedgerStep DEF Ledger!Next
<1> QED BY <1>1, <1>2, <1>3, <1>4, <1>5, ReleaseInit, TypeCorrect, PTL
        DEF Spec, KeepsLedger, Ledger!Spec

LEMMA AcquireWriters ==
  ASSUME [AcquireNext]_vars
  PROVE  \/ UNCHANGED tables
         \/ \E w \in Workers : \/ CreateLock(w) \/ CreateUndo(w) \/ CreateCommit(w)
                               \/ BeginInsert(w) \/ ApproveConfirm(w)
<1> USE DEF tables, database
<1>1. ASSUME NEW w \in Workers, Create(w) \/ BeginPayment(w) \/ OnPaymentApproved(w) \/ Aborted(w)
      PROVE  \/ UNCHANGED tables
             \/ CreateLock(w) \/ CreateUndo(w) \/ CreateCommit(w)
             \/ BeginInsert(w) \/ ApproveConfirm(w)
  <2>1. CASE Create(w)
    BY <2>1 DEF Create, StartCreate, CreateIdem, CreateReplay, CreateSeat, CreateUnidem, CreateHold
  <2>2. CASE BeginPayment(w)
    BY <2>2 DEF BeginPayment, StartBegin, BeginTouch, BeginHold, BeginRefresh
  <2>3. CASE OnPaymentApproved(w) \/ Aborted(w)
    BY <2>3 DEF OnPaymentApproved, StartApprove, ApproveHold, ApproveDrop, Aborted
  <2> QED BY <1>1, <2>1, <2>2, <2>3
<1> QED BY <1>1 DEF AcquireNext, Decide, TimePasses, Elapse, ElapseRow, ElapseCopy, KeyLapses, vars

\* However many customers, retries and aborts interleave: while no seat is given
\* back, the service keeps the strict ledger, so every confirmation sells a
\* seat, one that was not sold.
THEOREM LedgerIsKeptStrictly == AcquireSpec => Ledger!StrictSpec
<1>1. Init => Ledger!Init
  BY LedgerInit
<1>2. AcquireInv /\ ConfirmedOnce /\ SoldIsAnnounced /\ [AcquireNext]_vars
        => [Ledger!StrictNext]_(Ledger!ledgerVars)
  <2> SUFFICES ASSUME AcquireInv, ConfirmedOnce, SoldIsAnnounced, [AcquireNext]_vars
               PROVE  [Ledger!StrictNext]_(Ledger!ledgerVars)
    OBVIOUS
  <2>1. Typed /\ [Next]_vars
    BY AcquireIsNext DEF AcquireInv
  <2>2. CASE \E w \in Workers, h \in Holds, s \in Seats, k \in Keys : StartCreate(w, h, s, k)
    BY <2>2, LedgerRequests, <2>1 DEF Ledger!StrictNext
  <2>3. CASE UNCHANGED document
    <3>1. seatOf' = seatOf
      BY <2>3 DEF document
    <3>2. CASE UNCHANGED tables
      BY <3>1, <3>2 DEF Ledger!ledgerVars, tables
    <3>3. CASE \E w \in Workers : \/ CreateLock(w) \/ CreateUndo(w) \/ CreateCommit(w)
                                 \/ BeginInsert(w) \/ ApproveConfirm(w)
      <4>1. ASSUME NEW h \in Holds, Ledger!Confirm(h), Finds(h), resv[h] = "PENDING_PAYMENT"
            PROVE  Ledger!StrictNext
        <5>1. Alive(h) /\ h \in Minted /\ seatOf[h] \in Seats /\ seat[seatOf[h]] # "AVAILABLE"
          BY <4>1, <2>1 DEF AcquireInv, TakersHold, Taken, Alive, Minted, Typed, TypeOK, StoreTypeOK
        <5>2. ASSUME seat[seatOf[h]] = "SOLD"
              PROVE  FALSE
          <6>1. PICK g \in Holds : seatOf[g] = seatOf[h] /\ outbox[g]["seat.confirmed"] > 0
            BY <5>1, <5>2 DEF SoldIsAnnounced
          <6>2. resv[g] # "NONE" /\ resv[g] # "PENDING_PAYMENT"
            BY <6>1 DEF ConfirmedOnce
          <6>3. g = h
            BY <5>1, <6>1, <6>2 DEF AcquireInv, OneTaker, Taken, Alive
          <6> QED BY <4>1, <6>2, <6>3
        <5>3. seatOf[h] \notin SoldSeats /\ SoldSeats' = SoldSeats \cup {seatOf[h]}
          BY <4>1, <5>1, <5>2 DEF Finds, SoldSeats
        <5> QED BY <4>1, <5>3 DEF Ledger!StrictNext, SoldSeats
      <4> QED BY <2>1, <3>1, <3>3, <4>1, AcquireWrites DEF Ledger!StrictNext
    <3> QED BY <3>2, <3>3, AcquireWriters
  <2> QED BY <2>1, <2>2, <2>3, Documents
<1>3. [AcquireNext]_vars => [Next]_vars
  BY AcquireIsNext
<1>4. AcquireSpec => Spec
  BY <1>3, PTL DEF AcquireSpec, Spec
<1> QED BY <1>1, <1>2, <1>4, AcquireInvariant, ConfirmedAtMostOnce, SoldSeatsAreAnnounced, PTL
        DEF AcquireSpec, Ledger!StrictSpec
=============================================================================

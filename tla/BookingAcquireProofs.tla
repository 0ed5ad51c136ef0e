------------------------ MODULE BookingAcquireProofs ------------------------
(***************************************************************************)
(* Theorems about AcquireSpec, the part of Booking that takes seats and    *)
(* never gives one back, for every set of holds, seats, keys and handlers  *)
(* and every value of the bounds.                                          *)
(***************************************************************************)
EXTENDS BookingProofs

-----------------------------------------------------------------------------
(* The inductive invariant *)

\* A create that has taken its seat in Postgres and not returned.
PastLock ==
  {"create.idem", "create.replay", "create.seat", "create.unidem", "create.undo",
   "create.hold", "create.commit"}

Creating == PastLock \cup {"create.lock"}

\* A create that has not yet written the hold.
Early == Creating \ {"create.commit"}

Locking(h) == \E w \in Workers : task[w].on = h /\ task[w].pc \in PastLock

\* The hold exists, has a row, or is about to be written by a beginPayment.
Alive(h) ==
  \/ h \in holdKey
  \/ resv[h] # "NONE"
  \/ \E w \in Workers : task[w].on = h /\ task[w].pc \in {"begin.refresh", "begin.insert"}

Taken(h) == Locking(h) \/ Alive(h)

\* A seat is taken by one hold at most.
OneTaker ==
  \A g, h \in Holds : Taken(g) /\ Taken(h) /\ seatOf[g] = seatOf[h] => g = h

\* The seat a hold takes is off the market.
TakersHold ==
  \A h \in Holds : Taken(h) => h \in Minted /\ seat[seatOf[h]] # "AVAILABLE"

\* A hold is created by one handler, and does not live before it is written.
OneCreate ==
  /\ \A v, w \in Workers :
       {task[v].pc, task[w].pc} \subseteq Creating /\ task[v].on = task[w].on => v = w
  /\ \A w \in Workers, h \in Holds : task[w].pc \in Early /\ task[w].on = h => ~Alive(h)

\* Every seat on the market, and every seat that a create may yet put back or
\* pay for, is counted.
Lockers == {w \in Workers : task[w].pc \in PastLock}
Market  == {s \in Seats : seat[s] = "AVAILABLE"}

Counted ==
  /\ IsFiniteSet(Lockers)
  /\ availableSeats >= Cardinality(Market) + Cardinality(Lockers)

Typed == TypeOK /\ SubjectOK

AcquireInv == Typed /\ OneTaker /\ TakersHold /\ OneCreate /\ ConfirmedSeatIsSold /\ Counted
-----------------------------------------------------------------------------
(* Steps that take no seat, write no hold and put no seat back *)

LEMMA AcquireIsNext == [AcquireNext]_vars => [Next]_vars
BY DEF AcquireNext, Next, Handler, Verdicts

LEMMA AcquireTyped == Typed /\ [AcquireNext]_vars => Typed' /\ Keeps
BY AcquireIsNext, StepTyped, KeepsStep DEF Typed

QuietTask(w) ==
  task'[w].pc \in Creating =>
    /\ task[w].pc \in Creating
    /\ task'[w].on = task[w].on
    /\ task'[w].pc \in PastLock => task[w].pc \in PastLock
    /\ task'[w].pc \in Early => task[w].pc \in Early

LEMMA QuietStep ==
  ASSUME Typed, OneTaker, TakersHold, OneCreate,
         seatOf' = seatOf,
         \A s \in Seats : seat'[s] = "AVAILABLE" => seat[s] = "AVAILABLE",
         \A h \in Holds : Alive(h)' => Alive(h),
         \A w \in Workers : QuietTask(w)
  PROVE  OneTaker' /\ TakersHold' /\ OneCreate'
<1>1. \A h \in Holds : Taken(h)' => Taken(h)
  <2>1. PastLock \subseteq Creating
    BY DEF Creating
  <2> QED BY <2>1 DEF Taken, Locking, QuietTask
<1>2. OneTaker'
  BY <1>1 DEF OneTaker
<1>3. TakersHold'
  <2> SUFFICES ASSUME NEW h \in Holds, Taken(h)'
               PROVE  h \in Minted' /\ seat'[seatOf'[h]] # "AVAILABLE"
    BY DEF TakersHold
  <2>1. h \in Minted /\ seat[seatOf[h]] # "AVAILABLE"
    BY <1>1 DEF TakersHold
  <2>2. seatOf[h] \in Seats
    BY <2>1 DEF Minted, Typed, TypeOK, StoreTypeOK
  <2> QED BY <2>1, <2>2 DEF Minted
<1>4. OneCreate'
  BY DEF OneCreate, QuietTask, Early
<1> QED BY <1>2, <1>3, <1>4

LEMMA LivesOn ==
  ASSUME Typed, NEW w \in Workers, NEW t, task' = [task EXCEPT ![w] = t],
         t.pc \in {"begin.refresh", "begin.insert"} => Alive(t.on),
         \A h \in Holds : h \in holdKey' => Alive(h),
         \A h \in Holds : resv'[h] # "NONE" => Alive(h)
  PROVE  \A h \in Holds : Alive(h)' => Alive(h)
<1> SUFFICES ASSUME NEW h \in Holds, Alive(h)', ~Alive(h)
             PROVE  FALSE
  OBVIOUS
<1>1. PICK v \in Workers : task'[v].on = h /\ task'[v].pc \in {"begin.refresh", "begin.insert"}
  BY DEF Alive
<1>2. CASE v = w
  BY <1>1, <1>2 DEF Typed, TypeOK
<1>3. CASE v # w
  BY <1>1, <1>3 DEF Typed, TypeOK, Alive
<1> QED BY <1>2, <1>3

LEMMA StaysQuiet ==
  ASSUME Typed, NEW w \in Workers, NEW t, task' = [task EXCEPT ![w] = t],
         t.pc \in Creating =>
           /\ t.pc \in PastLock /\ task[w].pc \in PastLock /\ t.on = task[w].on
           /\ t.pc \in Early => task[w].pc \in Early
  PROVE  \A v \in Workers : QuietTask(v)
<1>1. PastLock \subseteq Creating
  BY DEF Creating
<1> QED BY <1>1 DEF QuietTask, Typed, TypeOK

-----------------------------------------------------------------------------
(* One lemma per handler: the steps that matter, then the quiet ones *)

Claims == OneTaker /\ TakersHold /\ OneCreate

\* A create works on a minted hold, whose seat is known.
LEMMA Subject ==
  ASSUME Typed, NEW w \in Workers, task[w].pc \in Creating
  PROVE  task[w].on \in Minted /\ seatOf[task[w].on] \in Seats
BY DEF Typed, SubjectOK, SeatPoints, Creating, PastLock, Minted, TypeOK, StoreTypeOK

LEMMA StartCreateClaims ==
  ASSUME Typed, Claims, NEW w \in Workers, NEW h \in Holds, NEW s \in Seats, NEW k \in Keys,
         StartCreate(w, h, s, k)
  PROVE  Claims'
<1> USE DEF Claims
<1>1. task' = [task EXCEPT ![w] = [pc |-> "create.lock", on |-> h, saw |-> "-"]]
  BY DEF StartCreate, Start
<1>2. h \notin Minted /\ seat' = seat /\ holdKey' = holdKey /\ resv' = resv
  BY DEF StartCreate, redis, database
<1>3. \A g \in Holds \ {h} : seatOf'[g] = seatOf[g]
  BY DEF StartCreate, Typed, TypeOK, StoreTypeOK
<1>4. Keeps
  BY <1>2, <1>3, NoneAssumption DEF Keeps, Minted, StartCreate, Typed, TypeOK, StoreTypeOK
<1>5. \A g \in Holds : Alive(g)' => Alive(g)
  BY <1>1, <1>2, LivesOn DEF Alive
<1>6. ~Taken(h)
  BY <1>2 DEF TakersHold
<1>7. \A g \in Holds : Taken(g)' => Taken(g)
  <2> SUFFICES ASSUME NEW g \in Holds, Locking(g)'
               PROVE  Locking(g)
    BY <1>5 DEF Taken
  <2> QED BY <1>1 DEF Locking, PastLock, Typed, TypeOK
<1>8. OneTaker'
  BY <1>3, <1>6, <1>7 DEF OneTaker
<1>9. TakersHold'
  BY <1>2, <1>3, <1>4, <1>6, <1>7 DEF TakersHold, Keeps
<1>10. \A v \in Workers : task[v].pc \in Creating => task[v].on # h
  BY <1>2, Subject
<1>11. OneCreate'
  <2>1. \A v \in Workers \ {w} : task'[v] = task[v]
    BY <1>1 DEF Typed, TypeOK
  <2>2. task'[w].on = h
    BY <1>1 DEF Typed, TypeOK
  <2>3. ~Alive(h)'
    BY <1>5, <1>6 DEF Taken
  <2> QED BY <1>5, <1>10, <2>1, <2>2, <2>3 DEF OneCreate, Early
<1> QED BY <1>8, <1>9, <1>11

LEMMA CreateLockClaims ==
  ASSUME Typed, Claims, NEW w \in Workers, CreateLock(w)
  PROVE  Claims'
<1> USE DEF Claims
<1> DEFINE f == task[w].on
<1>1. task[w].pc = "create.lock" /\ f \in Minted /\ seatOf[f] \in Seats
  BY Subject DEF CreateLock, At, Creating
<1>2. seatOf' = seatOf /\ holdKey' = holdKey /\ resv' = resv
  BY DEF CreateLock, storeVars, document, redis
<1>3. CASE Return(w) /\ UNCHANGED seat
  <2>1. task' = [task EXCEPT ![w] = Idle]
    BY <1>3 DEF Return
  <2>2. \A h \in Holds : Alive(h)' => Alive(h)
    BY <2>1, <1>2, LivesOn DEF Alive, Idle
  <2>3. \A v \in Workers : QuietTask(v)
    BY <2>1, StaysQuiet DEF Idle, Creating, PastLock
  <2> QED BY <2>2, <2>3, <1>2, <1>3, QuietStep
<1>4. CASE LockSeat(seatOf[f]) /\ Goto(w, "create.idem")
  <2> DEFINE t == [task[w] EXCEPT !.pc = "create.idem"]
  <2>1. task' = [task EXCEPT ![w] = t]
    BY <1>4 DEF Goto, Typed, TypeOK
  <2>2. t.pc = "create.idem" /\ t.on = f /\ task'[w] = t /\ \A v \in Workers \ {w} : task'[v] = task[v]
    BY <2>1 DEF Typed, TypeOK
  <2> HIDE DEF t
  <2>3. \A h \in Holds : Alive(h)' => Alive(h)
    BY <2>1, <2>2, <1>2, LivesOn DEF Alive
  <2>4. \A h \in Holds : Taken(h)' => Taken(h) \/ h = f
    BY <2>2, <2>3 DEF Taken, Locking
  <2>5. seat[seatOf[f]] = "AVAILABLE" /\ seat' = [seat EXCEPT ![seatOf[f]] = "HELD"]
    BY <1>4 DEF LockSeat
  <2>6. \A h \in Holds : Taken(h) => seatOf[h] # seatOf[f]
    BY <2>5 DEF TakersHold
  <2>7. OneTaker'
    BY <2>4, <2>6, <1>2 DEF OneTaker
  <2>8. TakersHold'
    BY <1>1, <1>2, <2>4, <2>5 DEF TakersHold, Minted, Typed, TypeOK, StoreTypeOK
  <2>9. OneCreate'
    BY <1>1, <2>2, <2>3 DEF OneCreate, Creating, Early, PastLock
  <2> QED BY <2>7, <2>8, <2>9
<1> QED BY <1>3, <1>4 DEF CreateLock

LEMMA CreateUndoClaims ==
  ASSUME Typed, Claims, NEW w \in Workers, CreateUndo(w)
  PROVE  Claims'
<1> USE DEF Claims
<1> DEFINE f == task[w].on
<1>1. task[w].pc = "create.undo" /\ f \in Minted /\ seatOf[f] \in Seats
  BY Subject DEF CreateUndo, At, Creating, PastLock
<1>2. seatOf' = seatOf /\ holdKey' = holdKey /\ resv' = resv
  BY DEF CreateUndo, storeVars, document, redis
<1>3. task' = [task EXCEPT ![w] = Idle]
  BY DEF CreateUndo, Return
<1>4. \A h \in Holds : Alive(h)' => Alive(h)
  BY <1>2, <1>3, LivesOn DEF Alive, Idle
<1>5. task'[w] = Idle /\ \A v \in Workers \ {w} : task'[v] = task[v]
  BY <1>3 DEF Typed, TypeOK
<1>6. \A h \in Holds : Taken(h)' => Taken(h)
  BY <1>4, <1>5 DEF Taken, Locking, Idle, PastLock
<1>7. Taken(f)
  BY <1>1 DEF Taken, Locking, PastLock
<1>8. ASSUME NEW h \in Holds, h = f
      PROVE  ~Taken(h)'
  <2>1. ~Alive(h)
    BY <1>1, <1>8 DEF OneCreate, Early, Creating, PastLock
  <2>2. \A v \in Workers : task[v].on = h /\ task[v].pc \in PastLock => v = w
    BY <1>1, <1>8 DEF OneCreate, Creating, PastLock
  <2>3. ~Locking(h)'
    BY <2>2, <1>5 DEF Locking, Idle, PastLock
  <2> QED BY <2>1, <2>3, <1>4 DEF Taken
<1>9. \A h \in Holds : Taken(h)' => h # f /\ seatOf[h] # seatOf[f]
  BY <1>1, <1>6, <1>7, <1>8 DEF OneTaker, Minted
<1>10. OneTaker'
  BY <1>2, <1>6 DEF OneTaker
<1>11. TakersHold'
  <2> SUFFICES ASSUME NEW h \in Holds, Taken(h)'
               PROVE  h \in Minted' /\ seat'[seatOf'[h]] # "AVAILABLE"
    BY DEF TakersHold
  <2>1. h \in Minted /\ seat[seatOf[h]] # "AVAILABLE"
    BY <1>6 DEF TakersHold
  <2>2. seat'[seatOf[h]] = seat[seatOf[h]]
    BY <1>1, <1>9 DEF CreateUndo, ReleaseSeat, Typed, TypeOK
  <2> QED BY <1>2, <2>1, <2>2 DEF Minted
<1>12. OneCreate'
  BY <1>4, <1>5 DEF OneCreate, Idle, Creating, PastLock, Early
<1> QED BY <1>10, <1>11, <1>12

LEMMA CreateHoldClaims ==
  ASSUME Typed, Claims, NEW w \in Workers, CreateHold(w)
  PROVE  Claims'
<1> USE DEF Claims
<1> DEFINE f == task[w].on
           t == [task[w] EXCEPT !.pc = "create.commit"]
<1>1. task[w].pc = "create.hold" /\ f \in Minted /\ seatOf[f] \in Seats
  BY Subject DEF CreateHold, At, Creating, PastLock
<1>2. seatOf' = seatOf /\ holdKey' = holdKey \cup {f} /\ resv' = resv /\ seat' = seat
  BY DEF CreateHold, PutHold, document, database
<1>3. t.pc = "create.commit" /\ t.on = f /\ task'[w] = t /\ \A v \in Workers \ {w} : task'[v] = task[v]
  BY DEF CreateHold, Goto, Typed, TypeOK
<1> HIDE DEF t
<1>4. \A h \in Holds \ {f} : Alive(h)' => Alive(h)
  BY <1>2, <1>3 DEF Alive
<1>5. Taken(f)
  BY <1>1 DEF Taken, Locking, PastLock
<1>6. \A h \in Holds : Taken(h)' => Taken(h)
  <2> SUFFICES ASSUME NEW h \in Holds, h # f, Locking(h)'
               PROVE  Locking(h)
    BY <1>4, <1>5 DEF Taken
  <2> QED BY <1>3 DEF Locking
<1>7. OneTaker'
  BY <1>2, <1>6 DEF OneTaker
<1>8. TakersHold'
  BY <1>2, <1>6 DEF TakersHold, Minted
<1>9. OneCreate'
  <2>1. \A v \in Workers \ {w} : task[v].pc \in Creating => task[v].on # f
    BY <1>1 DEF OneCreate, Creating, PastLock
  <2> QED BY <1>1, <1>3, <1>4, <2>1 DEF OneCreate, Early, Creating, PastLock
<1> QED BY <1>7, <1>8, <1>9

\* The other commands of create leave the seat, and no new hold behind.
LEMMA CreateQuiet ==
  ASSUME Typed, Claims, NEW w \in Workers,
         \/ CreateIdem(w) \/ CreateReplay(w) \/ CreateSeat(w) \/ CreateUnidem(w)
         \/ CreateCommit(w) \/ Aborted(w)
  PROVE  Claims'
<1> USE DEF Claims
<1>1. seatOf' = seatOf /\ holdKey' = holdKey /\ resv' = resv /\ seat' = seat
  BY DEF CreateIdem, CreateReplay, CreateSeat, CreateUnidem, CreateCommit, Aborted, SetIdemNX,
         SetSeatNX, DelIdem, storeVars, document, redis, database
<1>2. PICK t : /\ task' = [task EXCEPT ![w] = t]
               /\ t.pc \in PastLock \cup {"idle"}
               /\ t.pc # "idle" => t.on = task[w].on /\ task[w].pc \in Early \cap PastLock
  <2>1. CASE Return(w)
    <3>1. task' = [task EXCEPT ![w] = Idle] /\ Idle.pc = "idle"
      BY <2>1 DEF Return, Idle
    <3> HIDE DEF Idle
    <3> QED BY <3>1
  <2>2. ASSUME NEW p \in PastLock, Goto(w, p), task[w].pc \in Early \cap PastLock
        PROVE  \E t : /\ task' = [task EXCEPT ![w] = t]
                      /\ t.pc \in PastLock /\ t.on = task[w].on
    <3> DEFINE t == [task[w] EXCEPT !.pc = p]
    <3>1. task' = [task EXCEPT ![w] = t]
      BY <2>2 DEF Goto
    <3>2. t.pc = p /\ t.on = task[w].on
      BY DEF Typed, TypeOK
    <3> QED BY <3>1, <3>2
  <2> USE DEF At, Early, Creating, PastLock
  <2>3. CASE CreateIdem(w)
    BY <2>3, <2>2 DEF CreateIdem
  <2>4. CASE CreateReplay(w)
    BY <2>4, <2>1, <2>2 DEF CreateReplay
  <2>5. CASE CreateSeat(w)
    BY <2>5, <2>2 DEF CreateSeat
  <2>6. CASE CreateUnidem(w)
    BY <2>6, <2>2 DEF CreateUnidem
  <2>7. CASE CreateCommit(w) \/ Aborted(w)
    BY <2>7, <2>1 DEF CreateCommit, Aborted
  <2> QED BY <2>3, <2>4, <2>5, <2>6, <2>7
<1>3. \A h \in Holds : Alive(h)' => Alive(h)
  BY <1>1, <1>2, LivesOn DEF Alive, PastLock
<1>4. \A v \in Workers : QuietTask(v)
  BY <1>2, StaysQuiet DEF Early, Creating, PastLock
<1> QED BY <1>1, <1>3, <1>4, QuietStep

\* beginPayment writes a row, or a hold, only of a hold it has seen alive.
LEMMA BeginPaymentQuiet ==
  ASSUME Typed, Claims, NEW w \in Workers, BeginPayment(w)
  PROVE  Claims'
<1> USE DEF Claims
<1>1. seatOf' = seatOf /\ seat' = seat
  BY DEF BeginPayment, StartBegin, BeginTouch, BeginHold, BeginRefresh, BeginInsert,
         storeVars, document, database
<1>2. \A h \in Holds : h \in holdKey' => Alive(h)
  <2>1. CASE BeginRefresh(w)
    BY <2>1 DEF BeginRefresh, Refresh, At, Alive
  <2>2. CASE ~BeginRefresh(w)
    BY <2>2 DEF BeginPayment, StartBegin, BeginTouch, BeginHold, BeginInsert, storeVars, redis, Alive
  <2> QED BY <2>1, <2>2
<1>3. \A h \in Holds : resv'[h] # "NONE" => Alive(h)
  <2>1. CASE BeginInsert(w)
    BY <2>1 DEF BeginInsert, SetStatus, At, Alive, Typed, TypeOK
  <2>2. CASE ~BeginInsert(w)
    BY <2>2 DEF BeginPayment, StartBegin, BeginTouch, BeginHold, BeginRefresh, database, Alive
  <2> QED BY <2>1, <2>2
<1>4. PICK t : /\ task' = [task EXCEPT ![w] = t]
               /\ t.pc \notin Creating
               /\ t.pc \in {"begin.refresh", "begin.insert"} => Alive(t.on)
  <2> USE DEF At, Creating, PastLock
  <2>1. CASE Return(w)
    <3>1. task' = [task EXCEPT ![w] = Idle] /\ Idle.pc = "idle"
      BY <2>1 DEF Return, Idle
    <3> HIDE DEF Idle
    <3> QED BY <3>1
  <2>2. ASSUME NEW h \in Minted, StartBegin(w, h)
        PROVE  \E t : /\ task' = [task EXCEPT ![w] = t]
                      /\ t.pc \in {"begin.touch", "begin.hold"}
    <3> DEFINE p == IF resv[h] = "PENDING_PAYMENT" THEN "begin.touch" ELSE "begin.hold"
               t == [pc |-> p, on |-> h, saw |-> "-"]
    <3>1. task' = [task EXCEPT ![w] = t] /\ t.pc \in {"begin.touch", "begin.hold"}
      BY <2>2 DEF StartBegin, Start
    <3> QED BY <3>1
  <2>3. ASSUME NEW p \in {"begin.refresh", "begin.insert"}, NEW v,
               Goto(w, p) \/ GotoSeeing(w, p, v), Alive(task[w].on)
        PROVE  \E t : /\ task' = [task EXCEPT ![w] = t]
                      /\ t.pc = p /\ t.on = task[w].on
    <3> DEFINE t == [task[w] EXCEPT !.pc = p]
               u == [pc |-> p, on |-> task[w].on, saw |-> v]
    <3>1. task' = [task EXCEPT ![w] = t] \/ task' = [task EXCEPT ![w] = u]
      BY <2>3 DEF Goto, GotoSeeing, Typed, TypeOK
    <3>2. t.pc = p /\ t.on = task[w].on /\ u.pc = p /\ u.on = task[w].on
      BY DEF Typed, TypeOK
    <3> QED BY <3>1, <3>2
  <2>4. CASE BeginTouch(w)
    BY <2>4, <2>1, <2>3 DEF BeginTouch, GetById, Alive
  <2>5. CASE BeginHold(w)
    BY <2>5, <2>1, <2>3 DEF BeginHold, GetById, Alive
  <2>6. CASE BeginRefresh(w)
    <3>1. Alive(task[w].on)
      BY <2>6 DEF BeginRefresh, Alive
    <3> QED BY <2>6, <3>1, <2>1, <2>3 DEF BeginRefresh
  <2>7. CASE BeginInsert(w)
    BY <2>7, <2>1 DEF BeginInsert
  <2> QED BY <2>2, <2>4, <2>5, <2>6, <2>7 DEF BeginPayment
<1>5. \A h \in Holds : Alive(h)' => Alive(h)
  BY <1>2, <1>3, <1>4, LivesOn
<1>6. \A v \in Workers : QuietTask(v)
  BY <1>4, StaysQuiet
<1> QED BY <1>1, <1>5, <1>6, QuietStep

\* payment.approved confirms a row that is there, and sells a taken seat.
LEMMA ApproveQuiet ==
  ASSUME Typed, Claims, NEW w \in Workers, OnPaymentApproved(w)
  PROVE  Claims'
<1> USE DEF Claims
<1>1. seatOf' = seatOf
  BY DEF OnPaymentApproved, StartApprove, ApproveHold, ApproveConfirm, ApproveDrop,
         storeVars, document
<1>2. \A s \in Seats : seat'[s] = "AVAILABLE" => seat[s] = "AVAILABLE"
  <2>1. CASE ApproveConfirm(w)
    BY <2>1 DEF ApproveConfirm, SellSeat, Typed, TypeOK
  <2>2. CASE ~ApproveConfirm(w)
    BY <2>2 DEF OnPaymentApproved, StartApprove, ApproveHold, ApproveDrop, database
  <2> QED BY <2>1, <2>2
<1>3. \A h \in Holds : h \in holdKey' => Alive(h)
  BY DEF OnPaymentApproved, StartApprove, ApproveHold, ApproveConfirm, ApproveDrop, Delete,
         storeVars, redis, Alive
<1>4. \A h \in Holds : resv'[h] # "NONE" => Alive(h)
  <2>1. CASE ApproveConfirm(w)
    BY <2>1 DEF ApproveConfirm, Confirmable, SetStatus, Alive, Typed, TypeOK
  <2>2. CASE ~ApproveConfirm(w)
    BY <2>2 DEF OnPaymentApproved, StartApprove, ApproveHold, ApproveDrop, database, Alive
  <2> QED BY <2>1, <2>2
<1>5. PICK t : /\ task' = [task EXCEPT ![w] = t]
               /\ t.pc \in {"idle", "approve.hold", "approve.confirm", "approve.drop"}
  <2>1. CASE Return(w)
    <3>1. task' = [task EXCEPT ![w] = Idle] /\ Idle.pc = "idle"
      BY <2>1 DEF Return, Idle
    <3> HIDE DEF Idle
    <3> QED BY <3>1
  <2>2. ASSUME NEW p, NEW v, Goto(w, p) \/ GotoSeeing(w, p, v)
        PROVE  \E t : task' = [task EXCEPT ![w] = t] /\ t.pc = p
    <3> DEFINE t == [task[w] EXCEPT !.pc = p]
               u == [pc |-> p, on |-> task[w].on, saw |-> v]
    <3>1. task' = [task EXCEPT ![w] = t] \/ task' = [task EXCEPT ![w] = u]
      BY <2>2 DEF Goto, GotoSeeing, Typed, TypeOK
    <3>2. t.pc = p /\ u.pc = p
      BY DEF Typed, TypeOK
    <3> QED BY <3>1, <3>2
  <2>3. ASSUME NEW h \in Minted, StartApprove(w, h)
        PROVE  \E t : task' = [task EXCEPT ![w] = t] /\ t.pc = "approve.hold"
    <3> DEFINE t == [pc |-> "approve.hold", on |-> h, saw |-> resv[h]]
    <3>1. task' = [task EXCEPT ![w] = t] /\ t.pc = "approve.hold"
      BY <2>3 DEF StartApprove, Start
    <3> QED BY <3>1
  <2>4. CASE ApproveHold(w)
    BY <2>4, <2>1, <2>2 DEF ApproveHold
  <2>5. CASE ApproveConfirm(w) \/ ApproveDrop(w)
    BY <2>5, <2>1, <2>2 DEF ApproveConfirm, ApproveDrop, DropIfSeen
  <2> QED BY <2>3, <2>4, <2>5 DEF OnPaymentApproved
<1>6. t.pc \notin Creating /\ t.pc \notin {"begin.refresh", "begin.insert"}
  BY <1>5 DEF Creating, PastLock
<1>7. \A h \in Holds : Alive(h)' => Alive(h)
  BY <1>3, <1>4, <1>5, <1>6, LivesOn
<1>8. \A v \in Workers : QuietTask(v)
  BY <1>5, <1>6, StaysQuiet
<1> QED BY <1>1, <1>2, <1>7, <1>8, QuietStep

\* Events, clocks and lapsing keys take nothing.
LEMMA EnvironmentQuiet ==
  ASSUME Typed, Claims,
         \/ \E h \in Minted : Decide(h, "approved")
         \/ TimePasses
         \/ UNCHANGED vars
  PROVE  Claims'
<1> USE DEF Claims
<1>1. seatOf' = seatOf /\ seat' = seat /\ resv' = resv /\ holdKey' \subseteq holdKey
  BY DEF Decide, TimePasses, Elapse, ElapseRow, ElapseCopy, KeyLapses, HoldKeyLapses,
         SeatKeyLapses, IdemKeyLapses, vars, storeVars, document, redis, database
<1>2. task' = task \/ \E w \in Workers : ElapseCopy(w)
  BY DEF Decide, TimePasses, Elapse, ElapseRow, KeyLapses, vars
<1>3. CASE task' = task
  <2>1. \A h \in Holds : Alive(h)' => Alive(h)
    BY <1>1, <1>3 DEF Alive
  <2>2. \A v \in Workers : QuietTask(v)
    BY <1>3 DEF QuietTask
  <2> QED BY <1>1, <2>1, <2>2, QuietStep
<1>4. ASSUME NEW w \in Workers, ElapseCopy(w)
      PROVE  Claims'
  <2> DEFINE t == [pc |-> "expire.check", on |-> task[w].on, saw |-> "late"]
  <2>1. task' = [task EXCEPT ![w] = t]
    BY <1>4 DEF ElapseCopy, GotoSeeing, Typed, TypeOK
  <2>2. t.pc \notin Creating /\ t.pc \notin {"begin.refresh", "begin.insert"}
    BY DEF Creating, PastLock
  <2> HIDE DEF t
  <2>3. \A h \in Holds : Alive(h)' => Alive(h)
    BY <1>1, <2>1, <2>2, LivesOn DEF Alive
  <2>4. \A v \in Workers : QuietTask(v)
    BY <2>1, <2>2, StaysQuiet
  <2> QED BY <1>1, <2>3, <2>4, QuietStep
<1> QED BY <1>2, <1>3, <1>4

LEMMA NextClaims == Typed /\ Claims /\ [AcquireNext]_vars => Claims'
BY StartCreateClaims, CreateLockClaims, CreateUndoClaims, CreateHoldClaims, CreateQuiet,
   BeginPaymentQuiet, ApproveQuiet, EnvironmentQuiet DEF AcquireNext, Create

-----------------------------------------------------------------------------
(* A confirmed reservation owns a sold seat *)

LEMMA NextConfirmed ==
  ASSUME Typed, Claims, ConfirmedSeatIsSold, [AcquireNext]_vars
  PROVE  ConfirmedSeatIsSold'
<1> SUFFICES ASSUME NEW h \in Holds, resv'[h] = "CONFIRMED"
             PROVE  seat'[seatOf'[h]] = "SOLD"
  BY DEF ConfirmedSeatIsSold
<1>1. [Next]_vars /\ Keeps
  BY AcquireIsNext, AcquireTyped
<1>2. CASE resv[h] = "CONFIRMED"
  <2>1. seat[seatOf[h]] = "SOLD" /\ h \in Minted
    BY <1>2 DEF ConfirmedSeatIsSold, Claims, TakersHold, Taken, Alive
  <2>2. seatOf[h] \in Seats /\ seatOf'[h] = seatOf[h]
    BY <1>1, <2>1 DEF Keeps, Minted, Typed, TypeOK, StoreTypeOK
  <2> QED BY <1>1, <2>1, <2>2, SoldStep DEF Typed
<1>3. CASE resv[h] # "CONFIRMED"
  <2>1. PICK w \in Workers : Writes(w)
    BY <1>1, <1>3, WritersOnly DEF tables
  <2>2. ApproveConfirm(w) /\ task[w].on = h /\ resv[h] = "PENDING_PAYMENT"
    BY <2>1, <1>3 DEF Writes, CreateLock, CreateUndo, CreateCommit, BeginInsert, ApproveConfirm,
       CompCancel, CompOrphan, ReleaseCommit, ExpireMark, HealExpire, FreeSeat, SetStatus,
       Confirmable, Typed, TypeOK
  <2>3. h \in Minted /\ seat[seatOf[h]] # "AVAILABLE"
    BY <2>2 DEF Claims, TakersHold, Taken, Alive
  <2>4. seatOf[h] \in Seats /\ seatOf'[h] = seatOf[h]
    BY <1>1, <2>3 DEF Keeps, Minted, Typed, TypeOK, StoreTypeOK
  <2>5. seat[seatOf[h]] \in {"HELD", "SOLD"}
    BY <2>3, <2>4 DEF Typed, TypeOK
  <2> QED BY <2>2, <2>4, <2>5 DEF ApproveConfirm, SellSeat, Typed, TypeOK
<1> QED BY <1>2, <1>3

-----------------------------------------------------------------------------
(* The seats a search promises *)

LEMMA MarketFinite == IsFiniteSet(Market) /\ Cardinality(Market) \in Nat
BY TripAssumption, FS_Subset, FS_CardinalityType DEF Market

\* Only CreateLock adds a handler that may put a seat back or pay for it.
LEMMA NoNewLocker ==
  ASSUME Typed, [AcquireNext]_vars, \A w \in Workers : ~CreateLock(w)
  PROVE  Lockers' \subseteq Lockers
<1> USE DEF Lockers, PastLock, Typed, TypeOK, At
<1>0. ASSUME NEW w \in Workers, NEW p, p \notin PastLock, NEW v,
             Goto(w, p) \/ GotoSeeing(w, p, v) \/ Return(w)
      PROVE  Lockers' \subseteq Lockers
  <2>1. CASE Goto(w, p)
    BY <1>0, <2>1 DEF Goto
  <2>2. CASE GotoSeeing(w, p, v)
    BY <1>0, <2>2 DEF GotoSeeing
  <2>3. CASE Return(w)
    BY <2>3 DEF Return, Idle
  <2> QED BY <1>0, <2>1, <2>2, <2>3
<1>1. ASSUME NEW w \in Workers, Create(w)
      PROVE  Lockers' \subseteq Lockers
  <2>1. CASE \E h \in Holds, s \in Seats, k \in Keys : StartCreate(w, h, s, k)
    BY <2>1 DEF StartCreate, Start
  <2>2. CASE CreateIdem(w) \/ CreateSeat(w)
    BY <2>2 DEF CreateIdem, CreateSeat, Goto
  <2>3. CASE CreateReplay(w) \/ CreateUnidem(w)
    BY <2>3 DEF CreateReplay, CreateUnidem, Goto, Return, Idle
  <2>4. CASE CreateUndo(w) \/ CreateHold(w) \/ CreateCommit(w)
    BY <2>4 DEF CreateUndo, CreateHold, CreateCommit, Goto, Return, Idle
  <2> QED BY <1>1, <2>1, <2>2, <2>3, <2>4 DEF Create
<1>2. ASSUME NEW w \in Workers, BeginPayment(w)
      PROVE  Lockers' \subseteq Lockers
  <2>1. CASE \E h \in Minted : StartBegin(w, h)
    BY <2>1 DEF StartBegin, Start
  <2>2. CASE BeginTouch(w) \/ BeginHold(w)
    BY <1>0, <2>2 DEF BeginTouch, BeginHold
  <2>3. CASE BeginRefresh(w) \/ BeginInsert(w)
    BY <1>0, <2>3 DEF BeginRefresh, BeginInsert
  <2> QED BY <1>2, <2>1, <2>2, <2>3 DEF BeginPayment
<1>3. ASSUME NEW w \in Workers, OnPaymentApproved(w)
      PROVE  Lockers' \subseteq Lockers
  <2>1. CASE \E h \in Minted : StartApprove(w, h)
    BY <2>1 DEF StartApprove, Start
  <2>2. CASE ApproveHold(w)
    BY <1>0, <2>2 DEF ApproveHold
  <2>3. CASE ApproveConfirm(w) \/ ApproveDrop(w)
    BY <1>0, <2>3 DEF ApproveConfirm, ApproveDrop, DropIfSeen
  <2> QED BY <1>3, <2>1, <2>2, <2>3 DEF OnPaymentApproved
<1>4. ASSUME NEW w \in Workers, Aborted(w) \/ ElapseCopy(w)
      PROVE  Lockers' \subseteq Lockers
  BY <1>0, <1>4 DEF Aborted, ElapseCopy
<1>5. ASSUME task' = task
      PROVE  Lockers' \subseteq Lockers
  BY <1>5
<1> QED BY <1>1, <1>2, <1>3, <1>4, <1>5
        DEF AcquireNext, Decide, TimePasses, Elapse, ElapseRow, KeyLapses, vars

\* Only CreateUndo puts a seat back, and only CreateCommit pays for one.
LEMMA SameMarket ==
  ASSUME Typed, [AcquireNext]_vars, \A w \in Workers : ~CreateUndo(w) /\ ~CreateCommit(w)
  PROVE  Market' \subseteq Market /\ availableSeats' = availableSeats
<1>1. CASE UNCHANGED <<seat, availableSeats>>
  BY <1>1 DEF Market
<1>2. ASSUME NEW w \in Workers, Create(w) \/ BeginPayment(w) \/ OnPaymentApproved(w)
      PROVE  Market' \subseteq Market /\ availableSeats' = availableSeats
  <2>1. CASE CreateLock(w)
    BY <2>1 DEF CreateLock, LockSeat, Market, Typed, TypeOK
  <2>2. CASE ApproveConfirm(w)
    BY <2>2 DEF ApproveConfirm, SellSeat, Market, Typed, TypeOK
  <2>3. CASE ~CreateLock(w) /\ ~ApproveConfirm(w)
    BY <1>1, <1>2, <2>3
       DEF Create, StartCreate, CreateIdem, CreateReplay, CreateSeat, CreateUnidem, CreateHold,
           BeginPayment, StartBegin, BeginTouch, BeginHold, BeginRefresh, BeginInsert,
           OnPaymentApproved, StartApprove, ApproveHold, ApproveDrop, database
  <2> QED BY <2>1, <2>2, <2>3
<1> QED BY <1>1, <1>2
        DEF AcquireNext, Aborted, Decide, TimePasses, Elapse, ElapseRow, ElapseCopy, KeyLapses,
            vars, database

LEMMA FewerLockers ==
  ASSUME IsFiniteSet(Lockers), NEW w, w \in Lockers, Lockers' \subseteq Lockers, w \notin Lockers'
  PROVE  /\ IsFiniteSet(Lockers')
         /\ Cardinality(Lockers) \in Nat /\ Cardinality(Lockers') \in Nat
         /\ Cardinality(Lockers') + 1 <= Cardinality(Lockers)
<1>1. IsFiniteSet(Lockers \ {w}) /\ Cardinality(Lockers \ {w}) = Cardinality(Lockers) - 1
  BY FS_RemoveElement
<1>2. Lockers' \subseteq Lockers \ {w}
  OBVIOUS
<1>3. IsFiniteSet(Lockers') /\ Cardinality(Lockers') <= Cardinality(Lockers \ {w})
  BY <1>1, <1>2, FS_Subset
<1>4. Cardinality(Lockers) \in Nat /\ Cardinality(Lockers') \in Nat
  BY <1>3, FS_CardinalityType
<1> QED BY <1>1, <1>3, <1>4

LEMMA NextCounted ==
  ASSUME Typed, Counted, [AcquireNext]_vars
  PROVE  Counted'
<1>1. Typed' /\ availableSeats \in Nat /\ availableSeats' \in Nat
  BY AcquireTyped DEF Typed, TypeOK
<1>2. IsFiniteSet(Lockers) /\ Cardinality(Lockers) \in Nat
  BY FS_CardinalityType DEF Counted
<1>3. IsFiniteSet(Market') /\ Cardinality(Market') \in Nat
  BY TripAssumption, FS_Subset, FS_CardinalityType DEF Market
<1>4. Market' \subseteq Market => Cardinality(Market') <= Cardinality(Market)
  BY MarketFinite, FS_Subset
<1>5. ASSUME NEW w \in Workers, CreateLock(w), LockSeat(seatOf[task[w].on]), Goto(w, "create.idem")
      PROVE  Counted'
  <2> DEFINE s == seatOf[task[w].on]
  <2>1. s \in Market /\ seat' = [seat EXCEPT ![s] = "HELD"]
    BY <1>5, Subject DEF CreateLock, At, LockSeat, Market, Creating
  <2>2. Market' = Market \ {s}
    BY <2>1 DEF Market, Typed, TypeOK
  <2>3. Cardinality(Market') = Cardinality(Market) - 1
    BY <2>1, <2>2, MarketFinite, FS_RemoveElement
  <2>4. w \notin Lockers /\ Lockers' = Lockers \cup {w}
    BY <1>5 DEF CreateLock, At, Goto, Lockers, PastLock, Typed, TypeOK
  <2>5. IsFiniteSet(Lockers') /\ Cardinality(Lockers') = Cardinality(Lockers) + 1
    BY <1>2, <2>4, FS_AddElement
  <2>6. availableSeats' = availableSeats
    BY <1>5 DEF CreateLock
  <2> QED BY <1>1, <1>2, <2>3, <2>5, <2>6, MarketFinite DEF Counted
<1>6. ASSUME NEW w \in Workers, CreateUndo(w)
      PROVE  Counted'
  <2> DEFINE s == seatOf[task[w].on]
  <2>1. Market' \subseteq Market \cup {s}
    BY <1>6 DEF CreateUndo, ReleaseSeat, Market, Typed, TypeOK
  <2>2. IsFiniteSet(Market \cup {s}) /\ Cardinality(Market \cup {s}) <= Cardinality(Market) + 1
    BY MarketFinite, FS_AddElement
  <2>3. Cardinality(Market \cup {s}) \in Nat
    BY <2>2, FS_CardinalityType
  <2>4. Cardinality(Market') <= Cardinality(Market \cup {s})
    BY <2>1, <2>2, FS_Subset
  <2>5. w \in Lockers /\ w \notin Lockers' /\ Lockers' \subseteq Lockers
    BY <1>6 DEF CreateUndo, At, Return, Idle, Lockers, PastLock, Typed, TypeOK
  <2>6. availableSeats' = availableSeats
    BY <1>6 DEF CreateUndo
  <2> QED BY <1>1, <1>2, <1>3, <2>2, <2>3, <2>4, <2>5, <2>6, MarketFinite, FewerLockers DEF Counted
<1>7. ASSUME NEW w \in Workers, CreateCommit(w)
      PROVE  Counted'
  <2>1. Market' = Market
    BY <1>7 DEF CreateCommit, Market
  <2>2. w \in Lockers /\ w \notin Lockers' /\ Lockers' \subseteq Lockers
    BY <1>7 DEF CreateCommit, At, Return, Idle, Lockers, PastLock, Typed, TypeOK
  <2>3. availableSeats' = IF availableSeats > 0 THEN availableSeats - 1 ELSE 0
    BY <1>7 DEF CreateCommit, Debit
  <2> QED BY <1>1, <1>2, <2>1, <2>2, <2>3, MarketFinite, FewerLockers DEF Counted
<1>8. ASSUME \A w \in Workers : ~CreateUndo(w) /\ ~CreateCommit(w), Lockers' \subseteq Lockers
      PROVE  Counted'
  <2>1. Cardinality(Market') <= Cardinality(Market) /\ availableSeats' = availableSeats
    BY <1>4, <1>8, SameMarket
  <2>2. IsFiniteSet(Lockers') /\ Cardinality(Lockers') <= Cardinality(Lockers)
    BY <1>2, <1>8, FS_Subset
  <2>3. Cardinality(Lockers') \in Nat
    BY <2>2, FS_CardinalityType
  <2> QED BY <1>1, <1>2, <1>3, <2>1, <2>2, <2>3, MarketFinite DEF Counted
<1>9. ASSUME NEW w \in Workers, CreateLock(w), Return(w), UNCHANGED seat
      PROVE  Counted'
  <2>1. Market' = Market /\ availableSeats' = availableSeats
    BY <1>9 DEF CreateLock, Market
  <2>2. Lockers' = Lockers
    BY <1>9 DEF CreateLock, At, Return, Idle, Lockers, PastLock, Typed, TypeOK
  <2> QED BY <2>1, <2>2 DEF Counted
<1>10. CASE \E w \in Workers : CreateLock(w)
  BY <1>5, <1>9, <1>10 DEF CreateLock
<1> QED BY <1>6, <1>7, <1>8, <1>10, NoNewLocker

-----------------------------------------------------------------------------
(* Theorems *)

\* Whatever rival customers, retries, aborts and elapsed windows do, the
\* inductive invariant of the part that takes seats holds.
THEOREM AcquireInvariant == AcquireSpec => []AcquireInv
<1>1. Init => AcquireInv
  <2> SUFFICES ASSUME Init PROVE AcquireInv
    OBVIOUS
  <2>1. Typed
    <3>1. Cardinality(Seats) \in Nat
      BY TripAssumption, FS_CardinalityType
    <3> QED BY <3>1 DEF Init, StoreInit, Typed, TypeOK, StoreTypeOK, SubjectOK, Idle, Points, Seen,
                        Statuses, SeatEvents, SeatPoints
  <2>2. \A w \in Workers : task[w].pc = "idle"
    BY DEF Init, Idle
  <2>3. \A h \in Holds : ~Taken(h) /\ resv[h] = "NONE"
    BY <2>2 DEF Init, StoreInit, Taken, Locking, Alive, PastLock
  <2>4. OneTaker /\ TakersHold /\ ConfirmedSeatIsSold
    BY <2>3 DEF OneTaker, TakersHold, ConfirmedSeatIsSold
  <2>5. OneCreate
    BY <2>2 DEF OneCreate, Early, Creating, PastLock
  <2>6. Lockers = {} /\ Market = Seats
    BY <2>2 DEF Init, Lockers, Market, PastLock
  <2>7. Counted
    BY <2>6, TripAssumption, FS_EmptySet, FS_CardinalityType DEF Init, Counted
  <2> QED BY <2>1, <2>4, <2>5, <2>7 DEF AcquireInv
<1>2. AcquireInv /\ [AcquireNext]_vars => AcquireInv'
  BY AcquireTyped, NextClaims, NextConfirmed, NextCounted DEF AcquireInv, Claims
<1> QED BY <1>1, <1>2, PTL DEF AcquireSpec

\* One seat is never sold twice: UPDATE Seat lets one create through
\* (reservations.service.ts:181), and an undo gives back no seat of another.
THEOREM SeatsAreSoldOnce == AcquireSpec => []NoDoubleSale
<1>1. AcquireInv => NoDoubleSale
  BY DEF AcquireInv, OneTaker, Taken, Alive, NoDoubleSale
<1> QED BY <1>1, AcquireInvariant, PTL

\* A CONFIRMED reservation owns a SOLD seat: the transaction of
\* onPaymentApproved finds the seat still held.
THEOREM ConfirmedSeatsAreSold == AcquireSpec => []ConfirmedSeatIsSold
<1>1. AcquireInv => ConfirmedSeatIsSold
  BY DEF AcquireInv
<1> QED BY <1>1, AcquireInvariant, PTL

\* A live hold keeps its seat off the market, whoever's create is undone.
THEOREM HoldsKeepSeats == AcquireSpec => []HoldKeepsSeat
<1>1. AcquireInv => HoldKeepsSeat
  BY DEF AcquireInv, TakersHold, Taken, Alive, HoldKeepsSeat, Typed, TypeOK, StoreTypeOK
<1> QED BY <1>1, AcquireInvariant, PTL

\* Two live holds are on different seats, however many handlers interleave.
THEOREM HoldsExclude == AcquireSpec => []SeatMutex
<1>1. AcquireInv => SeatMutex
  BY DEF AcquireInv, OneTaker, Taken, Alive, SeatMutex, Typed, TypeOK, StoreTypeOK
<1> QED BY <1>1, AcquireInvariant, PTL

\* A search never promises fewer seats than there are on the market, for any
\* number of creates cut off between two commands.
THEOREM SearchCoversMarket == AcquireSpec => []CountCoversMarket
<1>1. AcquireInv => CountCoversMarket
  <2> SUFFICES ASSUME AcquireInv PROVE CountCoversMarket
    OBVIOUS
  <2>1. Cardinality(Lockers) \in Nat /\ availableSeats >= Cardinality(Market) + Cardinality(Lockers)
    BY FS_CardinalityType DEF AcquireInv, Counted
  <2>2. availableSeats \in Nat
    BY DEF AcquireInv, Typed, TypeOK
  <2>3. availableSeats >= Cardinality(Market)
    BY <2>1, <2>2, MarketFinite
  <2> QED BY <2>3 DEF CountCoversMarket, Market
<1> QED BY <1>1, AcquireInvariant, PTL
=============================================================================

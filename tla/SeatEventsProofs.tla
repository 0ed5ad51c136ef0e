-------------------------- MODULE SeatEventsProofs --------------------------
(***************************************************************************)
(* Theorems about SeatEvents, for any number of holds, faults and copies   *)
(* of an event, and every deployment.                                      *)
(***************************************************************************)
EXTENDS SeatEvents, FanoutBusProofs

Told == EventsOf(SeatKeys)

\* What an event says has happened: the hold is among those sold, or Payment
\* said that it approved.
True(sold, said, e) ==
  /\ e.key = "seat.confirmed" => e.hold \in sold
  /\ e.key = "payment.approved" => "payment.approved" \in said[e.hold]

\* Strengthens TicketsAreSales: what is announced or mailed is so, wherever the
\* event is.
Truth ==
  /\ \A k \in DOMAIN outbox : True(sales, sent, outbox[k])
  /\ \A i \in DOMAIN log : True(sales, sent, log[i])
  /\ tickets \subseteq sales
  /\ \A h \in sales :
       "payment.approved" \in sent[h] /\ row[h] \in {"CONFIRMED", "ENDED"}

\* Strengthens SalesAreTracked: where the confirmation of a sale is ...
Tracked ==
  \A h \in sales :
    \/ \E k \in DOMAIN outbox : outbox[k] = Confirmation(h)
    \/ Confirmation(h) \in lost
    \/ \E i \in DOMAIN log : log[i] = Confirmation(h)

\* ... and what has come of a copy of it that was handled.
Arrived(i) ==
  log[i].key = "seat.confirmed" =>
    /\ copies["trip_domain"][i].done > 0 => seat = "SOLD"
    /\ copies["notification_queue"][i].done > 0 => log[i].hold \in tickets

Delivered == \A i \in DOMAIN log : Arrived(i)

SInv == IInv /\ TypeOK /\ Truth /\ Tracked /\ Delivered

LEMMA EventFacts ==
  /\ Events = EventsOf(SeatKeys \cup PaymentKeys)
  /\ \A h \in Holds : \A key \in SeatKeys \cup PaymentKeys : Event(key, h) \in Events
  /\ \A h \in Holds : \A key \in SeatKeys : Event(key, h) \in Told
  /\ \A e \in Events : e.hold \in Holds
  /\ Told \subseteq Events /\ \A e \in Told : e.key # "payment.approved"
  /\ \A key, h : Event(key, h).key = key /\ Event(key, h).hold = h
BY SeatEventsAssumption DEF DomainEvents, EventsOf, Event, Told, SeatKeys, PaymentKeys

LEMMA QueueFacts ==
  /\ Queues = {"booking_domain", "trip_domain", "notification_queue"}
  /\ Interest["trip_domain"] = Told
  /\ Interest["notification_queue"] = Events
BY SeatEventsAssumption
   DEF Queues, Subscriptions, TripInterest, NotificationInterest, DomainEvents, Told

-----------------------------------------------------------------------------
(* Steps of the system are steps of the bus *)

LEMMA HeadFacts ==
  ASSUME TypeOK, outbox # <<>>
  PROVE  /\ Head(outbox) \in Told /\ Tail(outbox) \in Seq(Told)
         /\ Len(outbox) \in Nat \ {0} /\ DOMAIN outbox = 1..Len(outbox)
         /\ outbox[1] = Head(outbox)
         /\ Len(Tail(outbox)) = Len(outbox) - 1
         /\ DOMAIN Tail(outbox) = 1..Len(outbox) - 1
         /\ \A k \in 1..Len(outbox) - 1 : Tail(outbox)[k] = outbox[k + 1]
<1>1. outbox \in Seq(Told) /\ DOMAIN outbox = 1..Len(outbox) /\ Len(outbox) \in Nat \ {0}
  BY EmptySeq, LenProperties DEF TypeOK, Told
<1>2. /\ Head(outbox) = outbox[1] /\ Head(outbox) \in Told /\ Tail(outbox) \in Seq(Told)
      /\ Len(Tail(outbox)) = Len(outbox) - 1
      /\ \A k \in 1..Len(Tail(outbox)) : Tail(outbox)[k] = outbox[k + 1]
  BY <1>1, HeadTailProperties
<1> QED BY <1>1, <1>2, LenProperties

LEMMA StepsAreBusSteps ==
  ASSUME TypeOK, [Next]_vars
  PROVE  [BusNext]_busVars
<1>1. ASSUME NEW h \in Holds, Book(h) PROVE UNCHANGED busVars
  BY <1>1 DEF Book
<1>2. ASSUME NEW h \in Holds, NEW outcome \in PaymentKeys, Settle(h, outcome)
      PROVE  BusNext
  <2>1. Event(outcome, h) \in Events
    BY EventFacts
  <2> QED BY <1>2, <2>1 DEF Settle, BusNext
<1>3. ASSUME Relay PROVE [BusNext]_busVars
  <2>1. Head(outbox) \in Events
    BY <1>3, HeadFacts, EventFacts DEF Relay
  <2>2. CASE Publish(Head(outbox)) \/ (Fault /\ Route(Head(outbox)))
    BY <2>1, <2>2 DEF BusNext
  <2>3. CASE UNCHANGED busVars
    BY <2>3
  <2> QED BY <1>3, <2>2, <2>3 DEF Relay
<1>4. ASSUME NEW q \in Queues, Transport(q) PROVE BusNext
  BY <1>4 DEF Transport, BusNext, Consume
<1>5. ASSUME NEW q \in Queues, NEW i \in DOMAIN log, Handled(q, i) PROVE BusNext
  BY <1>5 DEF Handled, BusNext, Consume
<1>6. CASE UNCHANGED vars
  BY <1>6 DEF vars
<1> QED BY <1>1, <1>2, <1>3, <1>4, <1>5, <1>6 DEF Next

\* An event that is routed comes last, and nobody has handled it.
LEMMA RouteFacts ==
  ASSUME IInv, NEW e \in Events, Route(e)
  PROVE  LET n == Len(log) IN
         /\ n \in Nat /\ DOMAIN log = 1..n /\ DOMAIN log' = 1..n + 1
         /\ log'[n + 1] = e /\ \A i \in 1..n : log'[i] = log[i]
         /\ \A q \in Queues :
              /\ copies'[q][n + 1].done = 0
              /\ \A i \in 1..n : copies'[q][i] = copies[q][i]
<1> DEFINE n == Len(log)
<1>1. /\ n \in Nat /\ DOMAIN log = 1..n /\ DOMAIN log' = 1..n + 1
      /\ log'[n + 1] = e /\ \A i \in 1..n : log'[i] = log[i]
  BY AppendProperties, LenProperties DEF IInv, BusTypeOK, Route
<1>2. ASSUME NEW q \in Queues
      PROVE  /\ copies'[q][n + 1].done = 0
             /\ \A i \in 1..n : copies'[q][i] = copies[q][i]
  <2> DEFINE new == [at |-> Arrival(q, e), done |-> 0]
  <2>1. copies[q] \in [1..n -> Copy]
    BY <1>1 DEF IInv, BusTypeOK
  <2>2. copies[q] \in Seq(Copy) /\ Len(copies[q]) = n
    BY <1>1, <2>1
  <2>3. new \in Copy
    BY DEF Copy, Arrival
  <2>4. copies'[q] = Append(copies[q], new)
    BY DEF Route
  <2>5. copies'[q][n + 1] = new /\ \A i \in 1..n : copies'[q][i] = copies[q][i]
    BY <2>2, <2>3, <2>4, AppendProperties
  <2> QED BY <2>5
<1> QED BY <1>1, <1>2

\* A handler counts one effect for its copy, and no other step counts any.
LEMMA DoneFacts ==
  ASSUME IInv, NEW q \in Queues
  PROVE  /\ \A i \in DOMAIN log : Handle(q, i) \/ Orphan(q, i) =>
              \A r \in Queues, j \in DOMAIN log :
                r # q \/ j # i => copies'[r][j].done = copies[r][j].done
         /\ Transport(q) => \A r \in Queues, j \in DOMAIN log :
                              copies'[r][j].done = copies[r][j].done
<1>1. copies \in [Queues -> [DOMAIN log -> Copy]]
  BY DEF IInv, BusTypeOK
<1>2. ASSUME NEW i \in DOMAIN log, Handle(q, i) \/ Orphan(q, i),
             NEW r \in Queues, NEW j \in DOMAIN log, r # q \/ j # i
      PROVE  copies'[r][j].done = copies[r][j].done
  BY <1>1, <1>2 DEF Handle, Orphan, Copy
<1>3. ASSUME NEW i \in DOMAIN log, Reject(q, i), NEW r \in Queues, NEW j \in DOMAIN log
      PROVE  copies'[r][j].done = copies[r][j].done
  BY <1>1, <1>3 DEF Reject, Copy
<1>4. Start(q) \/ Drop(q) => UNCHANGED copies
  BY DEF Start, Drop
<1> QED BY <1>2, <1>3, <1>4 DEF Transport

-----------------------------------------------------------------------------
(* What Booking may do in a step *)

Writes(h) ==
  \/ Lock(h) \/ Undo(h) \/ Make(h)
  \/ Open(h) \/ EndRow(h) \/ Release(h) \/ Free
  \/ OnPaymentApproved(h) \/ OnPaymentFailed(h)

\* The announcement goes with what it announces.
Announces(h) ==
  \/ UNCHANGED <<outbox, sales>>
  \/ /\ UNCHANGED sales
     /\ \E key \in SeatKeys \ {"seat.confirmed"} : outbox' = Append(outbox, Event(key, h))
  \/ /\ sales' = sales \cup {h}
     /\ row'[h] = "CONFIRMED"
     /\ outbox' = Append(outbox, Confirmation(h))

LEMMA WritesType ==
  ASSUME TypeOK, NEW h \in Holds, Writes(h)
  PROVE  /\ seat' \in {"AVAILABLE", "HELD", "SOLD"}
         /\ hold' \in [Holds -> {"none", "locked", "made"}]
         /\ row' \in [Holds -> {"NONE", "PENDING_PAYMENT", "CONFIRMED", "ENDED"}]
         /\ releases' \in [Holds -> Nat]
         /\ seat = "SOLD" => seat' = "SOLD"
<1> USE DEF TypeOK, Freed, bookingVars
<1>1. CASE Lock(h) \/ Undo(h) \/ Make(h)
  BY <1>1 DEF Lock, Undo, Make
<1>2. CASE Open(h) \/ EndRow(h) \/ Release(h) \/ Free
  BY <1>2 DEF Open, EndRow, Release, Free
<1>3. CASE OnPaymentApproved(h)
  BY <1>3 DEF OnPaymentApproved
<1>4. CASE OnPaymentFailed(h)
  BY <1>4 DEF OnPaymentFailed, EndRow, Release, Free
<1> QED BY <1>1, <1>2, <1>3, <1>4 DEF Writes

LEMMA WritesAnnounce ==
  ASSUME TypeOK, NEW h \in Holds, Writes(h)
  PROVE  Announces(h)
<1> USE DEF Announces, Enqueue, SeatKeys, bookingVars
<1>1. CASE Lock(h) \/ Undo(h) \/ Make(h)
  BY <1>1 DEF Lock, Undo, Make
<1>2. CASE Open(h) \/ EndRow(h) \/ Release(h) \/ Free
  BY <1>2 DEF Open, EndRow, Release, Free
<1>3. CASE OnPaymentApproved(h)
  BY <1>3 DEF OnPaymentApproved, TypeOK, Confirmation
<1>4. CASE OnPaymentFailed(h)
  BY <1>4 DEF OnPaymentFailed, EndRow, Release, Free
<1> QED BY <1>1, <1>2, <1>3, <1>4 DEF Writes

\* A confirmed row may be written over, but is open no more.
LEMMA WritesRows ==
  ASSUME TypeOK, NEW h \in Holds, Writes(h),
         NEW g \in Holds, row[g] \in {"CONFIRMED", "ENDED"}
  PROVE  row'[g] \in {"CONFIRMED", "ENDED"}
<1> USE DEF TypeOK, bookingVars
<1>1. CASE Lock(h) \/ Undo(h) \/ Make(h)
  BY <1>1 DEF Lock, Undo, Make
<1>2. CASE Open(h) \/ EndRow(h) \/ Release(h) \/ Free
  BY <1>2 DEF Open, EndRow, Release, Free
<1>3. CASE OnPaymentApproved(h)
  BY <1>3 DEF OnPaymentApproved
<1>4. CASE OnPaymentFailed(h)
  BY <1>4 DEF OnPaymentFailed, EndRow, Release, Free
<1> QED BY <1>1, <1>2, <1>3, <1>4 DEF Writes

\* What is in the outbox stays there, and what comes in is the last.
LEMMA AppendFacts ==
  ASSUME TypeOK, NEW e \in Told, outbox' = Append(outbox, e)
  PROVE  /\ outbox' \in Seq(Told)
         /\ \A k \in DOMAIN outbox : k \in DOMAIN outbox' /\ outbox'[k] = outbox[k]
         /\ \A k \in DOMAIN outbox' : k \in DOMAIN outbox \/ outbox'[k] = e
         /\ \E k \in DOMAIN outbox' : outbox'[k] = e
<1>1. /\ outbox' \in Seq(Told) /\ Len(outbox) \in Nat
      /\ DOMAIN outbox' = 1..Len(outbox) + 1 /\ DOMAIN outbox = 1..Len(outbox)
      /\ \A k \in 1..Len(outbox) : outbox'[k] = outbox[k]
      /\ outbox'[Len(outbox) + 1] = e
  BY AppendProperties, LenProperties DEF TypeOK, Told
<1>2. Len(outbox) + 1 \in DOMAIN outbox'
  BY <1>1
<1> QED BY <1>1, <1>2

\* A step of Booking keeps the books: a new sale had its approval, and its
\* confirmation is the new last event of the outbox.
LEMMA WritesKeep ==
  ASSUME SInv, NEW h \in Holds, Writes(h),
         UNCHANGED sales \/ "payment.approved" \in sent[h],
         UNCHANGED <<log, sent, tickets, lost>>, BusTypeOK'
  PROVE  TypeOK' /\ Truth' /\ Tracked'
<1>1. TypeOK /\ Announces(h)
  BY WritesAnnounce DEF SInv
<1>2. UNCHANGED <<outbox, sales>> \/ \E e \in Told : outbox' = Append(outbox, e)
  <2>1. Confirmation(h) \in Told /\ \A key \in SeatKeys : Event(key, h) \in Told
    BY EventFacts DEF Confirmation, SeatKeys
  <2> QED BY <1>1, <2>1 DEF Announces
<1>3. sales' = sales \/ sales' = sales \cup {h}
  BY <1>1 DEF Announces
<1>4. TypeOK'
  <2>1. outbox' \in Seq(Told)
    BY <1>1, <1>2, AppendFacts DEF TypeOK, Told
  <2> QED BY <1>1, <1>3, <2>1, WritesType DEF TypeOK, Told
<1>5. \A e : True(sales, sent, e) => True(sales', sent', e)
  BY <1>3 DEF True
<1>6. \A k \in DOMAIN outbox' : True(sales', sent', outbox'[k])
  <2> DEFINE AllTrue == \A k \in DOMAIN outbox' : True(sales', sent', outbox'[k])
  <2>0. ASSUME NEW e \in Told, outbox' = Append(outbox, e), True(sales', sent', e)
        PROVE  AllTrue
    BY <1>1, <1>5, <2>0, AppendFacts DEF SInv, Truth
  <2>1. CASE UNCHANGED outbox
    BY <1>5, <2>1 DEF SInv, Truth
  <2>2. ASSUME NEW key \in SeatKeys \ {"seat.confirmed"},
               outbox' = Append(outbox, Event(key, h))
        PROVE  AllTrue
    <3>1. Event(key, h) \in Told /\ Event(key, h).key \notin {"seat.confirmed", "payment.approved"}
      BY EventFacts
    <3>2. True(sales', sent', Event(key, h))
      BY <3>1 DEF True
    <3> HIDE DEF AllTrue
    <3> QED BY <2>0, <2>2, <3>1, <3>2
  <2>3. CASE sales' = sales \cup {h} /\ outbox' = Append(outbox, Confirmation(h))
    <3>1. /\ Confirmation(h) \in Told /\ Confirmation(h).key = "seat.confirmed"
          /\ Confirmation(h).hold = h
      BY EventFacts DEF Confirmation, SeatKeys
    <3>2. True(sales', sent', Confirmation(h))
      BY <2>3, <3>1 DEF True
    <3>3. AllTrue
      <4> HIDE DEF AllTrue
      <4> QED BY <2>0, <2>3, <3>1, <3>2
    <3> QED BY <3>3
  <2> QED BY <1>1, <2>1, <2>2, <2>3 DEF Announces
<1>7. \A i \in DOMAIN log : True(sales', sent', log[i])
  BY <1>5 DEF SInv, Truth
<1>8. ASSUME NEW g \in sales'
      PROVE  "payment.approved" \in sent[g] /\ row'[g] \in {"CONFIRMED", "ENDED"}
  <2>1. CASE g \in sales
    BY <1>1, <2>1, WritesRows DEF SInv, TypeOK, Truth
  <2>2. CASE g \notin sales
    <3>1. g = h /\ sales' # sales
      BY <1>3, <1>8, <2>2
    <3>2. row'[h] = "CONFIRMED"
      BY <1>1, <3>1 DEF Announces
    <3> QED BY <3>1, <3>2
  <2> QED BY <2>1, <2>2
<1>9. Truth'
  BY <1>3, <1>6, <1>7, <1>8 DEF SInv, Truth
<1>10. Tracked'
  <2>1. SUFFICES ASSUME NEW g \in sales'
                 PROVE  \/ \E k \in DOMAIN outbox' : outbox'[k] = Confirmation(g)
                        \/ Confirmation(g) \in lost
                        \/ \E i \in DOMAIN log : log[i] = Confirmation(g)
    BY DEF Tracked, Confirmation
  <2>2. CASE g \in sales
    <3>1. \A k \in DOMAIN outbox : k \in DOMAIN outbox' /\ outbox'[k] = outbox[k]
      BY <1>1, <1>2, AppendFacts
    <3> QED BY <2>2, <3>1 DEF SInv, Tracked
  <2>3. CASE g \notin sales
    <3>1. g = h /\ outbox' = Append(outbox, Confirmation(h))
      BY <1>1, <1>3, <2>1, <2>3 DEF Announces
    <3>2. Confirmation(h) \in Told
      BY EventFacts DEF Confirmation, SeatKeys
    <3> QED BY <1>1, <3>1, <3>2, AppendFacts
  <2> QED BY <2>2, <2>3
<1> QED BY <1>4, <1>9, <1>10

\* No effect is counted and the log stays: what arrived has arrived.
LEMMA DeliveredStays ==
  ASSUME SInv, UNCHANGED log, seat = "SOLD" => seat' = "SOLD", tickets \subseteq tickets',
         \A r \in Queues, j \in DOMAIN log : copies'[r][j].done = copies[r][j].done
  PROVE  Delivered'
BY QueueFacts DEF SInv, Delivered, Arrived

LEMMA BookKeeps ==
  ASSUME SInv, NEW h \in Holds, Book(h), BusTypeOK'
  PROVE  TypeOK' /\ Truth' /\ Tracked' /\ Delivered'
<1>1. Writes(h) /\ UNCHANGED <<log, copies, sent, tickets, lost>>
  BY DEF Book, Writes, busVars
<1>2. UNCHANGED sales
  BY DEF Book, Lock, Undo, Make, Open, EndRow, Release, Free, bookingVars
<1>3. Delivered'
  BY <1>1, WritesType, DeliveredStays DEF SInv
<1> QED BY <1>1, <1>2, <1>3, WritesKeep

-----------------------------------------------------------------------------
(* Publishers *)

\* A true event is routed or is not: the log stays true, and what was handled of
\* it arrived.
LEMMA RoutedStays ==
  ASSUME SInv, NEW e \in Events, Route(e) \/ UNCHANGED <<log, copies>>,
         UNCHANGED <<seat, tickets, sales>>,
         \A f \in Events : True(sales, sent, f) => True(sales, sent', f),
         True(sales, sent', e)
  PROVE  /\ \A i \in DOMAIN log' : True(sales', sent', log'[i])
         /\ Delivered'
         /\ \A i \in DOMAIN log : i \in DOMAIN log' /\ log'[i] = log[i]
         /\ Route(e) => \E i \in DOMAIN log' : log'[i] = e
<1>1. CASE UNCHANGED <<log, copies>> /\ ~Route(e)
  <2>1. Delivered'
    BY <1>1, DeliveredStays
  <2>2. \A i \in DOMAIN log : log[i] \in Events
    BY ElementOfSeq, LenProperties DEF SInv, IInv, BusTypeOK
  <2> QED BY <1>1, <2>1, <2>2 DEF SInv, Truth
<1>2. CASE Route(e)
  <2>1. PICK n \in Nat :
        /\ DOMAIN log = 1..n /\ DOMAIN log' = 1..n + 1
        /\ log'[n + 1] = e /\ \A i \in 1..n : log'[i] = log[i]
        /\ \A q \in Queues :
             /\ copies'[q][n + 1].done = 0
             /\ \A i \in 1..n : copies'[q][i] = copies[q][i]
    BY <1>2, RouteFacts DEF SInv
  <2>2. \A i \in DOMAIN log' : True(sales', sent', log'[i])
    <3>1. \A i \in 1..n : log[i] \in Events
      BY <2>1, ElementOfSeq, LenProperties DEF SInv, IInv, BusTypeOK
    <3> QED BY <2>1, <3>1 DEF SInv, Truth
  <2>3. ASSUME NEW i \in 1..n PROVE Arrived(i)'
    BY <2>1, <2>3, QueueFacts DEF SInv, Delivered, Arrived
  <2>4. Arrived(n + 1)'
    BY <2>1, QueueFacts DEF Arrived
  <2>5. Delivered'
    BY <2>1, <2>3, <2>4 DEF Delivered
  <2>6. n + 1 \in DOMAIN log'
    BY <2>1
  <2> QED BY <2>1, <2>2, <2>5, <2>6
<1> QED BY <1>1, <1>2

LEMMA SettleKeeps ==
  ASSUME SInv, NEW h \in Holds, NEW outcome \in PaymentKeys, Settle(h, outcome), BusTypeOK'
  PROVE  TypeOK' /\ Truth' /\ Tracked' /\ Delivered'
<1> DEFINE e == Event(outcome, h)
<1>1. /\ UNCHANGED <<seat, hold, row, releases, sales, outbox, tickets, lost>>
      /\ Route(e) \/ UNCHANGED <<log, copies>>
  BY DEF Settle, Publish, bookingVars
<1>2. /\ sent' \in [Holds -> SUBSET PaymentKeys]
      /\ outcome \in sent'[h]
      /\ \A g \in Holds : sent[g] \subseteq sent'[g]
  BY DEF Settle, SInv, TypeOK
<1>3. e \in Events /\ e.key = outcome /\ e.hold = h
  BY EventFacts
<1>4. TypeOK'
  BY <1>1, <1>2 DEF SInv, TypeOK
<1>5. \A f \in Events : True(sales, sent, f) => True(sales, sent', f)
  BY <1>2, EventFacts DEF True
<1>6. True(sales', sent', e)
  BY <1>2, <1>3 DEF True, PaymentKeys
<1>7. /\ \A i \in DOMAIN log' : True(sales', sent', log'[i])
      /\ Delivered'
      /\ \A i \in DOMAIN log : i \in DOMAIN log' /\ log'[i] = log[i]
  <2> HIDE DEF e
  <2> QED BY <1>1, <1>3, <1>5, <1>6, RoutedStays
<1>8. \A k \in DOMAIN outbox : True(sales', sent', outbox[k])
  <2>1. \A k \in DOMAIN outbox : outbox[k] \in Events
    BY ElementOfSeq, LenProperties, EventFacts DEF SInv, TypeOK, Told
  <2> QED BY <1>1, <1>5, <2>1 DEF SInv, Truth
<1>9. Truth'
  BY <1>1, <1>2, <1>7, <1>8 DEF SInv, Truth, TypeOK
<1>10. Tracked'
  BY <1>1, <1>7 DEF SInv, Tracked, Confirmation, Event
<1> QED BY <1>4, <1>7, <1>9, <1>10

\* What is put back is in the outbox again, and nothing else comes in.
LEMMA InsertFacts ==
  ASSUME NEW s \in Seq(Told), NEW e \in Told, NEW k \in 0..Len(s)
  PROVE  LET t == InsertAt(s, k, e) IN
         /\ t \in Seq(Told)
         /\ \A j \in DOMAIN t : t[j] = e \/ \E i \in DOMAIN s : t[j] = s[i]
         /\ \A i \in DOMAIN s : \E j \in DOMAIN t : t[j] = s[i]
         /\ \E j \in DOMAIN t : t[j] = e
<1> DEFINE a == SubSeq(s, 1, k)
           b == SubSeq(s, k + 1, Len(s))
           t == InsertAt(s, k, e)
           n == Len(s)
<1>1. n \in Nat /\ DOMAIN s = 1..n /\ k \in Nat /\ k <= n
  BY LenProperties
<1>2. a \in Seq(Told) /\ Len(a) = k /\ \A i \in 1..k : a[i] = s[i]
  BY <1>1, SubSeqProperties
<1>3. b \in Seq(Told) /\ Len(b) = n - k /\ \A i \in 1..n - k : b[i] = s[k + i]
  <2>1. \A i \in k + 1..n : s[i] \in Told
    BY <1>1, ElementOfSeq
  <2>2. /\ b \in Seq(Told)
        /\ Len(b) = IF k + 1 <= n THEN n - (k + 1) + 1 ELSE 0
        /\ \A i \in 1..n - (k + 1) + 1 : b[i] = s[k + 1 + i - 1]
    BY <1>1, <2>1, SubSeqProperties
  <2>3. \A i \in 1..n - k : i \in 1..n - (k + 1) + 1 /\ k + 1 + i - 1 = k + i
    BY <1>1
  <2>4. \A i \in 1..n - k : b[i] = s[k + i]
    BY <2>2, <2>3
  <2> QED BY <1>1, <2>2, <2>4
<1>4. <<e>> \in Seq(Told) /\ Len(<<e>>) = 1 /\ <<e>>[1] = e
  OBVIOUS
<1>5. /\ a \o <<e>> \in Seq(Told) /\ Len(a \o <<e>>) = k + 1
      /\ \A i \in 1..k : (a \o <<e>>)[i] = s[i]
      /\ (a \o <<e>>)[k + 1] = e
  <2> DEFINE last == <<e>>
  <2> HIDE DEF a, last
  <2>1. last \in Seq(Told) /\ Len(last) = 1 /\ last[1] = e
    BY <1>4 DEF last
  <2>2. /\ a \o last \in Seq(Told) /\ Len(a \o last) = k + 1
        /\ \A i \in 1..k + 1 : (a \o last)[i] = IF i <= k THEN a[i] ELSE last[i - k]
    <3>1. a \in Seq(Told) /\ last \in Seq(Told) /\ Len(a) = k /\ Len(last) = 1
      BY <1>2, <2>1
    <3>2. /\ a \o last \in Seq(Told) /\ Len(a \o last) = Len(a) + Len(last)
          /\ \A i \in 1..Len(a) + Len(last) :
               (a \o last)[i] = IF i <= Len(a) THEN a[i] ELSE last[i - Len(a)]
      BY <3>1, ConcatProperties
    <3> QED BY <3>1, <3>2
  <2>3. \A i \in 1..k : i \in 1..k + 1 /\ i <= k
    BY <1>1
  <2>4. k + 1 \in 1..k + 1 /\ ~(k + 1 <= k) /\ (k + 1) - k = 1
    BY <1>1
  <2>5. \A i \in 1..k : (a \o last)[i] = s[i]
    BY <1>2, <2>2, <2>3
  <2>6. (a \o last)[k + 1] = e
    BY <2>1, <2>2, <2>4
  <2> QED BY <2>2, <2>5, <2>6 DEF last
<1>6. /\ t \in Seq(Told) /\ DOMAIN t = 1..n + 1
      /\ \A i \in 1..n + 1 : t[i] = IF i <= k + 1 THEN (a \o <<e>>)[i] ELSE b[i - (k + 1)]
  <2> DEFINE c == a \o <<e>>
  <2> HIDE DEF b, c
  <2>1. t = c \o b
    BY DEF InsertAt, b, c
  <2>2. c \in Seq(Told) /\ Len(c) = k + 1 /\ Len(c) + Len(b) = n + 1
    BY <1>1, <1>3, <1>5 DEF c
  <2> HIDE DEF t
  <2>3. t \in Seq(Told) /\ Len(t) = n + 1
    BY <1>3, <2>1, <2>2, ConcatProperties
  <2>4. \A i \in 1..n + 1 : t[i] = IF i <= k + 1 THEN c[i] ELSE b[i - (k + 1)]
    BY <1>3, <2>1, <2>2, ConcatProperties
  <2> QED BY <2>3, <2>4, LenProperties DEF c
<1> HIDE DEF a, b, t, n
<1>7. /\ \A i \in 1..k : t[i] = s[i]
      /\ t[k + 1] = e
      /\ \A i \in k + 1..n : t[i + 1] = s[i]
  <2>1. \A i \in 1..k : i \in 1..n + 1 /\ i <= k + 1
    BY <1>1
  <2>2. k + 1 \in 1..n + 1
    BY <1>1
  <2>3. ASSUME NEW i \in k + 1..n PROVE t[i + 1] = s[i]
    <3>1. /\ i + 1 \in 1..n + 1 /\ ~(i + 1 <= k + 1)
          /\ i + 1 - (k + 1) = i - k /\ i - k \in 1..n - k /\ k + (i - k) = i
      BY <1>1
    <3>2. t[i + 1] = b[i - k]
      BY <1>6, <3>1
    <3> QED BY <1>3, <3>1, <3>2
  <2> QED BY <1>5, <1>6, <2>1, <2>2, <2>3
<1>8. ASSUME NEW j \in DOMAIN t PROVE t[j] = e \/ \E i \in DOMAIN s : t[j] = s[i]
  <2>1. CASE j \in 1..k
    <3>1. j \in DOMAIN s
      BY <1>1, <2>1
    <3> QED BY <1>7, <2>1, <3>1
  <2>2. CASE j - 1 \in k + 1..n
    <3>1. j - 1 \in DOMAIN s /\ j = (j - 1) + 1
      BY <1>1, <1>6, <2>2
    <3> QED BY <1>7, <2>2, <3>1
  <2>3. j \in 1..k \/ j = k + 1 \/ j - 1 \in k + 1..n
    BY <1>1, <1>6
  <2> QED BY <1>7, <2>1, <2>2, <2>3
<1>9. \A i \in DOMAIN s : \E j \in DOMAIN t : t[j] = s[i]
  <2>1. \A i \in 1..n : \/ i \in 1..k /\ i \in 1..n + 1
                        \/ i \in k + 1..n /\ i + 1 \in 1..n + 1
    BY <1>1
  <2> QED BY <1>1, <1>6, <1>7, <2>1
<1>10. k + 1 \in DOMAIN t
  BY <1>1, <1>6
<1> QED BY <1>6, <1>7, <1>8, <1>9, <1>10 DEF t

\* The relay takes out the head or puts it back; if it is out, it is on the bus
\* or lost.
LEMMA RelayFacts ==
  ASSUME SInv, Relay
  PROVE  LET e == Head(outbox) IN
         /\ outbox' \in Seq(Told)
         /\ \A k \in DOMAIN outbox' : \E i \in DOMAIN outbox : outbox'[k] = outbox[i]
         /\ \A i \in DOMAIN outbox :
              outbox[i] = e \/ \E k \in DOMAIN outbox' : outbox'[k] = outbox[i]
         /\ lost \subseteq lost' /\ lost' \subseteq lost \cup {e}
         /\ \/ Route(e)
            \/ e \in lost' /\ UNCHANGED <<log, copies>>
<1> DEFINE e == Head(outbox)
           t == Tail(outbox)
           n == Len(outbox)
<1>1. /\ e \in Told /\ t \in Seq(Told) /\ n \in Nat \ {0} /\ DOMAIN outbox = 1..n
      /\ outbox[1] = e /\ Len(t) = n - 1 /\ DOMAIN t = 1..n - 1
      /\ \A k \in 1..n - 1 : t[k] = outbox[k + 1]
  BY HeadFacts DEF SInv, Relay
<1> HIDE DEF e, t, n
<1>2. \A i \in DOMAIN t : i + 1 \in DOMAIN outbox /\ t[i] = outbox[i + 1]
  BY <1>1
<1>3. ASSUME NEW i \in DOMAIN outbox PROVE outbox[i] = e \/ \E k \in DOMAIN t : t[k] = outbox[i]
  <2>1. i = 1 \/ (i - 1 \in 1..n - 1 /\ (i - 1) + 1 = i)
    BY <1>1
  <2> QED BY <1>1, <2>1
<1>4. 1 \in DOMAIN outbox
  BY <1>1
<1>5. ASSUME NEW k \in 0..n - 1, outbox' = InsertAt(t, k, e)
      PROVE  /\ outbox' \in Seq(Told)
             /\ \A j \in DOMAIN outbox' : outbox'[j] = e \/ \E i \in DOMAIN t : outbox'[j] = t[i]
             /\ \A i \in DOMAIN t : \E j \in DOMAIN outbox' : outbox'[j] = t[i]
  <2>1. k \in 0..Len(t) /\ t \in Seq(Told) /\ e \in Told
    BY <1>1
  <2>2. LET u == InsertAt(t, k, e) IN
        /\ u \in Seq(Told)
        /\ \A j \in DOMAIN u : u[j] = e \/ \E i \in DOMAIN t : u[j] = t[i]
        /\ \A i \in DOMAIN t : \E j \in DOMAIN u : u[j] = t[i]
    BY <2>1, InsertFacts
  <2> QED BY <1>5, <2>2
<1>6. outbox' = t \/ \E k \in 0..n - 1 : outbox' = InsertAt(t, k, e)
  BY DEF Relay, e, t, n
<1>7. /\ outbox' \in Seq(Told)
      /\ \A j \in DOMAIN outbox' : outbox'[j] = e \/ \E i \in DOMAIN t : outbox'[j] = t[i]
      /\ \A i \in DOMAIN t : \E j \in DOMAIN outbox' : outbox'[j] = t[i]
  BY <1>1, <1>5, <1>6
<1>8. \A j \in DOMAIN outbox' : \E i \in DOMAIN outbox : outbox'[j] = outbox[i]
  <2>1. ASSUME NEW j \in DOMAIN outbox' PROVE \E i \in DOMAIN outbox : outbox'[j] = outbox[i]
    <3>1. CASE outbox'[j] = e
      BY <1>1, <1>4, <3>1
    <3>2. CASE \E i \in DOMAIN t : outbox'[j] = t[i]
      BY <1>2, <3>2
    <3> QED BY <1>7, <3>1, <3>2
  <2> QED BY <2>1
<1>9. ASSUME NEW i \in DOMAIN outbox
      PROVE  outbox[i] = e \/ \E k \in DOMAIN outbox' : outbox'[k] = outbox[i]
  BY <1>3, <1>7
<1>10. lost \subseteq lost' /\ lost' \subseteq lost \cup {e}
  BY DEF Relay, e
<1>11. Route(e) \/ (e \in lost' /\ UNCHANGED <<log, copies>>)
  BY DEF Relay, Publish, busVars, e
<1> QED BY <1>7, <1>8, <1>9, <1>10, <1>11 DEF e

LEMMA RelayKeeps ==
  ASSUME SInv, Relay, BusTypeOK'
  PROVE  TypeOK' /\ Truth' /\ Tracked' /\ Delivered'
<1>1. PICK e \in Told :
        /\ e = Head(outbox)
        /\ \A k \in DOMAIN outbox' : \E i \in DOMAIN outbox : outbox'[k] = outbox[i]
        /\ \A i \in DOMAIN outbox :
             outbox[i] = e \/ \E k \in DOMAIN outbox' : outbox'[k] = outbox[i]
        /\ lost \subseteq lost' /\ lost' \subseteq lost \cup {e}
        /\ Route(e) \/ (e \in lost' /\ UNCHANGED <<log, copies>>)
        /\ outbox' \in Seq(Told)
        /\ True(sales, sent, e)
  <2>1. Head(outbox) \in Told /\ True(sales, sent, Head(outbox))
    <3>1. Head(outbox) \in Told /\ 1 \in DOMAIN outbox /\ outbox[1] = Head(outbox)
      BY HeadFacts DEF SInv, Relay
    <3> QED BY <3>1 DEF SInv, Truth
  <2> QED BY <2>1, RelayFacts
<1>2. UNCHANGED <<seat, hold, row, releases, sales, sent, tickets>>
  BY DEF Relay, bookingVars
<1>3. TypeOK'
  BY <1>1, <1>2 DEF SInv, TypeOK, Told
<1>4. /\ \A i \in DOMAIN log' : True(sales', sent', log'[i])
      /\ Delivered'
      /\ \A i \in DOMAIN log : i \in DOMAIN log' /\ log'[i] = log[i]
      /\ Route(e) => \E i \in DOMAIN log' : log'[i] = e
  <2>1. e \in Events
    BY EventFacts
  <2> QED BY <1>1, <1>2, <2>1, RoutedStays
<1>5. Truth'
  BY <1>1, <1>2, <1>4 DEF SInv, Truth
<1>6. Tracked'
  <2>1. SUFFICES ASSUME NEW h \in sales
                 PROVE  \/ \E k \in DOMAIN outbox' : outbox'[k] = Confirmation(h)
                        \/ Confirmation(h) \in lost'
                        \/ \E i \in DOMAIN log' : log'[i] = Confirmation(h)
    BY <1>2 DEF Tracked, Confirmation, Event
  <2>2. CASE \E k \in DOMAIN outbox : outbox[k] = Confirmation(h)
    <3>1. PICK k \in DOMAIN outbox : outbox[k] = Confirmation(h)
      BY <2>2
    <3>2. CASE outbox[k] = e
      BY <1>1, <1>4, <3>1, <3>2
    <3>3. CASE outbox[k] # e
      BY <1>1, <3>1, <3>3
    <3> QED BY <3>2, <3>3
  <2>3. CASE Confirmation(h) \in lost
    BY <1>1, <2>3
  <2>4. CASE \E i \in DOMAIN log : log[i] = Confirmation(h)
    BY <1>4, <2>4
  <2> QED BY <2>2, <2>3, <2>4 DEF SInv, Tracked
<1> QED BY <1>3, <1>4, <1>5, <1>6

-----------------------------------------------------------------------------
(* Handlers *)

\* The copy handled has arrived if its effect says so; the others are as before.
LEMMA HandledArrives ==
  ASSUME SInv, NEW q \in Queues, NEW i \in DOMAIN log, Handled(q, i),
         seat = "SOLD" => seat' = "SOLD", tickets \subseteq tickets',
         q = "trip_domain" /\ log[i].key = "seat.confirmed" => seat' = "SOLD",
         q = "notification_queue" /\ log[i].key = "seat.confirmed" => log[i].hold \in tickets'
  PROVE  Delivered'
<1>1. UNCHANGED log /\ (Handle(q, i) \/ Orphan(q, i))
  BY DEF Handled, Handle, Orphan
<1>2. \A r \in Queues, j \in DOMAIN log :
        r # q \/ j # i => copies'[r][j].done = copies[r][j].done
  BY <1>1, DoneFacts DEF SInv
<1>3. ASSUME NEW j \in DOMAIN log, log[j].key = "seat.confirmed"
      PROVE  /\ copies'["trip_domain"][j].done > 0 => seat' = "SOLD"
             /\ copies'["notification_queue"][j].done > 0 => log[j].hold \in tickets'
  BY <1>2, <1>3, QueueFacts DEF SInv, Delivered, Arrived
<1> QED BY <1>1, <1>3 DEF Delivered, Arrived

LEMMA HandledKeeps ==
  ASSUME SInv, NEW q \in Queues, NEW i \in DOMAIN log, Handled(q, i), BusTypeOK'
  PROVE  TypeOK' /\ Truth' /\ Tracked' /\ Delivered'
<1> DEFINE e == log[i]
<1>1. e \in Events /\ e.hold \in Holds /\ True(sales, sent, e)
  <2>1. e \in Events
    BY ElementOfSeq, LenProperties DEF SInv, IInv, BusTypeOK
  <2> QED BY <2>1, EventFacts DEF SInv, Truth
<1>2. Effect(q, e) /\ UNCHANGED log
  BY DEF Handled, Handle, Orphan
<1>3. CASE q = "booking_domain" /\ BookingHandles(e)
  <2>1. Writes(e.hold) /\ UNCHANGED <<sent, tickets, lost>>
    BY <1>3 DEF BookingHandles, Writes
  <2>2. UNCHANGED sales \/ "payment.approved" \in sent[e.hold]
    <3>1. CASE e.key = "payment.approved"
      BY <1>1, <3>1 DEF True
    <3>2. CASE OnPaymentFailed(e.hold)
      BY <3>2 DEF OnPaymentFailed, EndRow, Release, Free, bookingVars
    <3> QED BY <1>3, <3>1, <3>2 DEF BookingHandles
  <2>3. Delivered'
    BY <1>1, <1>3, <2>1, WritesType, HandledArrives DEF SInv
  <2> QED BY <1>1, <1>2, <2>1, <2>2, <2>3, WritesKeep
<1>4. CASE q = "trip_domain" /\ TripHandles(e)
  <2>1. UNCHANGED <<hold, row, releases, sales, outbox, sent, tickets, lost>>
    BY <1>4 DEF TripHandles, bookingVars
  <2>2. /\ seat' \in {"AVAILABLE", "HELD", "SOLD"}
        /\ seat = "SOLD" => seat' = "SOLD"
        /\ e.key = "seat.confirmed" => seat' = "SOLD"
    BY <1>4 DEF TripHandles, OnReserved, OnConfirmed, OnReleased, Freed, SInv, TypeOK
  <2>3. Delivered'
    BY <1>4, <2>1, <2>2, HandledArrives
  <2> QED BY <1>2, <2>1, <2>2, <2>3 DEF SInv, TypeOK, Truth, Tracked, Confirmation, Event
<1>5. CASE q = "notification_queue" /\ NotificationHandles(e)
  <2>1. UNCHANGED <<seat, hold, row, releases, sales, outbox, sent, lost>>
    BY <1>5 DEF NotificationHandles, bookingVars
  <2>2. /\ tickets \subseteq tickets' /\ tickets' \subseteq tickets \cup {e.hold}
        /\ e.key = "seat.confirmed" => e.hold \in tickets'
        /\ tickets' # tickets => e.key = "seat.confirmed"
    BY <1>5 DEF NotificationHandles, TicketsFor
  <2>3. tickets' \subseteq sales
    BY <1>1, <2>2 DEF True, SInv, Truth
  <2>4. Delivered'
    BY <1>5, <2>1, <2>2, HandledArrives
  <2> QED BY <1>2, <2>1, <2>2, <2>3, <2>4 DEF SInv, TypeOK, Truth, Tracked, Confirmation, Event
<1> QED BY <1>2, <1>3, <1>4, <1>5 DEF Effect

-----------------------------------------------------------------------------
(* The invariant *)

LEMMA InitSInv == Init => SInv
<1> SUFFICES ASSUME Init PROVE SInv
  OBVIOUS
<1>1. IInv
  BY InitIInv DEF Init
<1>2. outbox \in Seq(EventsOf(SeatKeys)) /\ DOMAIN outbox = {}
  BY EmptySeq DEF Init
<1>3. TypeOK
  BY <1>1, <1>2 DEF Init, TypeOK, IInv
<1>4. DOMAIN log = {}
  BY DEF Init, BusInit
<1> QED BY <1>1, <1>2, <1>3, <1>4 DEF Init, SInv, Truth, Tracked, Delivered

LEMMA NextSInv == SInv /\ [Next]_vars => SInv'
<1> SUFFICES ASSUME SInv, [Next]_vars PROVE SInv'
  OBVIOUS
<1>1. IInv' /\ BusTypeOK'
  BY StepsAreBusSteps, NextIInv DEF SInv, IInv
<1> DEFINE Rest == TypeOK' /\ Truth' /\ Tracked' /\ Delivered'
<1>2. ASSUME UNCHANGED seatVars, UNCHANGED log,
             \A r \in Queues, j \in DOMAIN log : copies'[r][j].done = copies[r][j].done
      PROVE  Rest
  <2>1. Delivered'
    BY <1>2, DeliveredStays DEF seatVars
  <2> QED BY <1>1, <1>2, <2>1
          DEF seatVars, bookingVars, SInv, TypeOK, Truth, Tracked, Confirmation, Event
<1>3. ASSUME NEW q \in Queues, Transport(q) PROVE Rest
  <2>1. UNCHANGED seatVars /\ UNCHANGED log
    BY <1>3 DEF Transport, Start, Drop, Reject
  <2> QED BY <1>2, <1>3, <2>1, DoneFacts DEF SInv
<1>4. ASSUME UNCHANGED vars PROVE Rest
  <2>1. UNCHANGED seatVars /\ UNCHANGED <<log, copies>>
    BY <1>4 DEF vars, busVars
  <2> HIDE DEF Rest
  <2> QED BY <1>2, <2>1
<1>5. ASSUME Next PROVE Rest
  <2>1. ASSUME NEW h \in Holds, Book(h) PROVE Rest
    BY <1>1, <2>1, BookKeeps
  <2>2. ASSUME NEW h \in Holds, NEW outcome \in PaymentKeys, Settle(h, outcome) PROVE Rest
    BY <1>1, <2>2, SettleKeeps
  <2>3. ASSUME NEW q \in Queues, NEW i \in DOMAIN log, Handled(q, i) PROVE Rest
    BY <1>1, <2>3, HandledKeeps
  <2>4. CASE Relay
    BY <1>1, <2>4, RelayKeeps
  <2> HIDE DEF Rest
  <2> QED BY <1>3, <1>5, <2>1, <2>2, <2>3, <2>4 DEF Next
<1> QED BY <1>1, <1>4, <1>5 DEF SInv

-----------------------------------------------------------------------------
\* Every announcement is true and every sale can be traced: its confirmation is
\* in the outbox, lost, or on the bus, and has had its effect where it was
\* handled.
THEOREM SystemInvariant == Spec => []SInv
BY InitSInv, NextSInv, PTL DEF Spec

\* Every variable of the system and of the bus keeps its type.
THEOREM SystemTypeCorrect == Spec => []TypeOK
<1>1. SInv => TypeOK
  BY DEF SInv
<1> QED BY <1>1, SystemInvariant, PTL

\* The services use the bus in no other way than FanoutBus describes: what is
\* proved of the bus holds of the system.
THEOREM SystemRunsOnTheBus == Spec => BusSpec
<1>1. Init => BusInit
  BY DEF Init
<1>2. SInv /\ [Next]_vars => [BusNext]_busVars
  BY StepsAreBusSteps DEF SInv
<1> QED BY <1>1, <1>2, SystemInvariant, PTL DEF Spec, BusSpec

\* A copy an event made for a service is handled or kept in its dead-letter queue.
THEOREM EventsNeverVanish == Spec => []NothingVanishes
BY SystemRunsOnTheBus, CopiesNeverVanish, PTL

\* A handler repeats its effect only after its channel was lost.
THEOREM EffectsArePaid == Spec => []RepeatsAreClosings
BY SystemRunsOnTheBus, RepeatsArePaid, PTL

\* A ticket is mailed only about a reservation that was confirmed on an approval
\* of Payment and is open no more, in whatever order the statements of Booking's
\* handlers fall and whatever they write over the row.
THEOREM TicketsGoToBuyers == Spec => []TicketsAreSales
<1>1. SInv => TicketsAreSales
  BY DEF SInv, Truth, TicketsAreSales
<1> QED BY <1>1, SystemInvariant, PTL

\* No sale is forgotten: while its confirmation is neither on its way nor
\* forfeited, the seat is sold and the ticket mailed.
THEOREM SalesLeaveTraces == Spec => []SalesAreTracked
<1>1. ASSUME SInv, NEW h \in sales, NEW q \in {"trip_domain", "notification_queue"}
      PROVE  \/ Pending(q, Confirmation(h)) \/ Forfeited(q, Confirmation(h))
             \/ \E i \in DOMAIN log : log[i] = Confirmation(h) /\ copies[q][i].done > 0
  <2>1. CASE \E i \in DOMAIN log : log[i] = Confirmation(h)
    <3>1. PICK i \in DOMAIN log : log[i] = Confirmation(h)
      BY <2>1
    <3>2. q \in Queues /\ log[i] \in Interest[q]
      <4>1. h \in Holds
        BY <1>1 DEF SInv, TypeOK
      <4> QED BY <3>1, <4>1, QueueFacts, EventFacts DEF Confirmation, SeatKeys
    <3>3. copies[q][i] \in Copy /\ Kept(q, i)
      BY <1>1, <3>2 DEF SInv, IInv, BusTypeOK, AllKept
    <3>4. copies[q][i].at \in {"missed", "ready", "acked", "rejected"}
      BY <3>2, <3>3 DEF Copy, Kept
    <3> QED BY <3>1, <3>3, <3>4 DEF Kept, Pending, Forfeited
  <2> QED BY <1>1, <2>1 DEF SInv, Tracked, Pending, Forfeited
<1>2. SInv => SalesAreTracked
  <2> SUFFICES ASSUME SInv, NEW h \in sales
               PROVE  /\ \/ seat = "SOLD"
                         \/ Pending("trip_domain", Confirmation(h))
                         \/ Forfeited("trip_domain", Confirmation(h))
                      /\ \/ h \in tickets
                         \/ Pending("notification_queue", Confirmation(h))
                         \/ Forfeited("notification_queue", Confirmation(h))
    BY DEF SalesAreTracked
  <2>1. Confirmation(h).key = "seat.confirmed" /\ Confirmation(h).hold = h
    BY EventFacts DEF Confirmation
  <2>2. \A i \in DOMAIN log : log[i] = Confirmation(h) =>
          /\ copies["trip_domain"][i].done > 0 => seat = "SOLD"
          /\ copies["notification_queue"][i].done > 0 => h \in tickets
    BY <2>1 DEF SInv, Delivered, Arrived
  <2> QED BY <1>1, <2>2
<1> QED BY <1>2, SystemInvariant, PTL

\* No late, repeated or reordered event puts a sold seat back on the market.
THEOREM SoldSeatsStaySold == Spec => SoldStaysSold
<1>1. ASSUME SInv, [Next]_vars, seat = "SOLD" PROVE seat' = "SOLD"
  <2>1. ASSUME NEW h \in Holds, Writes(h) PROVE seat' = "SOLD"
    BY <1>1, <2>1, WritesType DEF SInv
  <2>2. ASSUME NEW h \in Holds, Book(h) PROVE seat' = "SOLD"
    BY <2>1, <2>2 DEF Book, Writes
  <2>3. ASSUME NEW q \in Queues, NEW i \in DOMAIN log, Handled(q, i) PROVE seat' = "SOLD"
    <3>1. CASE BookingHandles(log[i])
      <4>1. log[i].hold \in Holds
        <5>1. log[i] \in Events
          BY <1>1, ElementOfSeq, LenProperties DEF SInv, IInv, BusTypeOK
        <5> QED BY <5>1, EventFacts
      <4> QED BY <2>1, <3>1, <4>1 DEF BookingHandles, Writes
    <3>2. CASE TripHandles(log[i])
      BY <1>1, <3>2 DEF TripHandles, OnReserved, OnConfirmed, OnReleased, Freed
    <3>3. CASE NotificationHandles(log[i])
      BY <1>1, <3>3 DEF NotificationHandles
    <3> QED BY <2>3, <3>1, <3>2, <3>3 DEF Handled, Effect
  <2>4. ASSUME NEW h \in Holds, NEW outcome \in PaymentKeys, Settle(h, outcome)
        PROVE  UNCHANGED seat
    BY <2>4 DEF Settle
  <2>5. Relay \/ UNCHANGED vars => UNCHANGED seat
    BY DEF Relay, vars, seatVars
  <2>6. ASSUME NEW q \in Queues, Transport(q) PROVE UNCHANGED seat
    BY <2>6 DEF Transport, seatVars
  <2> QED BY <1>1, <2>2, <2>3, <2>4, <2>5, <2>6 DEF Next
<1>2. SInv /\ [Next]_vars => [seat = "SOLD" => seat' = "SOLD"]_vars
  BY <1>1
<1> QED BY <1>2, SystemInvariant, PTL DEF Spec, SoldStaysSold
=============================================================================

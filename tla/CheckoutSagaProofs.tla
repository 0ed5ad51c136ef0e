------------------------- MODULE CheckoutSagaProofs -------------------------
(***************************************************************************)
(* Theorems about CheckoutSaga, for every set of reservations, keys and    *)
(* calls: types; a COMPLETED saga is announced, a COMPENSATED one was      *)
(* served; and, for a reservation whose calls never overlap, at most one   *)
(* active payment, no hidden charge, no confirmation without payment, no   *)
(* second charge and no compensation of what is paid.                      *)
(***************************************************************************)
EXTENDS CheckoutSaga, TLAPS

\* A request that somebody waits for is that of the call that waits.
Callers ==
  \A q \in inbox : q.from # None =>
    /\ q.res = Res(q.from)
    /\ At(q.from, IF q.kind = "begin" THEN "awaitBegin" ELSE "awaitCompensate")

\* Strengthens CompletedIsAnnounced: what a call relies on when it completes.
Announced ==
  /\ CompletedIsAnnounced
  /\ \A r \in Reservations : booking[r] = "CONFIRMED" => r \in approved
  /\ \A c \in Calls :
       /\ At(c, "complete") => Res(c) \in approved
       /\ call[c].reply = "CONFIRMED" => booking[Res(c)] = "CONFIRMED"
       /\ call[c].pc \in {"findApproved", "replay"} => call[c].reply = "CONFIRMED"

Over(r) == booking[r] \in {"ENDED", "CONFIRMED"}

\* Strengthens CompensatedIsServed.
Served ==
  /\ CompensatedIsServed
  /\ \A c \in Calls : At(c, "compensated") => Over(Res(c))

Before == {"upsert", "findSettled", "awaitBegin", "open", "failWindow", "findApproved", "create"}

\* What a call knows of the payments of its reservation, as long as no other
\* call works on it.
Knows(c) ==
  /\ call[c].pc \in Before \cup {"findActive"} => payment[Key(c)] = "none"
  /\ call[c].pc \in Before => Active(Res(c)) = {}
  /\ call[c].pc \in {"link", "charge"} => payment[Key(c)] = "PENDING"
  /\ call[c].pc \in {"charged", "publishApproved", "complete", "postCharge"} => payment[Key(c)] = "APPROVED"
  /\ call[c].pc \in {"publishFailed"} => payment[Key(c)] = "FAILED"
  /\ call[c].pc \in {"compensate", "awaitCompensate", "compensated", "compFailed"} => payment[Key(c)] # "APPROVED"
  /\ call[c].pc \in {"findApproved", "create", "link", "charge"} => saga[Key(c)] # "COMPENSATED"
  /\ call[c].pc \notin Before \cup {"findActive", "replay"} => Active(Res(c)) \subseteq {Key(c)}

Paid(r) == \E k \in Active(r) : payment[k] = "APPROVED"

\* For a reservation whose calls never overlapped: one call works on it and
\* knows of its payments, what was announced was paid, what was charged is not
\* COMPENSATED.
OneCall ==
  \A c, d \in Calls :
    ~At(c, "idle") /\ ~At(d, "idle") /\ Res(c) = Res(d) /\ Alone(Res(c)) => c = d
AllKnow == \A c \in Calls : ~At(c, "idle") /\ Alone(Res(c)) => Knows(c)
AnnouncedIsPaid == \A r \in Reservations : Alone(r) /\ r \in approved => Paid(r)
NotHidden ==
  \A k \in Keys : payment[k] = "APPROVED" /\ Alone(resOf[k]) => saga[k] # "COMPENSATED"

IInv ==
  /\ TypeOK /\ Callers /\ Announced /\ Served
  /\ OneCall /\ AllKnow /\ OneActive /\ AnnouncedIsPaid /\ NotHidden

-----------------------------------------------------------------------------
(* How a call moves *)

Moves(c) ==
  /\ CallsOK'
  /\ \A d \in Calls : d # c => call'[d] = call[d]
  /\ call'[c].pc = "idle" \/ call'[c].key = Key(c)

Ends(c) == Moves(c) /\ call'[c] = Idle

Lands(c, p) ==
  /\ Moves(c)
  /\ call'[c].pc = p
  /\ call'[c].key = Key(c)
  /\ call'[c].reply = call[c].reply

LEMMA PutMoves ==
  ASSUME CallsOK, NEW c \in Calls, NEW new \in Call, call' = [call EXCEPT ![c] = new],
         new = Idle \/ (new.key = Key(c) /\ Key(c) # NoKey)
  PROVE  Moves(c) /\ call'[c] = new
<1>1. call' \in [Calls -> Call] /\ call'[c] = new
  BY DEF CallsOK
<1>2. \A d \in Calls : call'[d].key = NoKey => call'[d] = Idle
  BY DEF CallsOK
<1>3. Idle.pc = "idle"
  BY DEF Idle
<1> QED BY <1>1, <1>2, <1>3 DEF CallsOK, Moves

LEMMA GotoLands ==
  ASSUME CallsOK, NEW c \in Calls, ~At(c, "idle"), NEW p \in Points, Goto(c, p)
  PROVE  Lands(c, p)
<1>1. call[c] \in Call /\ Key(c) # NoKey
  BY DEF CallsOK, At, Key, Idle
<1>2. call' = [call EXCEPT ![c] = [call[c] EXCEPT !.pc = p]]
  BY DEF CallsOK, Goto
<1>3. [call[c] EXCEPT !.pc = p] \in Call
  BY <1>1 DEF Call
<1>4. Moves(c) /\ call'[c] = [call[c] EXCEPT !.pc = p]
  BY <1>1, <1>2, <1>3, PutMoves DEF Call, Key
<1> QED BY <1>1, <1>4 DEF Call, Key, Lands

LEMMA LeaveEnds ==
  ASSUME CallsOK, NEW c \in Calls, Leave(c)
  PROVE  Ends(c)
<1>1. Idle \in Call
  BY DEF Idle, Call, Points, NoKey
<1> QED BY <1>1 DEF CallsOK, Leave, Moves, Ends, Idle

LEMMA UnwindLands ==
  ASSUME CallsOK, NEW c \in Calls, ~At(c, "idle"), Unwind(c)
  PROVE  Lands(c, "compensate")
<1>1. call[c] \in Call /\ Key(c) # NoKey
  BY DEF CallsOK, At, Key, Idle
<1>2. call' = [call EXCEPT ![c] = [call[c] EXCEPT !.pc = "compensate", !.caught = TRUE]]
  BY DEF CallsOK, Unwind
<1>3. [call[c] EXCEPT !.pc = "compensate", !.caught = TRUE] \in Call
  BY <1>1 DEF Call, Points
<1>4. Moves(c) /\ call'[c] = [call[c] EXCEPT !.pc = "compensate", !.caught = TRUE]
  BY <1>1, <1>2, <1>3, PutMoves DEF Call, Key
<1> QED BY <1>1, <1>4 DEF Call, Key, Lands

LEMMA RethrowLands ==
  ASSUME CallsOK, NEW c \in Calls, ~At(c, "idle"), Rethrow(c)
  PROVE  Ends(c) \/ Lands(c, "recheck")
BY LeaveEnds, GotoLands DEF Rethrow, Points

LEMMA PublishFailsLands ==
  ASSUME CallsOK, NEW c \in Calls, ~At(c, "idle"), PublishFails(c)
  PROVE  Lands(c, call[c].pc) \/ Lands(c, "recheck")
<1> DEFINE t == (call[c].tries + 1) % 3
           p == IF call[c].tries + 1 < 3 THEN call[c].pc ELSE "recheck"
<1>1. call[c] \in Call /\ Key(c) # NoKey
  BY DEF CallsOK, At, Key, Idle
<1>2. call' = [call EXCEPT ![c] = [call[c] EXCEPT !.tries = t, !.pc = p]]
  BY DEF CallsOK, PublishFails, Tries
<1>3. t \in 0..2 /\ p \in Points
  BY <1>1 DEF Call, Points
<1>4. p = call[c].pc \/ p = "recheck"
  OBVIOUS
<1> HIDE DEF t, p
<1>5. [call[c] EXCEPT !.tries = t, !.pc = p] \in Call
  BY <1>1, <1>3 DEF Call
<1>6. Moves(c) /\ call'[c] = [call[c] EXCEPT !.tries = t, !.pc = p]
  BY <1>1, <1>2, <1>5, PutMoves DEF Call, Key
<1> QED BY <1>1, <1>4, <1>6 DEF Call, Key, Lands

\* What a step leaves as it is when it touches neither payments nor events.
LEMMA QuietStep ==
  ASSUME CallsOK, OneCall, OneActive, AnnouncedIsPaid,
         NEW c \in Calls, ~At(c, "idle"), Moves(c), UNCHANGED <<payment, approved, overlapped>>
  PROVE  OneCall' /\ OneActive' /\ AnnouncedIsPaid'
<1>1. OneCall'
  BY DEF OneCall, Moves, CallsOK, At, Res, Key, Alone
<1>2. OneActive' /\ AnnouncedIsPaid'
  BY DEF OneActive, AnnouncedIsPaid, AtMostOneActive, Paid, Active, Alone
<1> QED BY <1>1, <1>2

LEMMA ForgetKeeps ==
  ASSUME inbox \subseteq Request, NEW S
  PROVE  Forget(S) \subseteq Request
<1>1. \A q \in Request : [q EXCEPT !.from = IF @ \in S THEN None ELSE @] \in Request
  BY DEF Request
<1> QED BY <1>1 DEF Forget

\* A step that changes a payment or a saga does so for the key of its call, and
\* what other calls know is about other reservations.
Writes(c) ==
  /\ \A k \in Keys : k # Key(c) => payment'[k] = payment[k] /\ saga'[k] = saga[k]
  /\ UNCHANGED overlapped

LEMMA OthersKnow ==
  ASSUME TypeOK, OneCall, AllKnow, NEW c \in Calls, ~At(c, "idle"), Moves(c), Writes(c)
  PROVE  \A d \in Calls : d # c /\ ~At(d, "idle")' /\ Alone(Res(d))' => Knows(d)'
<1> SUFFICES ASSUME NEW d \in Calls, d # c, ~At(d, "idle")', Alone(Res(d))'
             PROVE  Knows(d)'
  OBVIOUS
<1>1. call'[d] = call[d] /\ ~At(d, "idle") /\ Alone(Res(d)) /\ Key(d) \in Keys /\ Key(c) \in Keys
  BY DEF Moves, At, Writes, Alone, Res, Key, TypeOK, CallsOK, Call, Idle
<1>2. Res(d) # Res(c)
  BY <1>1 DEF OneCall
<1>3. Active(Res(d))' = Active(Res(d)) /\ payment'[Key(d)] = payment[Key(d)] /\ saga'[Key(d)] = saga[Key(d)]
  BY <1>1, <1>2 DEF Writes, Active, Res, Key
<1> QED BY <1>1, <1>3 DEF AllKnow, Knows, Res, Key

LEMMA OthersPaid ==
  ASSUME OneActive, AnnouncedIsPaid, NEW c \in Calls, Writes(c)
  PROVE  \A r \in Reservations : r # Res(c) /\ Alone(r)' =>
           /\ AtMostOneActive(r)'
           /\ r \in approved => Paid(r)'
BY DEF OneActive, AnnouncedIsPaid, Writes, Res, Active, AtMostOneActive, Paid, Alone

-----------------------------------------------------------------------------
(* The steps of a call *)

LEMMA FindActiveStep ==
  ASSUME IInv, NEW c \in Calls, FindActive(c)
  PROVE  IInv'
<1> USE SagaAssumption DEF IInv, TypeOK
<1>0. At(c, "findActive") /\ ~At(c, "idle")
  BY DEF FindActive, At
<1>1. \/ Ends(c)
      \/ Lands(c, "upsert") /\ Active(Res(c)) = {}
  <2>1. \/ Leave(c)
        \/ Goto(c, "upsert") /\ Active(Res(c)) = {}
    BY DEF FindActive, Select, At, rpc
  <2> QED BY <2>1, <1>0, GotoLands, LeaveEnds DEF Points, At
<1>2. UNCHANGED <<saga, inbox, payment, booking, approved, overlapped>>
  BY DEF FindActive, Select, rows, bus, rpc
<1>3. Moves(c) /\ CallsOK'
  BY <1>1 DEF Ends, Lands, Moves
<1>4. TypeOK'
  BY <1>0, <1>3 DEF FindActive, Select, Fault, CallsOK, At, Res, Key, Idle, Call, rows, rpc, bus
<1>5. Callers'
  BY <1>0, <1>1, <1>2 DEF Callers, Request, Ends, Lands, Moves, At, Res, Key
<1>6. Announced'
  BY <1>0, <1>1, <1>2 DEF Announced, CompletedIsAnnounced, Ends, Lands, Moves, CallsOK, At,
     Res, Key, Idle, Call
<1>7. Served'
  BY <1>0, <1>1, <1>2 DEF Served, CompensatedIsServed, Over, Ends, Lands, Moves, CallsOK,
     At, Res, Key, Idle, Call
<1>8. AllKnow'
  BY <1>0, <1>1, <1>2 DEF OneCall, AllKnow, Knows, Before, Active, Alone, Ends, Lands,
     Moves, CallsOK, At, Res, Key, Idle, Call
<1>9. NotHidden'
  BY <1>2 DEF NotHidden, Alone
<1> QED BY <1>0, <1>2, <1>3, <1>4, <1>5, <1>6, <1>7, <1>8, <1>9, QuietStep

LEMMA UpsertStep ==
  ASSUME IInv, NEW c \in Calls, Upsert(c)
  PROVE  IInv'
<1> USE SagaAssumption DEF IInv, TypeOK
<1>0. At(c, "upsert") /\ ~At(c, "idle")
  BY DEF Upsert, At
<1>1. \/ Ends(c) /\ UNCHANGED inbox
      \/ Lands(c, "findSettled") /\ UNCHANGED inbox
      \/ Lands(c, "awaitBegin") /\ Ask(c, "begin")
  <2>1. \/ Leave(c) /\ UNCHANGED inbox
        \/ Goto(c, "findSettled") /\ UNCHANGED inbox
        \/ Goto(c, "awaitBegin") /\ Ask(c, "begin")
    BY DEF Upsert, SetSaga, At, rpc
  <2> QED BY <2>1, <1>0, GotoLands, LeaveEnds DEF Points, At
<1>2. /\ UNCHANGED <<payment, booking, approved, overlapped>>
      /\ saga' \in {saga, [saga EXCEPT ![Key(c)] = "STARTED"]}
      /\ saga' # saga => saga[Key(c)] = "none"
  BY DEF Upsert, SetSaga, rows, bus, rpc
<1>3. Moves(c) /\ CallsOK'
  BY <1>1 DEF Ends, Lands, Moves
<1>4. TypeOK'
  BY <1>0, <1>3 DEF Upsert, SetSaga, Fault, CallsOK, At, Res, Key, Idle, Ask, Request,
     Call, rows, rpc, bus
<1>5. Callers'
  BY <1>0, <1>1, <1>2 DEF Callers, Request, Ends, Lands, Moves, At, Res, Key, Ask
<1>6. Announced'
  BY <1>0, <1>1, <1>2 DEF Announced, CompletedIsAnnounced, Ends, Lands, Moves, CallsOK, At,
     Res, Key, Idle, Call
<1>7. Served'
  BY <1>0, <1>1, <1>2 DEF Served, CompensatedIsServed, Over, Ends, Lands, Moves, CallsOK,
     At, Res, Key, Idle, Call
<1>8. AllKnow'
  BY <1>0, <1>1, <1>2 DEF OneCall, AllKnow, Knows, Before, Active, Alone, Ends, Lands,
     Moves, CallsOK, At, Res, Key, Idle, Call
<1>9. NotHidden'
  BY <1>0, <1>1, <1>2 DEF AllKnow, Knows, NotHidden, Alone, CallsOK, At, Res, Key, Call
<1> QED BY <1>0, <1>2, <1>3, <1>4, <1>5, <1>6, <1>7, <1>8, <1>9, QuietStep

LEMMA FindSettledStep ==
  ASSUME IInv, NEW c \in Calls, FindSettled(c)
  PROVE  IInv'
<1> USE SagaAssumption DEF IInv, TypeOK
<1>0. At(c, "findSettled") /\ ~At(c, "idle")
  BY DEF FindSettled, At
<1>1. \/ Ends(c) /\ UNCHANGED inbox
      \/ Lands(c, "awaitBegin") /\ Ask(c, "begin")
  <2>1. \/ Leave(c) /\ UNCHANGED inbox
        \/ Goto(c, "awaitBegin") /\ Ask(c, "begin")
    BY DEF FindSettled, At, rpc
  <2> QED BY <2>1, <1>0, GotoLands, LeaveEnds DEF Points, At
<1>2. UNCHANGED <<saga, payment, booking, approved, overlapped>>
  BY DEF FindSettled, rows, bus, rpc
<1>3. Moves(c) /\ CallsOK'
  BY <1>1 DEF Ends, Lands, Moves
<1>4. TypeOK'
  BY <1>0, <1>3 DEF FindSettled, Fault, CallsOK, At, Res, Key, Idle, Ask, Request, Call,
     rows, rpc, bus
<1>5. Callers'
  BY <1>0, <1>1, <1>2 DEF Callers, Request, Ends, Lands, Moves, At, Res, Key, Ask
<1>6. Announced'
  BY <1>0, <1>1, <1>2 DEF Announced, CompletedIsAnnounced, Ends, Lands, Moves, CallsOK, At,
     Res, Key, Idle, Call
<1>7. Served'
  BY <1>0, <1>1, <1>2 DEF Served, CompensatedIsServed, Over, Ends, Lands, Moves, CallsOK,
     At, Res, Key, Idle, Call
<1>8. AllKnow'
  BY <1>0, <1>1, <1>2 DEF OneCall, AllKnow, Knows, Before, Active, Alone, Ends, Lands,
     Moves, CallsOK, At, Res, Key, Idle, Call
<1>9. NotHidden'
  BY <1>2 DEF NotHidden, Alone
<1> QED BY <1>0, <1>2, <1>3, <1>4, <1>5, <1>6, <1>7, <1>8, <1>9, QuietStep

LEMMA GiveUpStep ==
  ASSUME IInv, NEW c \in Calls, GiveUp(c)
  PROVE  IInv'
<1> USE SagaAssumption DEF IInv, TypeOK
<1>0. ~At(c, "idle")
  BY DEF GiveUp, At
<1>1. \/ At(c, "awaitBegin") /\ Lands(c, "failWindow")
      \/ At(c, "awaitCompensate") /\ Lands(c, "compFailed")
  <2>1. \/ At(c, "awaitBegin") /\ Goto(c, "failWindow")
        \/ At(c, "awaitCompensate") /\ Goto(c, "compFailed")
    BY DEF GiveUp, At, rpc
  <2> QED BY <2>1, <1>0, GotoLands DEF Points, At
<1>2. UNCHANGED <<saga, payment, booking, approved, overlapped>>
  BY DEF GiveUp, rows, bus, rpc
<1>3. Moves(c) /\ CallsOK'
  BY <1>1 DEF Lands, Moves
<1>4. TypeOK'
  BY <1>0, <1>3, ForgetKeeps DEF GiveUp, Fault, CallsOK, At, Res, Key, Idle, Call, rows, rpc, bus
<1>5. Callers'
  BY <1>0, <1>1, <1>2 DEF GiveUp, Callers, Request, Lands, Moves, At, Res, Key, Forget
<1>6. Announced'
  BY <1>0, <1>1, <1>2 DEF GiveUp, Announced, CompletedIsAnnounced, Lands, Moves, CallsOK,
     At, Res, Key, Call
<1>7. Served'
  BY <1>0, <1>1, <1>2 DEF GiveUp, Served, CompensatedIsServed, Over, Lands, Moves, CallsOK,
     At, Res, Key, Call
<1>8. AllKnow'
  BY <1>0, <1>1, <1>2 DEF GiveUp, OneCall, AllKnow, Knows, Before, Active, Alone, Lands,
     Moves, CallsOK, At, Res, Key, Idle, Call
<1>9. NotHidden'
  BY <1>2 DEF NotHidden, Alone
<1> QED BY <1>0, <1>2, <1>3, <1>4, <1>5, <1>6, <1>7, <1>8, <1>9, QuietStep

LEMMA FailWindowStep ==
  ASSUME IInv, NEW c \in Calls, FailWindow(c)
  PROVE  IInv'
<1> USE SagaAssumption DEF IInv, TypeOK
<1>0. At(c, "failWindow") /\ ~At(c, "idle")
  BY DEF FailWindow, At
<1>1. Ends(c)
  BY <1>0, GotoLands, LeaveEnds DEF FailWindow, SetSaga, Points
<1>2. /\ UNCHANGED <<inbox, payment, booking, approved, overlapped>>
      /\ saga' \in {saga, [saga EXCEPT ![Key(c)] = "FAILED"]}
  BY DEF FailWindow, SetSaga, rows, bus, rpc
<1>3. Moves(c) /\ CallsOK'
  BY <1>1 DEF Ends, Moves
<1>4. TypeOK'
  BY <1>0, <1>3 DEF FailWindow, SetSaga, Fault, CallsOK, At, Res, Key, Idle, Call, rows, rpc, bus
<1>5. Callers'
  BY <1>0, <1>1, <1>2 DEF Callers, Request, Ends, Moves, At, Res, Key
<1>6. Announced'
  BY <1>0, <1>1, <1>2 DEF Announced, CompletedIsAnnounced, Ends, Moves, CallsOK, At, Res,
     Key, Idle, Call
<1>7. Served'
  BY <1>0, <1>1, <1>2 DEF Served, CompensatedIsServed, Over, Ends, Moves, CallsOK, At, Res,
     Key, Idle, Call
<1>8. AllKnow'
  BY <1>0, <1>1, <1>2 DEF OneCall, AllKnow, Knows, Before, Active, Alone, Ends, Moves,
     CallsOK, At, Res, Key, Idle, Call
<1>9. NotHidden'
  BY <1>0, <1>1, <1>2 DEF AllKnow, Knows, NotHidden, Alone, CallsOK, At, Res, Key, Call
<1> QED BY <1>0, <1>2, <1>3, <1>4, <1>5, <1>6, <1>7, <1>8, <1>9, QuietStep

LEMMA OpenStep ==
  ASSUME IInv, NEW c \in Calls, Open(c)
  PROVE  IInv'
<1> USE SagaAssumption DEF IInv, TypeOK
<1>0. At(c, "open") /\ ~At(c, "idle")
  BY DEF Open, At
<1>1. \/ Lands(c, "findApproved") /\ call[c].reply = "CONFIRMED"
         /\ saga' = [saga EXCEPT ![Key(c)] = "PAYMENT_WINDOW_OPEN"]
      \/ Lands(c, "create") /\ saga' = [saga EXCEPT ![Key(c)] = "PAYMENT_WINDOW_OPEN"]
      \/ Lands(c, "failWindow") /\ saga' \in {saga, [saga EXCEPT ![Key(c)] = "PAYMENT_WINDOW_OPEN"]}
  BY <1>0, GotoLands DEF Open, SetSaga, Points
<1>2. UNCHANGED <<inbox, payment, booking, approved, overlapped>>
  BY DEF Open, SetSaga, rows, bus, rpc
<1>3. Moves(c) /\ CallsOK'
  BY <1>1 DEF Lands, Moves
<1>4. TypeOK'
  BY <1>0, <1>3 DEF Open, SetSaga, Fault, CallsOK, At, Res, Key, Idle, Call, rows, rpc, bus
<1>5. Callers'
  BY <1>0, <1>1, <1>2 DEF Callers, Request, Lands, Moves, At, Res, Key
<1>6. Announced'
  BY <1>0, <1>1, <1>2 DEF Announced, CompletedIsAnnounced, Lands, Moves, CallsOK, At, Res, Key, Call
<1>7. Served'
  BY <1>0, <1>1, <1>2 DEF Served, CompensatedIsServed, Over, Lands, Moves, CallsOK, At,
     Res, Key, Call
<1>8. AllKnow'
  BY <1>0, <1>1, <1>2 DEF OneCall, AllKnow, Knows, Before, Active, Alone, Lands, Moves,
     CallsOK, At, Res, Key, Idle, Call
<1>9. NotHidden'
  BY <1>0, <1>1, <1>2 DEF AllKnow, Knows, NotHidden, Alone, CallsOK, At, Res, Key, Call
<1> QED BY <1>0, <1>2, <1>3, <1>4, <1>5, <1>6, <1>7, <1>8, <1>9, QuietStep

LEMMA FindApprovedStep ==
  ASSUME IInv, NEW c \in Calls, FindApproved(c)
  PROVE  IInv'
<1> USE SagaAssumption DEF IInv, TypeOK
<1>0. At(c, "findApproved") /\ ~At(c, "idle")
  BY DEF FindApproved, At
<1>1. \/ Ends(c)
      \/ Lands(c, "replay")
      \/ Lands(c, "create")
  BY <1>0, GotoLands, LeaveEnds DEF FindApproved, Select, Points
<1>2. UNCHANGED <<saga, inbox, payment, booking, approved, overlapped>>
  BY DEF FindApproved, Select, rows, bus, rpc
<1>3. Moves(c) /\ CallsOK'
  BY <1>1 DEF Ends, Lands, Moves
<1>4. TypeOK'
  BY <1>0, <1>3 DEF FindApproved, Select, Fault, CallsOK, At, Res, Key, Idle, Call, rows, rpc, bus
<1>5. Callers'
  BY <1>0, <1>1, <1>2 DEF Callers, Request, Ends, Lands, Moves, At, Res, Key
<1>6. Announced'
  BY <1>0, <1>1, <1>2 DEF Announced, CompletedIsAnnounced, Ends, Lands, Moves, CallsOK, At,
     Res, Key, Idle, Call
<1>7. Served'
  BY <1>0, <1>1, <1>2 DEF Served, CompensatedIsServed, Over, Ends, Lands, Moves, CallsOK,
     At, Res, Key, Idle, Call
<1>8. AllKnow'
  BY <1>0, <1>1, <1>2 DEF OneCall, AllKnow, Knows, Before, Active, Alone, Ends, Lands,
     Moves, CallsOK, At, Res, Key, Idle, Call
<1>9. NotHidden'
  BY <1>2 DEF NotHidden, Alone
<1> QED BY <1>0, <1>2, <1>3, <1>4, <1>5, <1>6, <1>7, <1>8, <1>9, QuietStep

LEMMA ReplayStep ==
  ASSUME IInv, NEW c \in Calls, Replay(c)
  PROVE  IInv'
<1> USE SagaAssumption DEF IInv, TypeOK
<1>0. At(c, "replay") /\ ~At(c, "idle")
  BY DEF Replay, At
<1>1. Ends(c)
  BY <1>0, GotoLands, LeaveEnds DEF Replay, SetSaga, Points
<1>2. /\ UNCHANGED <<inbox, payment, booking, approved, overlapped>>
      /\ saga' \in {saga, [saga EXCEPT ![Key(c)] = "COMPLETED"]}
  BY DEF Replay, SetSaga, rows, bus, rpc
<1>3. Moves(c) /\ CallsOK'
  BY <1>1 DEF Ends, Moves
<1>4. TypeOK'
  BY <1>0, <1>3 DEF Replay, SetSaga, Fault, CallsOK, At, Res, Key, Idle, Call, rows, rpc, bus
<1>5. Callers'
  BY <1>0, <1>1, <1>2 DEF Callers, Request, Ends, Moves, At, Res, Key
<1>6. Announced'
  <2>1. Key(c) \in Keys /\ Res(c) \in approved
    BY <1>0 DEF Announced, At, CallsOK, Call, Res, Key, Idle
  <2>2. CompletedIsAnnounced'
    BY <1>2, <2>1 DEF Announced, CompletedIsAnnounced, Res
  <2> QED BY <2>2, <1>0, <1>1, <1>2 DEF Announced, CompletedIsAnnounced, Ends, Moves,
     CallsOK, At, Res, Key, Idle, Call
<1>7. Served'
  BY <1>0, <1>1, <1>2 DEF Served, CompensatedIsServed, Over, Ends, Moves, CallsOK, At, Res,
     Key, Idle, Call
<1>8. AllKnow'
  BY <1>0, <1>1, <1>2 DEF OneCall, AllKnow, Knows, Before, Active, Alone, Ends, Moves,
     CallsOK, At, Res, Key, Idle, Call
<1>9. NotHidden'
  BY <1>0, <1>1, <1>2 DEF AllKnow, Knows, NotHidden, Alone, CallsOK, At, Res, Key, Call
<1> QED BY <1>0, <1>2, <1>3, <1>4, <1>5, <1>6, <1>7, <1>8, <1>9, QuietStep

LEMMA LinkStep ==
  ASSUME IInv, NEW c \in Calls, Link(c)
  PROVE  IInv'
<1> USE SagaAssumption DEF IInv, TypeOK
<1>0. At(c, "link") /\ ~At(c, "idle")
  BY DEF Link, At
<1>1. \/ Ends(c)
      \/ Lands(c, "charge")
  BY <1>0, GotoLands, LeaveEnds DEF Link, Select, Points
<1>2. UNCHANGED <<saga, inbox, payment, booking, approved, overlapped>>
  BY DEF Link, Select, rows, bus, rpc
<1>3. Moves(c) /\ CallsOK'
  BY <1>1 DEF Ends, Lands, Moves
<1>4. TypeOK'
  BY <1>0, <1>3 DEF Link, Select, Fault, CallsOK, At, Res, Key, Idle, Call, rows, rpc, bus
<1>5. Callers'
  BY <1>0, <1>1, <1>2 DEF Callers, Request, Ends, Lands, Moves, At, Res, Key
<1>6. Announced'
  BY <1>0, <1>1, <1>2 DEF Announced, CompletedIsAnnounced, Ends, Lands, Moves, CallsOK, At,
     Res, Key, Idle, Call
<1>7. Served'
  BY <1>0, <1>1, <1>2 DEF Served, CompensatedIsServed, Over, Ends, Lands, Moves, CallsOK,
     At, Res, Key, Idle, Call
<1>8. AllKnow'
  BY <1>0, <1>1, <1>2 DEF OneCall, AllKnow, Knows, Before, Active, Alone, Ends, Lands,
     Moves, CallsOK, At, Res, Key, Idle, Call
<1>9. NotHidden'
  BY <1>2 DEF NotHidden, Alone
<1> QED BY <1>0, <1>2, <1>3, <1>4, <1>5, <1>6, <1>7, <1>8, <1>9, QuietStep

LEMMA ChargedStep ==
  ASSUME IInv, NEW c \in Calls, Charged(c)
  PROVE  IInv'
<1> USE SagaAssumption DEF IInv, TypeOK
<1>0. At(c, "charged") /\ ~At(c, "idle")
  BY DEF Charged, At
<1>1. \/ Lands(c, "publishApproved")
      \/ Lands(c, "recheck")
  BY <1>0, GotoLands DEF Charged, SetSaga, Points
<1>2. /\ UNCHANGED <<inbox, payment, booking, approved, overlapped>>
      /\ saga' \in {saga, [saga EXCEPT ![Key(c)] = "CHARGED"]}
  BY DEF Charged, SetSaga, rows, bus, rpc
<1>3. Moves(c) /\ CallsOK'
  BY <1>1 DEF Lands, Moves
<1>4. TypeOK'
  BY <1>0, <1>3 DEF Charged, SetSaga, Fault, CallsOK, At, Res, Key, Idle, Call, rows, rpc, bus
<1>5. Callers'
  BY <1>0, <1>1, <1>2 DEF Callers, Request, Lands, Moves, At, Res, Key
<1>6. Announced'
  BY <1>0, <1>1, <1>2 DEF Announced, CompletedIsAnnounced, Lands, Moves, CallsOK, At, Res, Key, Call
<1>7. Served'
  BY <1>0, <1>1, <1>2 DEF Served, CompensatedIsServed, Over, Lands, Moves, CallsOK, At,
     Res, Key, Call
<1>8. AllKnow'
  BY <1>0, <1>1, <1>2 DEF OneCall, AllKnow, Knows, Before, Active, Alone, Lands, Moves,
     CallsOK, At, Res, Key, Idle, Call
<1>9. NotHidden'
  BY <1>0, <1>1, <1>2 DEF AllKnow, Knows, NotHidden, Alone, CallsOK, At, Res, Key, Call
<1> QED BY <1>0, <1>2, <1>3, <1>4, <1>5, <1>6, <1>7, <1>8, <1>9, QuietStep

LEMMA CompleteStep ==
  ASSUME IInv, NEW c \in Calls, Complete(c)
  PROVE  IInv'
<1> USE SagaAssumption DEF IInv, TypeOK
<1>0. At(c, "complete") /\ ~At(c, "idle")
  BY DEF Complete, At
<1>1. \/ Ends(c)
      \/ Lands(c, "recheck")
  BY <1>0, GotoLands, LeaveEnds DEF Complete, SetSaga, Points
<1>2. /\ UNCHANGED <<inbox, payment, booking, approved, overlapped>>
      /\ saga' \in {saga, [saga EXCEPT ![Key(c)] = "COMPLETED"]}
  BY DEF Complete, SetSaga, rows, bus, rpc
<1>3. Moves(c) /\ CallsOK'
  BY <1>1 DEF Ends, Lands, Moves
<1>4. TypeOK'
  BY <1>0, <1>3 DEF Complete, SetSaga, Fault, CallsOK, At, Res, Key, Idle, Call, rows, rpc, bus
<1>5. Callers'
  BY <1>0, <1>1, <1>2 DEF Callers, Request, Ends, Lands, Moves, At, Res, Key
<1>6. Announced'
  BY <1>0, <1>1, <1>2 DEF Announced, CompletedIsAnnounced, Ends, Lands, Moves, CallsOK, At,
     Res, Key, Idle, Call
<1>7. Served'
  BY <1>0, <1>1, <1>2 DEF Served, CompensatedIsServed, Over, Ends, Lands, Moves, CallsOK,
     At, Res, Key, Idle, Call
<1>8. AllKnow'
  BY <1>0, <1>1, <1>2 DEF OneCall, AllKnow, Knows, Before, Active, Alone, Ends, Lands,
     Moves, CallsOK, At, Res, Key, Idle, Call
<1>9. NotHidden'
  BY <1>0, <1>1, <1>2 DEF AllKnow, Knows, NotHidden, Alone, CallsOK, At, Res, Key, Call
<1> QED BY <1>0, <1>2, <1>3, <1>4, <1>5, <1>6, <1>7, <1>8, <1>9, QuietStep

LEMMA PublishFailedStep ==
  ASSUME IInv, NEW c \in Calls, PublishFailed(c)
  PROVE  IInv'
<1> USE SagaAssumption DEF IInv, TypeOK
<1>0. At(c, "publishFailed") /\ ~At(c, "idle")
  BY DEF PublishFailed, At
<1>1. \/ Lands(c, "compensate")
      \/ Lands(c, "publishFailed")
      \/ Lands(c, "recheck")
  <2>1. \/ Goto(c, "compensate")
        \/ call[c].pc = "publishFailed" /\ PublishFails(c)
    BY DEF PublishFailed, At, rpc
  <2> QED BY <2>1, <1>0, GotoLands, PublishFailsLands DEF Points, At
<1>2. UNCHANGED <<saga, inbox, payment, booking, approved, overlapped>>
  BY DEF PublishFailed, rows, bus, rpc
<1>3. Moves(c) /\ CallsOK'
  BY <1>1 DEF Lands, Moves
<1>4. TypeOK'
  BY <1>0, <1>3 DEF PublishFailed, Fault, CallsOK, At, Res, Key, Idle, Call, rows, rpc, bus
<1>5. Callers'
  BY <1>0, <1>1, <1>2 DEF Callers, Request, Lands, Moves, At, Res, Key
<1>6. Announced'
  BY <1>0, <1>1, <1>2 DEF Announced, CompletedIsAnnounced, Lands, Moves, CallsOK, At, Res, Key, Call
<1>7. Served'
  BY <1>0, <1>1, <1>2 DEF Served, CompensatedIsServed, Over, Lands, Moves, CallsOK, At,
     Res, Key, Call
<1>8. AllKnow'
  BY <1>0, <1>1, <1>2 DEF OneCall, AllKnow, Knows, Before, Active, Alone, Lands, Moves,
     CallsOK, At, Res, Key, Idle, Call
<1>9. NotHidden'
  BY <1>2 DEF NotHidden, Alone
<1> QED BY <1>0, <1>2, <1>3, <1>4, <1>5, <1>6, <1>7, <1>8, <1>9, QuietStep

LEMMA RecheckStep ==
  ASSUME IInv, NEW c \in Calls, Recheck(c)
  PROVE  IInv'
<1> USE SagaAssumption DEF IInv, TypeOK
<1>0. At(c, "recheck") /\ ~At(c, "idle")
  BY DEF Recheck, At
<1>1. \/ Ends(c)
      \/ Lands(c, "postCharge") /\ payment[Key(c)] = "APPROVED"
      \/ Lands(c, "compensate") /\ payment[Key(c)] # "APPROVED"
  <2>1. \/ Leave(c)
        \/ Goto(c, "postCharge") /\ payment[Key(c)] = "APPROVED"
        \/ Unwind(c) /\ payment[Key(c)] # "APPROVED"
    BY DEF Recheck, Select, At, rpc
  <2> QED BY <2>1, <1>0, GotoLands, LeaveEnds, UnwindLands DEF Points, At
<1>2. UNCHANGED <<saga, inbox, payment, booking, approved, overlapped>>
  BY DEF Recheck, Select, rows, bus, rpc
<1>3. Moves(c) /\ CallsOK'
  BY <1>1 DEF Ends, Lands, Moves
<1>4. TypeOK'
  BY <1>0, <1>3 DEF Recheck, Select, Fault, CallsOK, At, Res, Key, Idle, Call, rows, rpc, bus
<1>5. Callers'
  BY <1>0, <1>1, <1>2 DEF Callers, Request, Ends, Lands, Moves, At, Res, Key
<1>6. Announced'
  BY <1>0, <1>1, <1>2 DEF Announced, CompletedIsAnnounced, Ends, Lands, Moves, CallsOK, At,
     Res, Key, Idle, Call
<1>7. Served'
  BY <1>0, <1>1, <1>2 DEF Served, CompensatedIsServed, Over, Ends, Lands, Moves, CallsOK,
     At, Res, Key, Idle, Call
<1>8. AllKnow'
  BY <1>0, <1>1, <1>2 DEF OneCall, AllKnow, Knows, Before, Active, Alone, Ends, Lands,
     Moves, CallsOK, At, Res, Key, Idle, Call
<1>9. NotHidden'
  BY <1>2 DEF NotHidden, Alone
<1> QED BY <1>0, <1>2, <1>3, <1>4, <1>5, <1>6, <1>7, <1>8, <1>9, QuietStep

LEMMA PostChargeStep ==
  ASSUME IInv, NEW c \in Calls, PostCharge(c)
  PROVE  IInv'
<1> USE SagaAssumption DEF IInv, TypeOK
<1>0. At(c, "postCharge") /\ ~At(c, "idle")
  BY DEF PostCharge, At
<1>1. Ends(c)
  BY <1>0, GotoLands, LeaveEnds DEF PostCharge, SetSaga, Points
<1>2. /\ UNCHANGED <<inbox, payment, booking, approved, overlapped>>
      /\ saga' \in {saga, [saga EXCEPT ![Key(c)] = "FAILED"]}
  BY DEF PostCharge, SetSaga, rows, bus, rpc
<1>3. Moves(c) /\ CallsOK'
  BY <1>1 DEF Ends, Moves
<1>4. TypeOK'
  BY <1>0, <1>3 DEF PostCharge, SetSaga, Fault, CallsOK, At, Res, Key, Idle, Call, rows, rpc, bus
<1>5. Callers'
  BY <1>0, <1>1, <1>2 DEF Callers, Request, Ends, Moves, At, Res, Key
<1>6. Announced'
  BY <1>0, <1>1, <1>2 DEF Announced, CompletedIsAnnounced, Ends, Moves, CallsOK, At, Res,
     Key, Idle, Call
<1>7. Served'
  BY <1>0, <1>1, <1>2 DEF Served, CompensatedIsServed, Over, Ends, Moves, CallsOK, At, Res,
     Key, Idle, Call
<1>8. AllKnow'
  BY <1>0, <1>1, <1>2 DEF OneCall, AllKnow, Knows, Before, Active, Alone, Ends, Moves,
     CallsOK, At, Res, Key, Idle, Call
<1>9. NotHidden'
  BY <1>0, <1>1, <1>2 DEF AllKnow, Knows, NotHidden, Alone, CallsOK, At, Res, Key, Call
<1> QED BY <1>0, <1>2, <1>3, <1>4, <1>5, <1>6, <1>7, <1>8, <1>9, QuietStep

LEMMA CompensateStep ==
  ASSUME IInv, NEW c \in Calls, Compensate(c)
  PROVE  IInv'
<1> USE SagaAssumption DEF IInv, TypeOK
<1>0. At(c, "compensate") /\ ~At(c, "idle")
  BY DEF Compensate, At
<1>1. \/ Lands(c, "awaitCompensate") /\ Ask(c, "compensate")
      \/ Ends(c) /\ UNCHANGED inbox
      \/ Lands(c, "recheck") /\ UNCHANGED inbox
  <2>1. \/ Goto(c, "awaitCompensate") /\ Ask(c, "compensate")
        \/ Rethrow(c) /\ UNCHANGED inbox
    BY DEF Compensate, SetSaga, At, rpc
  <2> QED BY <2>1, <1>0, GotoLands, LeaveEnds, RethrowLands DEF Points, At
<1>2. /\ UNCHANGED <<payment, booking, approved, overlapped>>
      /\ saga' \in {saga, [saga EXCEPT ![Key(c)] = "COMPENSATING"]}
  BY DEF Compensate, SetSaga, rows, bus, rpc
<1>3. Moves(c) /\ CallsOK'
  BY <1>1 DEF Ends, Lands, Moves
<1>4. TypeOK'
  BY <1>0, <1>3 DEF Compensate, SetSaga, Fault, CallsOK, At, Res, Key, Idle, Ask, Request,
     Call, rows, rpc, bus
<1>5. Callers'
  BY <1>0, <1>1, <1>2 DEF Callers, Request, Ends, Lands, Moves, At, Res, Key, Ask
<1>6. Announced'
  BY <1>0, <1>1, <1>2 DEF Announced, CompletedIsAnnounced, Ends, Lands, Moves, CallsOK, At,
     Res, Key, Idle, Call
<1>7. Served'
  BY <1>0, <1>1, <1>2 DEF Served, CompensatedIsServed, Over, Ends, Lands, Moves, CallsOK,
     At, Res, Key, Idle, Call
<1>8. AllKnow'
  BY <1>0, <1>1, <1>2 DEF OneCall, AllKnow, Knows, Before, Active, Alone, Ends, Lands,
     Moves, CallsOK, At, Res, Key, Idle, Call
<1>9. NotHidden'
  BY <1>0, <1>1, <1>2 DEF AllKnow, Knows, NotHidden, Alone, CallsOK, At, Res, Key, Call
<1> QED BY <1>0, <1>2, <1>3, <1>4, <1>5, <1>6, <1>7, <1>8, <1>9, QuietStep

LEMMA CompensatedStep ==
  ASSUME IInv, NEW c \in Calls, Compensated(c)
  PROVE  IInv'
<1> USE SagaAssumption DEF IInv, TypeOK
<1>0. At(c, "compensated") /\ ~At(c, "idle")
  BY DEF Compensated, At
<1>1. \/ Ends(c)
      \/ Lands(c, "compFailed")
  BY <1>0, GotoLands, LeaveEnds DEF Compensated, SetSaga, Points
<1>2. /\ UNCHANGED <<inbox, payment, booking, approved, overlapped>>
      /\ saga' \in {saga, [saga EXCEPT ![Key(c)] = "COMPENSATED"]}
  BY DEF Compensated, SetSaga, rows, bus, rpc
<1>3. Moves(c) /\ CallsOK'
  BY <1>1 DEF Ends, Lands, Moves
<1>4. TypeOK'
  BY <1>0, <1>3 DEF Compensated, SetSaga, Fault, CallsOK, At, Res, Key, Idle, Call, rows, rpc, bus
<1>5. Callers'
  BY <1>0, <1>1, <1>2 DEF Callers, Request, Ends, Lands, Moves, At, Res, Key
<1>6. Announced'
  BY <1>0, <1>1, <1>2 DEF Announced, CompletedIsAnnounced, Ends, Lands, Moves, CallsOK, At,
     Res, Key, Idle, Call
<1>7. Served'
  BY <1>0, <1>1, <1>2 DEF Served, CompensatedIsServed, Over, Ends, Lands, Moves, CallsOK,
     At, Res, Key, Idle, Call
<1>8. AllKnow'
  BY <1>0, <1>1, <1>2 DEF OneCall, AllKnow, Knows, Before, Active, Alone, Ends, Lands,
     Moves, CallsOK, At, Res, Key, Idle, Call
<1>9. NotHidden'
  BY <1>0, <1>1, <1>2 DEF AllKnow, Knows, NotHidden, Alone, CallsOK, At, Res, Key, Call
<1> QED BY <1>0, <1>2, <1>3, <1>4, <1>5, <1>6, <1>7, <1>8, <1>9, QuietStep

LEMMA CompFailedStep ==
  ASSUME IInv, NEW c \in Calls, CompFailed(c)
  PROVE  IInv'
<1> USE SagaAssumption DEF IInv, TypeOK
<1>0. At(c, "compFailed") /\ ~At(c, "idle")
  BY DEF CompFailed, At
<1>1. \/ Ends(c)
      \/ Lands(c, "recheck")
  BY <1>0, GotoLands, LeaveEnds, RethrowLands DEF CompFailed, SetSaga, Points
<1>2. /\ UNCHANGED <<inbox, payment, booking, approved, overlapped>>
      /\ saga' \in {saga, [saga EXCEPT ![Key(c)] = "FAILED"]}
  BY DEF CompFailed, SetSaga, rows, bus, rpc
<1>3. Moves(c) /\ CallsOK'
  BY <1>1 DEF Ends, Lands, Moves
<1>4. TypeOK'
  BY <1>0, <1>3 DEF CompFailed, SetSaga, Fault, CallsOK, At, Res, Key, Idle, Call, rows, rpc, bus
<1>5. Callers'
  BY <1>0, <1>1, <1>2 DEF Callers, Request, Ends, Lands, Moves, At, Res, Key
<1>6. Announced'
  BY <1>0, <1>1, <1>2 DEF Announced, CompletedIsAnnounced, Ends, Lands, Moves, CallsOK, At,
     Res, Key, Idle, Call
<1>7. Served'
  BY <1>0, <1>1, <1>2 DEF Served, CompensatedIsServed, Over, Ends, Lands, Moves, CallsOK,
     At, Res, Key, Idle, Call
<1>8. AllKnow'
  BY <1>0, <1>1, <1>2 DEF OneCall, AllKnow, Knows, Before, Active, Alone, Ends, Lands,
     Moves, CallsOK, At, Res, Key, Idle, Call
<1>9. NotHidden'
  BY <1>0, <1>1, <1>2 DEF AllKnow, Knows, NotHidden, Alone, CallsOK, At, Res, Key, Call
<1> QED BY <1>0, <1>2, <1>3, <1>4, <1>5, <1>6, <1>7, <1>8, <1>9, QuietStep

LEMMA CreateStep ==
  ASSUME IInv, NEW c \in Calls, Create(c)
  PROVE  IInv'
<1> USE SagaAssumption DEF IInv, TypeOK
<1> DEFINE row == IF payment[Key(c)] = "none" THEN "PENDING" ELSE payment[Key(c)]
<1>0. At(c, "create") /\ ~At(c, "idle") /\ Key(c) \in Keys /\ Res(c) \in Reservations
  BY DEF Create, At, CallsOK, Call, Key, Idle, Res
<1>1. \/ Lands(c, "link") /\ payment' = [payment EXCEPT ![Key(c)] = row]
      \/ Lands(c, "compensate") /\ payment' \in {payment, [payment EXCEPT ![Key(c)] = row]}
  BY <1>0, GotoLands, UnwindLands DEF Create, SetPayment, Points
<1>2. UNCHANGED <<saga, inbox, booking, approved, overlapped>>
  BY DEF Create, SetPayment, rpc, bus
<1>3. Moves(c) /\ CallsOK' /\ Writes(c)
  BY <1>0, <1>1, <1>2 DEF Lands, Moves, Writes
<1>4. Alone(Res(c)) => payment[Key(c)] = "none" /\ Active(Res(c)) = {} /\ saga[Key(c)] # "COMPENSATED"
  BY <1>0 DEF AllKnow, Knows, Before, At
<1>5. TypeOK'
  BY <1>0, <1>3 DEF Create, SetPayment, Fault, rpc, bus
<1>6. Callers'
  BY <1>0, <1>1, <1>2 DEF Callers, Request, Lands, Moves, At, Res, Key
<1>7. Announced'
  BY <1>0, <1>1, <1>2 DEF Announced, CompletedIsAnnounced, Lands, Moves, CallsOK, At, Res, Key
<1>8. Served'
  BY <1>0, <1>1, <1>2 DEF Served, CompensatedIsServed, Over, Lands, Moves, At, Res, Key
<1>9. Alone(Res(c)) =>
        /\ payment'[Key(c)] \in {"none", "PENDING"}
        /\ Active(Res(c))' \subseteq {Key(c)}
        /\ call'[c].pc = "link" => payment'[Key(c)] = "PENDING"
  <2>1. \A k \in Keys : k # Key(c) => payment'[k] = payment[k]
    BY <1>3 DEF Writes
  <2>2. Res(c)' = Res(c)
    BY <1>1 DEF Lands, Res, Key
  <2>3. Alone(Res(c)) => payment'[Key(c)] \in {"none", "PENDING"}
    BY <1>0, <1>1, <1>4
  <2>4. Alone(Res(c)) => Active(Res(c))' \subseteq {Key(c)}
    BY <1>4, <2>1, <2>2 DEF Active
  <2> QED BY <1>0, <1>1, <1>4, <2>3, <2>4 DEF Lands
<1>10. AllKnow'
  <2>1. Alone(Res(c)) => Knows(c)'
    BY <1>0, <1>1, <1>2, <1>4, <1>9 DEF Knows, Before, Lands, Res, Key
  <2> QED BY <1>0, <1>1, <1>2, <1>3, <2>1, OthersKnow DEF AllKnow, Lands, Res, Key, Alone
<1>11. OneCall'
  BY <1>0, <1>1, <1>2 DEF OneCall, Lands, Moves, At, Res, Key, Alone
<1>12. OneActive' /\ AnnouncedIsPaid'
  <2>1. Res(c)' = Res(c)
    BY <1>1 DEF Lands, Res, Key
  <2>2. Alone(Res(c)) => AtMostOneActive(Res(c))'
    BY <1>9, <2>1 DEF AtMostOneActive
  <2>3. Alone(Res(c)) => Res(c) \notin approved
    BY <1>0, <1>4 DEF AnnouncedIsPaid, Paid
  <2> QED BY <1>2, <1>3, <2>1, <2>2, <2>3, OthersPaid DEF OneActive, AnnouncedIsPaid,
     AtMostOneActive, Alone
<1>13. NotHidden'
  BY <1>0, <1>2, <1>3, <1>9 DEF NotHidden, Writes, Alone, Res, Key
<1> QED BY <1>5, <1>6, <1>7, <1>8, <1>10, <1>11, <1>12, <1>13

LEMMA ChargeStep ==
  ASSUME IInv, NEW c \in Calls, Charge(c)
  PROVE  IInv'
<1> USE SagaAssumption DEF IInv, TypeOK
<1>0. At(c, "charge") /\ ~At(c, "idle") /\ Key(c) \in Keys /\ Res(c) \in Reservations
  BY DEF Charge, At, CallsOK, Call, Key, Idle, Res
<1>1. \/ Lands(c, "charged") /\ payment' = [payment EXCEPT ![Key(c)] = "APPROVED"]
      \/ Lands(c, "publishFailed") /\ payment' = [payment EXCEPT ![Key(c)] = "FAILED"]
      \/ /\ Lands(c, "recheck")
         /\ \/ payment' = payment
            \/ payment' = [payment EXCEPT ![Key(c)] = "APPROVED"]
            \/ payment' = [payment EXCEPT ![Key(c)] = "FAILED"]
  BY <1>0, GotoLands DEF Charge, SetPayment, Points
<1>2. UNCHANGED <<saga, inbox, booking, approved, overlapped>>
  BY DEF Charge, SetPayment, rpc, bus
<1>3. Moves(c) /\ CallsOK' /\ Writes(c) /\ Res(c)' = Res(c)
  BY <1>0, <1>1, <1>2 DEF Lands, Moves, Writes, Res, Key
<1>4. Alone(Res(c)) =>
        payment[Key(c)] = "PENDING" /\ Active(Res(c)) \subseteq {Key(c)} /\ saga[Key(c)] # "COMPENSATED"
  BY <1>0 DEF AllKnow, Knows, Before, At
<1>5. TypeOK'
  BY <1>0, <1>3 DEF Charge, SetPayment, Fault, rpc, bus
<1>6. Callers'
  BY <1>0, <1>1, <1>2 DEF Callers, Request, Lands, Moves, At, Res, Key
<1>7. Announced'
  BY <1>0, <1>1, <1>2 DEF Announced, CompletedIsAnnounced, Lands, Moves, CallsOK, At, Res, Key
<1>8. Served'
  BY <1>0, <1>1, <1>2 DEF Served, CompensatedIsServed, Over, Lands, Moves, At, Res, Key
<1>9. Alone(Res(c)) => Active(Res(c))' \subseteq {Key(c)}
  <2>1. \A k \in Keys : k # Key(c) => payment'[k] = payment[k]
    BY <1>3 DEF Writes
  <2> QED BY <1>3, <1>4, <2>1 DEF Active
<1>10. AllKnow'
  <2>1. Alone(Res(c)) => Knows(c)'
    BY <1>0, <1>1, <1>2, <1>4, <1>9 DEF Knows, Before, Lands, Res, Key
  <2> QED BY <1>0, <1>1, <1>2, <1>3, <2>1, OthersKnow DEF AllKnow, Lands, Res, Key, Alone
<1>11. OneCall'
  BY <1>0, <1>1, <1>2 DEF OneCall, Lands, Moves, At, Res, Key, Alone
<1>12. OneActive' /\ AnnouncedIsPaid'
  <2>1. Alone(Res(c)) => AtMostOneActive(Res(c))'
    BY <1>3, <1>9 DEF AtMostOneActive
  <2>2. Alone(Res(c)) => Res(c) \notin approved
    BY <1>0, <1>4 DEF AnnouncedIsPaid, Paid
  <2> QED BY <1>2, <1>3, <2>1, <2>2, OthersPaid DEF OneActive, AnnouncedIsPaid,
     AtMostOneActive, Alone
<1>13. NotHidden'
  BY <1>0, <1>2, <1>3, <1>4 DEF NotHidden, Writes, Alone, Res, Key
<1> QED BY <1>5, <1>6, <1>7, <1>8, <1>10, <1>11, <1>12, <1>13

LEMMA PublishApprovedStep ==
  ASSUME IInv, NEW c \in Calls, PublishApproved(c)
  PROVE  IInv'
<1> USE SagaAssumption DEF IInv, TypeOK
<1>0. At(c, "publishApproved") /\ ~At(c, "idle") /\ Key(c) \in Keys /\ Res(c) \in Reservations
  BY DEF PublishApproved, At, CallsOK, Call, Key, Idle, Res
<1>1. \/ Lands(c, "complete") /\ approved' = approved \cup {Res(c)}
      \/ (Lands(c, "publishApproved") \/ Lands(c, "recheck")) /\ UNCHANGED approved
  <2>1. \/ Goto(c, "complete") /\ approved' = approved \cup {Res(c)}
        \/ PublishFails(c) /\ call[c].pc = "publishApproved" /\ UNCHANGED approved
    BY DEF PublishApproved, At
  <2> QED BY <2>1, <1>0, GotoLands, PublishFailsLands DEF Points
<1>2. UNCHANGED <<saga, payment, inbox, booking, overlapped>>
  BY DEF PublishApproved, rows, rpc
<1>3. Moves(c) /\ CallsOK' /\ Writes(c) /\ Res(c)' = Res(c)
  BY <1>0, <1>1, <1>2 DEF Lands, Moves, Writes, Res, Key
<1>4. Alone(Res(c)) => payment[Key(c)] = "APPROVED" /\ Active(Res(c)) \subseteq {Key(c)}
  BY <1>0 DEF AllKnow, Knows, Before, At
<1>5. TypeOK'
  BY <1>0, <1>1, <1>3 DEF PublishApproved, rows, rpc
<1>6. Callers'
  BY <1>0, <1>1, <1>2 DEF Callers, Request, Lands, Moves, At, Res, Key
<1>7. Announced'
  BY <1>0, <1>1, <1>2 DEF Announced, CompletedIsAnnounced, Lands, Moves, CallsOK, At, Res, Key
<1>8. Served'
  BY <1>0, <1>1, <1>2 DEF Served, CompensatedIsServed, Over, Lands, Moves, At, Res, Key
<1>9. AllKnow'
  BY <1>0, <1>1, <1>2 DEF OneCall, AllKnow, Knows, Before, Active, Alone, Lands, Moves,
     CallsOK, At, Res, Key
<1>10. OneCall'
  BY <1>0, <1>1, <1>2 DEF OneCall, Lands, Moves, At, Res, Key, Alone
<1>11. OneActive' /\ AnnouncedIsPaid'
  <2>1. Alone(Res(c)) => Paid(Res(c))
    BY <1>0, <1>4 DEF Paid, Active, Res
  <2>2. approved' \subseteq approved \cup {Res(c)}
    BY <1>1
  <2> QED BY <1>2, <2>1, <2>2 DEF OneActive, AnnouncedIsPaid, AtMostOneActive, Paid, Active, Alone
<1>12. NotHidden'
  BY <1>2 DEF NotHidden, Alone
<1> QED BY <1>5, <1>6, <1>7, <1>8, <1>9, <1>10, <1>11, <1>12

\* A second call of one reservation ends what is said of its payments.
LEMMA StartStep ==
  ASSUME IInv, NEW c \in Calls, NEW k \in Keys, Start(c, k)
  PROVE  IInv'
<1> USE SagaAssumption DEF IInv, TypeOK
<1> DEFINE new == [pc |-> "findActive", key |-> k, reply |-> "none", tries |-> 0, caught |-> FALSE]
<1>1. /\ At(c, "idle") /\ payment[k] = "none"
      /\ call' = [call EXCEPT ![c] = new]
      /\ UNCHANGED <<saga, payment, inbox, booking, approved>>
  BY DEF Start, Begun, rows, rpc, bus
<1>2. new \in Call /\ new.key # NoKey
  BY DEF Call, Points, NoKey
<1>3. /\ call'[c] = new
      /\ \A d \in Calls : d # c => call'[d] = call[d]
      /\ CallsOK'
  BY <1>1, <1>2 DEF CallsOK
<1> HIDE DEF new
<1>4. new.pc = "findActive" /\ new.key = k /\ new.reply = "none"
  BY DEF new
<1>5. /\ overlapped' \in SUBSET Reservations /\ overlapped \subseteq overlapped'
      /\ Alone(resOf[k])' => \A d \in Calls : ~Serves(d, resOf[k])
  BY DEF Start, Alone
<1>6. TypeOK'
  BY <1>3, <1>5 DEF Start, rows, rpc, bus
<1>7. Callers'
  BY <1>1, <1>3, <1>4 DEF Callers, Request, At, Res, Key
<1>8. Announced'
  BY <1>1, <1>3, <1>4 DEF Announced, CompletedIsAnnounced, CallsOK, At, Res, Key
<1>9. Served'
  BY <1>1, <1>3, <1>4 DEF Served, CompensatedIsServed, Over, At, Res, Key
<1>10. AllKnow'
  BY <1>1, <1>3, <1>4, <1>5 DEF AllKnow, Knows, Before, Active, Alone, CallsOK, At, Res, Key
<1>11. OneCall'
  BY <1>1, <1>3, <1>4, <1>5 DEF OneCall, Serves, At, Res, Key, Alone
<1>12. OneActive' /\ AnnouncedIsPaid' /\ NotHidden'
  BY <1>1, <1>5 DEF OneActive, AnnouncedIsPaid, NotHidden, AtMostOneActive, Paid, Active, Alone
<1> QED BY <1>6, <1>7, <1>8, <1>9, <1>10, <1>11, <1>12

-----------------------------------------------------------------------------
(* The steps of Booking and of the environment *)

LEMMA BookBeginStep ==
  ASSUME IInv, NEW q \in inbox, BookBegin(q)
  PROVE  IInv'
<1> USE SagaAssumption DEF IInv, TypeOK
<1>1. /\ inbox' = inbox \ {q} /\ q.res \in Reservations /\ q.from \in Calls \cup {None} /\ q.kind = "begin"
      /\ booking' = [booking EXCEPT ![q.res] = IF @ = "HELD" THEN "PENDING_PAYMENT" ELSE @]
      /\ UNCHANGED <<saga, payment, approved, overlapped>>
  BY DEF BookBegin, Request, rows, bus
<1>2. \A r \in Reservations : booking[r] # "HELD" => booking'[r] = booking[r]
  BY <1>1
<1>3. CASE UNCHANGED call
  <2>1. TypeOK' /\ Callers'
    BY <1>1, <1>3 DEF BookBegin, CallsOK, Callers, At, Res, Key, rows, bus
  <2>2. Announced' /\ Served'
    BY <1>1, <1>2, <1>3 DEF Announced, Served, CompletedIsAnnounced, CompensatedIsServed,
       Over, CallsOK, Call, Idle, At, Res, Key
  <2>3. OneCall' /\ AllKnow' /\ OneActive' /\ AnnouncedIsPaid' /\ NotHidden'
    BY <1>1, <1>3 DEF OneCall, AllKnow, OneActive, AnnouncedIsPaid, NotHidden, Knows,
       Active, AtMostOneActive, Paid, Alone, At, Res, Key
  <2> QED BY <2>1, <2>2, <2>3
<1>4. CASE ~ UNCHANGED call
  <2> DEFINE c == q.from
             new == [call[c] EXCEPT !.pc = "open", !.reply = booking'[q.res]]
  <2>1. c \in Calls /\ c # None /\ booking[q.res] # "ENDED" /\ call' = [call EXCEPT ![c] = new]
    BY <1>1, <1>4 DEF BookBegin, CallsOK
  <2>2. At(c, "awaitBegin") /\ Res(c) = q.res /\ Key(c) # NoKey
    BY <1>1, <2>1 DEF Callers, CallsOK, At, Key, Idle
  <2>3. booking'[q.res] \in {"PENDING_PAYMENT", "CONFIRMED"}
    BY <1>1, <2>1
  <2>4. new \in Call /\ new.pc = "open" /\ new.key = Key(c) /\ new.reply = booking'[q.res]
    <3>1. call[c] \in Call
      BY <2>1 DEF CallsOK
    <3> QED BY <2>3, <3>1 DEF Call, Points, Key
  <2> HIDE DEF new, c
  <2>5. Moves(c) /\ call'[c] = new
    BY <2>1, <2>2, <2>4, PutMoves
  <2>6. \A p \in inbox' : p.from # c
    BY <1>1, <2>1, <2>2 DEF Callers, Request, At, c
  <2>7. TypeOK'
    BY <1>1, <2>5 DEF BookBegin, Moves, rows, bus
  <2>8. Callers'
    BY <1>1, <2>5, <2>6 DEF Callers, Request, Moves, At, Res, Key
  <2>9. Announced'
    BY <1>1, <1>2, <2>1, <2>2, <2>4, <2>5 DEF Announced, CompletedIsAnnounced, Moves,
       CallsOK, Call, Idle, At, Res, Key
  <2>10. Served'
    BY <1>1, <1>2, <2>1, <2>2, <2>4, <2>5 DEF Served, CompensatedIsServed, Over, Moves,
       CallsOK, Call, Idle, At, Res, Key
  <2>11. AllKnow'
    BY <1>1, <2>1, <2>2, <2>4, <2>5 DEF OneCall, AllKnow, Knows, Before, Active, Alone,
       Moves, CallsOK, At, Res, Key
  <2>12. NotHidden'
    BY <1>1 DEF NotHidden, Alone
  <2> QED BY <1>1, <2>1, <2>2, <2>5, <2>7, <2>8, <2>9, <2>10, <2>11, <2>12, QuietStep DEF At
<1> QED BY <1>3, <1>4

LEMMA BookCompensateStep ==
  ASSUME IInv, NEW q \in inbox, BookCompensate(q)
  PROVE  IInv'
<1> USE SagaAssumption DEF IInv, TypeOK
<1>1. /\ inbox' = inbox \ {q} /\ q.res \in Reservations /\ q.from \in Calls \cup {None} /\ q.kind = "compensate"
      /\ booking' = [booking EXCEPT ![q.res] = IF @ = "CONFIRMED" THEN @ ELSE "ENDED"]
      /\ UNCHANGED <<saga, payment, approved, overlapped>>
  BY DEF BookCompensate, Cancelled, Request, rows, bus
<1>2. /\ \A r \in Reservations :
           \/ booking'[r] = booking[r]
           \/ booking[r] # "CONFIRMED" /\ booking'[r] = "ENDED"
      /\ booking'[q.res] \in {"ENDED", "CONFIRMED"}
  <2>1. booking'[q.res] = IF booking[q.res] = "CONFIRMED" THEN "CONFIRMED" ELSE "ENDED"
    BY <1>1
  <2>2. \A r \in Reservations : r # q.res => booking'[r] = booking[r]
    BY <1>1
  <2> QED BY <1>1, <2>1, <2>2
<1>3. CASE UNCHANGED call
  <2>1. TypeOK' /\ Callers'
    BY <1>1, <1>3 DEF BookCompensate, Cancelled, CallsOK, Callers, At, Res, Key, rows, bus
  <2>2. Announced' /\ Served'
    BY <1>1, <1>2, <1>3 DEF Announced, Served, CompletedIsAnnounced, CompensatedIsServed,
       Over, CallsOK, Call, Idle, At, Res, Key
  <2>3. OneCall' /\ AllKnow' /\ OneActive' /\ AnnouncedIsPaid' /\ NotHidden'
    BY <1>1, <1>3 DEF OneCall, AllKnow, OneActive, AnnouncedIsPaid, NotHidden, Knows,
       Active, AtMostOneActive, Paid, Alone, At, Res, Key
  <2> QED BY <2>1, <2>2, <2>3
<1>4. CASE ~ UNCHANGED call
  <2> DEFINE c == q.from
             new == [call[c] EXCEPT !.pc = "compensated"]
  <2>1. c \in Calls /\ c # None /\ call' = [call EXCEPT ![c] = new]
    BY <1>1, <1>4 DEF BookCompensate, CallsOK
  <2>2. At(c, "awaitCompensate") /\ Res(c) = q.res /\ Key(c) # NoKey
    BY <1>1, <2>1 DEF Callers, CallsOK, At, Key, Idle
  <2>3. new \in Call /\ new.pc = "compensated" /\ new.key = Key(c) /\ new.reply = call[c].reply
    <3>1. call[c] \in Call
      BY <2>1 DEF CallsOK
    <3> QED BY <3>1 DEF Call, Points, Key
  <2> HIDE DEF new, c
  <2>4. Moves(c) /\ call'[c] = new
    BY <2>1, <2>2, <2>3, PutMoves
  <2>5. \A p \in inbox' : p.from # c
    BY <1>1, <2>1, <2>2 DEF Callers, Request, At, c
  <2>6. TypeOK'
    BY <1>1, <2>4 DEF BookCompensate, Cancelled, Moves, rows, bus
  <2>7. Callers'
    BY <1>1, <2>4, <2>5 DEF Callers, Request, Moves, At, Res, Key
  <2>8. Announced'
    BY <1>1, <1>2, <2>1, <2>2, <2>3, <2>4 DEF Announced, CompletedIsAnnounced, Moves,
       CallsOK, Call, Idle, At, Res, Key
  <2>9. Served'
    BY <1>1, <1>2, <2>1, <2>2, <2>3, <2>4 DEF Served, CompensatedIsServed, Over, Moves,
       CallsOK, Call, Idle, At, Res, Key
  <2>10. AllKnow'
    BY <1>1, <2>1, <2>2, <2>3, <2>4 DEF OneCall, AllKnow, Knows, Before, Active, Alone,
       Moves, CallsOK, At, Res, Key
  <2>11. NotHidden'
    BY <1>1 DEF NotHidden, Alone
  <2> QED BY <1>1, <2>1, <2>2, <2>4, <2>6, <2>7, <2>8, <2>9, <2>10, <2>11, QuietStep DEF At
<1> QED BY <1>3, <1>4

\* Booking, the broker and a restart change no row of the payment service.
LEMMA BookEventStep ==
  ASSUME IInv, NEW r \in Reservations, BookEvent(r)
  PROVE  IInv'
<1> USE SagaAssumption DEF IInv, TypeOK
<1>1. /\ UNCHANGED <<saga, payment, call, inbox, approved, overlapped>>
      /\ booking' \in [Reservations -> {"HELD", "PENDING_PAYMENT", "CONFIRMED", "ENDED"}]
  BY DEF BookEvent, Cancelled, rows, rpc, bus
<1>2. \A s \in Reservations :
        \/ booking'[s] = booking[s]
        \/ booking[s] # "CONFIRMED" /\ booking'[s] = "ENDED"
        \/ booking[s] = "PENDING_PAYMENT" /\ s \in approved /\ booking'[s] = "CONFIRMED"
  BY DEF BookEvent, Cancelled
<1>3. TypeOK' /\ Callers'
  BY <1>1 DEF BookEvent, CallsOK, Callers, At, Res, Key, rpc, bus
<1>4. Announced'
  BY <1>1, <1>2 DEF Announced, CompletedIsAnnounced, CallsOK, Call, Idle, At, Res, Key
<1>5. Served'
  BY <1>1, <1>2 DEF Served, CompensatedIsServed, Over, CallsOK, Call, Idle, At, Res, Key
<1>6. OneCall' /\ AllKnow' /\ OneActive' /\ AnnouncedIsPaid' /\ NotHidden'
  BY <1>1 DEF OneCall, AllKnow, OneActive, AnnouncedIsPaid, NotHidden, Knows, Active,
     AtMostOneActive, Paid, Alone, At, Res, Key
<1> QED BY <1>3, <1>4, <1>5, <1>6

LEMMA QuietEnvironment ==
  ASSUME IInv, UNCHANGED <<saga, payment, call, inbox, booking, approved, declined, asked, overlapped>>,
         channelUp' \in BOOLEAN, faults' \in 0..MaxFaults
  PROVE  IInv'
<1> USE DEF IInv
<1>1. TypeOK' /\ Callers' /\ Announced' /\ Served'
  BY DEF TypeOK, CallsOK, Callers, Announced, Served, CompletedIsAnnounced,
     CompensatedIsServed, Over, At, Res, Key
<1>2. OneCall' /\ AllKnow' /\ OneActive' /\ AnnouncedIsPaid' /\ NotHidden'
  BY DEF OneCall, AllKnow, OneActive, AnnouncedIsPaid, NotHidden, Knows, Active,
     AtMostOneActive, Paid, Alone, At, Res, Key
<1> QED BY <1>1, <1>2

LEMMA RestartStep ==
  ASSUME IInv, Restart
  PROVE  IInv'
<1> USE SagaAssumption DEF IInv, TypeOK
<1>1. /\ UNCHANGED <<saga, payment, booking, approved, overlapped>>
      /\ inbox' = Forget(Calls)
      /\ \A c \in Calls : call'[c] = Idle
  BY DEF Restart, rows
<1>2. Idle \in Call /\ Idle.pc = "idle" /\ Idle.reply = "none"
  BY DEF Idle, Call, Points, NoKey
<1>3. TypeOK'
  BY <1>2, ForgetKeeps DEF Restart, Fault, CallsOK, rows
<1>4. Callers'
  BY <1>1 DEF Callers, Forget, Request
<1>5. Announced' /\ Served'
  BY <1>1, <1>2 DEF Announced, Served, CompletedIsAnnounced, CompensatedIsServed, Over, At
<1>6. OneCall' /\ AllKnow' /\ OneActive' /\ AnnouncedIsPaid' /\ NotHidden'
  BY <1>1, <1>2 DEF OneCall, AllKnow, OneActive, AnnouncedIsPaid, NotHidden, Active,
     AtMostOneActive, Paid, Alone, At
<1> QED BY <1>3, <1>4, <1>5, <1>6

LEMMA StepKeepsInvariant ==
  ASSUME IInv, [Next]_vars
  PROVE  IInv'
<1>1. ASSUME NEW c \in Calls, Step(c)
      PROVE  IInv'
  BY <1>1, FindActiveStep, UpsertStep, FindSettledStep, GiveUpStep, FailWindowStep, OpenStep,
     FindApprovedStep, ReplayStep, CreateStep, LinkStep, ChargeStep, ChargedStep,
     PublishApprovedStep, CompleteStep, PublishFailedStep, RecheckStep, PostChargeStep,
     CompensateStep, CompensatedStep, CompFailedStep DEF Step
<1>2. CASE LoseChannel
  <2>1. faults' \in 0..MaxFaults
    BY <1>2, SagaAssumption DEF LoseChannel, Fault, IInv, TypeOK
  <2> QED BY <1>2, <2>1, QuietEnvironment DEF LoseChannel, rows, rpc
<1>3. CASE UNCHANGED vars
  BY <1>3, QuietEnvironment DEF vars, rows, rpc, bus, IInv, TypeOK
<1> QED BY <1>1, <1>2, <1>3, StartStep, BookBeginStep, BookCompensateStep, BookEventStep,
           RestartStep DEF Next, Work

\* The invariant all theorems below rest on.
THEOREM SagaInvariant == Spec => []IInv
<1>1. Init => IInv
  <2> SUFFICES ASSUME Init PROVE IInv
    OBVIOUS
  <2>1. Idle \in Call /\ Idle.pc = "idle" /\ Idle.reply = "none"
    BY DEF Idle, Call, Points, NoKey
  <2>2. TypeOK
    BY <2>1, SagaAssumption DEF Init, TypeOK, CallsOK
  <2>3. Callers /\ Announced /\ Served
    BY <2>1 DEF Init, Callers, Announced, Served, CompletedIsAnnounced, CompensatedIsServed, At
  <2>4. OneCall /\ AllKnow /\ OneActive /\ AnnouncedIsPaid /\ NotHidden
    BY <2>1 DEF Init, OneCall, AllKnow, OneActive, AnnouncedIsPaid, NotHidden,
       AtMostOneActive, Active, At
  <2> QED BY <2>2, <2>3, <2>4 DEF IInv
<1>2. IInv /\ [Next]_vars => IInv'
  BY StepKeepsInvariant
<1> QED BY <1>1, <1>2, PTL DEF Spec

-----------------------------------------------------------------------------
(* Theorems *)

\* Rows, calls and requests keep their types.
THEOREM SagaTypeCorrect == Spec => []TypeOK
<1>1. IInv => TypeOK
  BY DEF IInv
<1> QED BY <1>1, SagaInvariant, PTL

\* However calls overlap and whatever fails, COMPLETED means that
\* payment.approved is on the bus.
THEOREM CompletedSagasAreAnnounced == Spec => []CompletedIsAnnounced
<1>1. IInv => CompletedIsAnnounced
  BY DEF IInv, Announced
<1> QED BY <1>1, SagaInvariant, PTL

\* However calls overlap and whatever fails, COMPENSATED means that Booking
\* closed the window, or had confirmed it.
THEOREM CompensatedSagasAreServed == Spec => []CompensatedIsServed
<1>1. IInv => CompensatedIsServed
  BY DEF IInv, Served
<1> QED BY <1>1, SagaInvariant, PTL

\* A reservation whose calls never overlapped has at most one payment that is
\* PENDING or APPROVED, with any number of keys.
THEOREM OneActivePayment == Spec => []OneActive
<1>1. IInv => OneActive
  BY DEF IInv
<1> QED BY <1>1, SagaInvariant, PTL

\* A charge that was not announced stays visible in its saga.
THEOREM ChargesAreVisible == Spec => []ChargedIsVisible
<1>1. IInv => ChargedIsVisible
  BY DEF IInv, Announced, CompletedIsAnnounced, NotHidden, ChargedIsVisible
<1> QED BY <1>1, SagaInvariant, PTL

\* What is confirmed was paid for.
THEOREM ConfirmedArePaid == Spec => []ConfirmedIsPaid
<1>1. IInv => ConfirmedIsPaid
  BY DEF IInv, Announced, AnnouncedIsPaid, Paid, ConfirmedIsPaid
<1> QED BY <1>1, SagaInvariant, PTL

LEMMA PaymentWriters ==
  ASSUME [Next]_vars, ~ UNCHANGED payment
  PROVE  \E c \in Calls : Create(c) \/ Charge(c)
<1>1. ASSUME NEW c \in Calls, Step(c), ~Create(c), ~Charge(c)
      PROVE  UNCHANGED payment
  BY <1>1 DEF Step, FindActive, Upsert, FindSettled, GiveUp, FailWindow, Open, FindApproved, Replay,
     Link, Charged, PublishApproved, Complete, PublishFailed, Recheck, PostCharge, Compensate,
     Compensated, CompFailed, Select, SetSaga, rows
<1> QED BY <1>1 DEF Next, Work, Start, BookBegin, BookCompensate, BookEvent, LoseChannel, Restart,
   vars, rows

\* A payment that is approved or declined stays so.
THEOREM SettledPaymentsStay == Spec => SettledIsFinal
<1>1. ASSUME IInv, [Next]_vars, NEW k \in Keys, payment[k] \in {"APPROVED", "FAILED"}, Alone(resOf[k])
      PROVE  payment'[k] = payment[k]
  <2>1. SUFFICES ASSUME NEW c \in Calls, Create(c) \/ Charge(c), Key(c) = k
                 PROVE  payment'[k] = payment[k]
    BY <1>1, PaymentWriters DEF Create, Charge, SetPayment, IInv, TypeOK
  <2>2. call[c].pc = "create" \/ call[c].pc = "charge"
    BY <2>1, Zenon DEF Create, Charge, At
  <2>3. Knows(c)
    BY <1>1, <2>1, <2>2 DEF IInv, AllKnow, Res, At
  <2> QED BY <1>1, <2>1, <2>2, <2>3 DEF Knows, Before, At
<1>2. IInv /\ [Next]_vars =>
        [\A k \in Keys :
           payment[k] \in {"APPROVED", "FAILED"} /\ Alone(resOf[k]) => payment'[k] = payment[k]]_vars
  BY <1>1
<1> QED BY <1>2, SagaInvariant, PTL DEF Spec, SettledIsFinal

\* Only compensate asks for a compensation, and by then nothing is paid.
THEOREM PaidAreNotCompensated == Spec => PaidNotCompensated
<1>1. ASSUME [Next]_vars, ~ UNCHANGED asked
      PROVE  \E c \in Calls : Compensate(c) /\ asked' = asked \cup {Res(c)}
  <2>1. ASSUME NEW c \in Calls, Step(c), ~Compensate(c)
        PROVE  UNCHANGED asked
    BY <2>1 DEF Step, FindActive, Upsert, FindSettled, GiveUp, FailWindow, Open,
       FindApproved, Replay,
       Create, Link, Charge, Charged, PublishApproved, Complete, PublishFailed, Recheck, PostCharge,
       Compensated, CompFailed, Select, rpc
  <2>2. ASSUME NEW c \in Calls, Compensate(c)
        PROVE  asked' = asked \cup {Res(c)} \/ UNCHANGED asked
    BY <2>2 DEF Compensate, SetSaga, rpc
  <2> QED BY <1>1, <2>1, <2>2
          DEF Next, Work, Step, Start, BookBegin, BookCompensate, BookEvent, LoseChannel, Restart, vars, rpc
<1>2. ASSUME IInv, [Next]_vars, NEW r \in Reservations, Alone(r), r \in asked' \ asked
      PROVE  \A k \in Active(r) : payment[k] # "APPROVED"
  <2>1. PICK c \in Calls : Compensate(c) /\ Res(c) = r
    BY <1>1, <1>2
  <2>2. At(c, "compensate") /\ ~At(c, "idle")
    BY <2>1 DEF Compensate, At
  <2>3. Knows(c)
    BY <1>2, <2>1, <2>2 DEF IInv, AllKnow
  <2> QED BY <2>1, <2>2, <2>3 DEF Knows, Before, At
<1>3. IInv /\ [Next]_vars =>
        [\A r \in Reservations :
           Alone(r) /\ r \in asked' \ asked => \A k \in Active(r) : payment[k] # "APPROVED"]_vars
  BY <1>2
<1> QED BY <1>3, SagaInvariant, PTL DEF Spec, PaidNotCompensated

-----------------------------------------------------------------------------
(* No way round the compensation *)

\* A call that asked for the compensation, or found the reservation paid, has
\* done so; before its window it has no reply.
Tracks(c) ==
  /\ call[c].pc \in {"awaitCompensate", "compensated", "compFailed"} => Res(c) \in asked
  /\ call[c].pc \in {"idle", "findActive", "upsert", "findSettled", "awaitBegin"} => call[c].reply = "none"
  /\ At(c, "replay") /\ Alone(Res(c)) => Paid(Res(c))

AllTrack == \A c \in Calls : Tracks(c)

LEMMA AskedGrows ==
  ASSUME [Next]_vars
  PROVE  asked \subseteq asked'
<1>1. ASSUME NEW c \in Calls, Step(c)
      PROVE  asked \subseteq asked'
  BY <1>1 DEF Step, FindActive, Upsert, FindSettled, GiveUp, FailWindow, Open, FindApproved, Replay,
     Create, Link, Charge, Charged, PublishApproved, Complete, PublishFailed, Recheck, PostCharge,
     Compensate, Compensated, CompFailed, Select, SetSaga, rpc
<1> QED BY <1>1 DEF Next, Work, Start, BookBegin, BookCompensate, BookEvent, LoseChannel, Restart,
   vars, rpc

\* Another call that found the reservation paid still finds it so.
LEMMA OthersTrack ==
  ASSUME IInv, AllTrack, NEW c \in Calls, ~At(c, "idle"), Moves(c), Writes(c), asked \subseteq asked'
  PROVE  \A d \in Calls : d # c => Tracks(d)'
<1> SUFFICES ASSUME NEW d \in Calls, d # c
             PROVE  Tracks(d)'
  OBVIOUS
<1>1. call'[d] = call[d] /\ Tracks(d)
  BY DEF Moves, AllTrack
<1>2. CASE call[d].pc = "replay" /\ Alone(Res(d))
  <2>1. Key(d) \in Keys /\ Key(c) \in Keys /\ ~At(d, "idle")
    BY <1>2 DEF IInv, TypeOK, At, Key, CallsOK, Call, Idle
  <2>2. Res(d) # Res(c)
    BY <1>2, <2>1 DEF IInv, OneCall
  <2>3. \A k \in Keys : resOf[k] = Res(d) => payment'[k] = payment[k]
    BY <2>2 DEF Writes, Res
  <2>4. Paid(Res(d))
    BY <1>1, <1>2 DEF Tracks, At
  <2>5. \E k \in Keys : resOf[k] = Res(d) /\ payment'[k] = "APPROVED"
    BY <2>3, <2>4 DEF Paid, Active
  <2> QED BY <1>1, <1>2, <2>5 DEF Tracks, At, Res, Key, Paid, Active
<1>3. CASE ~(call[d].pc = "replay" /\ Alone(Res(d)))
  BY <1>1, <1>3 DEF Tracks, Writes, Alone, At, Res, Key
<1> QED BY <1>2, <1>3

LEMMA StepWrites ==
  ASSUME IInv, NEW c \in Calls, Step(c)
  PROVE  ~At(c, "idle") /\ Writes(c)
<1> USE DEF IInv, TypeOK, At, Writes, rows
<1>1. CASE Upsert(c) \/ FailWindow(c) \/ Open(c) \/ Replay(c) \/ Charged(c) \/ Complete(c)
           \/ PostCharge(c) \/ Compensate(c) \/ Compensated(c) \/ CompFailed(c)
  BY <1>1 DEF Upsert, FailWindow, Open, Replay, Charged, Complete, PostCharge, Compensate,
              Compensated, CompFailed, SetSaga
<1>2. CASE Create(c) \/ Charge(c)
  BY <1>2 DEF Create, Charge, SetPayment
<1>3. CASE FindActive(c) \/ FindSettled(c) \/ GiveUp(c) \/ FindApproved(c) \/ Link(c)
           \/ PublishApproved(c) \/ PublishFailed(c) \/ Recheck(c)
  BY <1>3 DEF FindActive, FindSettled, GiveUp, FindApproved, Link, PublishApproved, PublishFailed,
              Recheck, Select
<1> QED BY <1>1, <1>2, <1>3 DEF Step

\* Where a call goes that may need a track: it goes on with its reply, it
\* asked, it found a payment, or it is at a point that needs none.
LEMMA StepTracks ==
  ASSUME IInv, AllTrack, NEW c \in Calls, Step(c)
  PROVE  Moves(c) /\ Tracks(c)'
<1> USE DEF IInv, TypeOK
<1>0. ~At(c, "idle") /\ Tracks(c) /\ CallsOK
  BY StepWrites DEF AllTrack
<1>1. CASE FindActive(c)
  <2>1. Leave(c) \/ Goto(c, "upsert")
    BY <1>1 DEF FindActive, Select
  <2>2. Ends(c) \/ Lands(c, "upsert")
    BY <2>1, <1>0, LeaveEnds, GotoLands DEF Points
  <2> QED BY <1>0, <1>1, <2>2 DEF FindActive, At, Ends, Lands, Tracks, Idle
<1>2. CASE Upsert(c)
  <2>1. Leave(c) \/ Goto(c, "findSettled") \/ Goto(c, "awaitBegin")
    BY <1>2 DEF Upsert, SetSaga
  <2>2. Ends(c) \/ Lands(c, "findSettled") \/ Lands(c, "awaitBegin")
    BY <2>1, <1>0, LeaveEnds, GotoLands DEF Points
  <2> QED BY <1>0, <1>2, <2>2 DEF Upsert, At, Ends, Lands, Tracks, Idle
<1>3. CASE FindSettled(c)
  <2>1. Leave(c) \/ Goto(c, "awaitBegin")
    BY <1>3 DEF FindSettled
  <2>2. Ends(c) \/ Lands(c, "awaitBegin")
    BY <2>1, <1>0, LeaveEnds, GotoLands DEF Points
  <2> QED BY <1>0, <1>3, <2>2 DEF FindSettled, At, Ends, Lands, Tracks, Idle
<1>4. CASE GiveUp(c)
  <2>1. \/ Lands(c, "failWindow")
        \/ At(c, "awaitCompensate") /\ Lands(c, "compFailed")
    BY <1>0, <1>4, GotoLands DEF GiveUp, Points
  <2>2. asked' = asked
    BY <1>4 DEF GiveUp
  <2> QED BY <1>0, <2>1, <2>2 DEF At, Lands, Tracks, Res, Key
<1>5. CASE FindApproved(c)
  <2>1. \/ Leave(c) \/ Goto(c, "create")
        \/ Goto(c, "replay") /\ Paid(Res(c))
    BY <1>5 DEF FindApproved, Select, Paid
  <2>2. \/ Ends(c) \/ Lands(c, "create")
        \/ Lands(c, "replay") /\ Paid(Res(c))
    BY <2>1, <1>0, LeaveEnds, GotoLands DEF Points
  <2>3. payment' = payment
    BY <1>5 DEF FindApproved, Select, rows
  <2> QED BY <2>2, <2>3 DEF At, Ends, Lands, Tracks, Idle, Res, Key, Paid, Active
<1>6. CASE Compensate(c)
  <2>1. \/ Goto(c, "awaitCompensate") /\ asked' = asked \cup {Res(c)}
        \/ Rethrow(c)
    BY <1>6 DEF Compensate, SetSaga
  <2>2. \/ Lands(c, "awaitCompensate") /\ Res(c) \in asked'
        \/ Ends(c) \/ Lands(c, "recheck")
    BY <2>1, <1>0, RethrowLands, GotoLands DEF Points
  <2> QED BY <2>2 DEF At, Ends, Lands, Tracks, Idle, Res, Key
<1>7. CASE Compensated(c)
  <2>1. Ends(c) \/ Lands(c, "compFailed")
    BY <1>7, <1>0, LeaveEnds, GotoLands DEF Compensated, SetSaga, Points
  <2>2. asked' = asked /\ Res(c) \in asked
    BY <1>7, <1>0 DEF Compensated, rpc, At, Tracks
  <2> QED BY <2>1, <2>2 DEF At, Ends, Lands, Tracks, Idle, Res, Key
<1>8. ASSUME \/ Ends(c)
             \/ \E p \in {"failWindow", "findApproved", "create", "link", "charge", "charged",
                          "publishApproved", "complete", "publishFailed", "recheck",
                          "postCharge", "compensate"} : Lands(c, p)
      PROVE  Moves(c) /\ Tracks(c)'
  BY <1>8 DEF At, Ends, Lands, Tracks, Idle
<1>9. CASE FailWindow(c) \/ Replay(c) \/ PostCharge(c)
  BY <1>9, <1>8, <1>0, LeaveEnds DEF FailWindow, Replay, PostCharge, SetSaga
<1>10. CASE Open(c)
  BY <1>10, <1>8, <1>0, GotoLands DEF Open, SetSaga, Points
<1>11. CASE Create(c)
  BY <1>11, <1>8, <1>0, GotoLands, UnwindLands DEF Create, SetPayment, Points
<1>12. CASE Link(c)
  BY <1>12, <1>8, <1>0, GotoLands, LeaveEnds DEF Link, Select, Points
<1>13. CASE Charge(c)
  BY <1>13, <1>8, <1>0, GotoLands DEF Charge, SetPayment, Points
<1>14. CASE Charged(c) \/ Complete(c)
  BY <1>14, <1>8, <1>0, GotoLands, LeaveEnds DEF Charged, Complete, SetSaga, Points
<1>15. CASE PublishApproved(c)
  <2>1. call[c].pc = "publishApproved" /\ (Goto(c, "complete") \/ PublishFails(c))
    BY <1>15 DEF PublishApproved, At
  <2> QED BY <2>1, <1>8, <1>0, GotoLands, PublishFailsLands DEF Points
<1>16. CASE PublishFailed(c)
  <2>1. call[c].pc = "publishFailed" /\ (Goto(c, "compensate") \/ PublishFails(c))
    BY <1>16 DEF PublishFailed, At
  <2> QED BY <2>1, <1>8, <1>0, GotoLands, PublishFailsLands DEF Points
<1>17. CASE Recheck(c)
  BY <1>17, <1>8, <1>0, GotoLands, UnwindLands, LeaveEnds DEF Recheck, Select, Points
<1>18. CASE CompFailed(c)
  BY <1>18, <1>8, <1>0, LeaveEnds, RethrowLands DEF CompFailed, SetSaga
<1> QED BY <1>1, <1>2, <1>3, <1>4, <1>5, <1>6, <1>7, <1>9, <1>10, <1>11, <1>12, <1>13, <1>14, <1>15,
           <1>16, <1>17, <1>18 DEF Step

LEMMA NextTracks ==
  ASSUME IInv, AllTrack, [Next]_vars
  PROVE  AllTrack'
<1>0. asked \subseteq asked'
  BY AskedGrows
<1>1. ASSUME NEW c \in Calls, Step(c)
      PROVE  AllTrack'
  BY <1>0, <1>1, StepWrites, StepTracks, OthersTrack DEF AllTrack
<1>2. ASSUME NEW c \in Calls, NEW k \in Keys, Start(c, k)
      PROVE  AllTrack'
  <2>1. call'[c] = Begun(k) /\ \A d \in Calls : d # c => call'[d] = call[d]
    BY <1>2 DEF Start, IInv, TypeOK, CallsOK
  <2>2. UNCHANGED <<payment, asked>> /\ overlapped \subseteq overlapped'
    BY <1>2 DEF Start, rows, rpc
  <2> QED BY <2>1, <2>2 DEF AllTrack, Tracks, Begun, At, Alone, Paid, Active, Res, Key
<1>3. ASSUME NEW q \in inbox, BookBegin(q) \/ BookCompensate(q)
      PROVE  AllTrack'
  <2>1. UNCHANGED <<payment, asked, overlapped>>
    BY <1>3 DEF BookBegin, BookCompensate, rows
  <2>2. CASE UNCHANGED call
    BY <2>1, <2>2 DEF AllTrack, Tracks, At, Alone, Paid, Active, Res, Key
  <2>3. CASE ~UNCHANGED call
    <3> DEFINE c == q.from
    <3>1. c \in Calls /\ q.res = Res(c) /\ c # None
      BY <1>3, <2>3 DEF BookBegin, BookCompensate, IInv, Callers, TypeOK, Request
    <3>2. \A d \in Calls : d # c => call'[d] = call[d]
      BY <1>3, <2>3 DEF BookBegin, BookCompensate, IInv, TypeOK, CallsOK
    <3>3. call'[c].key = Key(c) /\ call'[c].pc \in {"open", "compensated"}
      BY <1>3, <2>3, <3>1 DEF BookBegin, BookCompensate, IInv, TypeOK, CallsOK, Call, Key
    <3>4. call'[c].pc = "compensated" => Res(c) \in asked
      <4>1. CASE BookBegin(q)
        BY <4>1, <2>3, <3>1 DEF BookBegin, IInv, TypeOK, CallsOK, Call
      <4>2. CASE BookCompensate(q)
        <5>1. At(c, "awaitCompensate")
          BY <4>2, <3>1 DEF BookCompensate, IInv, Callers
        <5> QED BY <5>1, <3>1 DEF AllTrack, Tracks, At
      <4> QED BY <1>3, <4>1, <4>2
    <3> HIDE DEF c
    <3> QED BY <2>1, <3>1, <3>2, <3>3, <3>4 DEF AllTrack, Tracks, At, Alone, Paid, Active, Res, Key
  <2> QED BY <2>2, <2>3
<1>4. CASE Restart
  BY <1>4 DEF Restart, AllTrack, Tracks, Idle, At
<1>5. CASE UNCHANGED <<payment, asked, overlapped, call>>
  BY <1>5 DEF AllTrack, Tracks, At, Alone, Paid, Active, Res, Key
<1> QED BY <1>1, <1>2, <1>3, <1>4, <1>5 DEF Next, Work, BookEvent, LoseChannel, vars, rows, rpc

\* A failed charge or publish reaches the compensation, unless the very
\* statement that should lead there throws (checkout-saga.service.ts:215-227).
THEOREM CompensationIsReached == Spec => OnlyThrowsSkipCompensation
<1>1. Init => AllTrack
  BY DEF Init, AllTrack, Tracks, Idle, At
<1>2. IInv /\ AllTrack /\ [Next]_vars => AllTrack'
  BY NextTracks
<1>3. ASSUME IInv, AllTrack, [Next]_vars, NEW c \in Calls, call[c].reply # "none",
             call[c].pc # "failWindow", call'[c].pc = "idle", faults' = faults, Alone(Res(c))
      PROVE  Res(c) \in asked \cup declined \/ Paid(Res(c))
  <2> USE DEF IInv, TypeOK
  <2>1. faults \in Nat /\ ~Fault
    BY <1>3, SagaAssumption DEF Fault
  <2>2. ~At(c, "idle") /\ Key(c) \in Keys /\ Tracks(c) /\ CallsOK
    BY <1>3 DEF CallsOK, Call, Idle, At, Key, AllTrack, Tracks
  <2>3. Knows(c)
    BY <1>3, <2>2 DEF AllKnow
  <2>4. payment[Key(c)] = "APPROVED" => Paid(Res(c))
    BY <2>2 DEF Paid, Active, Res
  <2>5. Step(c)
    <3>1. ASSUME NEW d \in Calls, Step(d), d # c
          PROVE  call'[c] = call[c]
      BY <1>3, <3>1, StepTracks DEF Moves
    <3>2. ASSUME NEW d \in Calls, NEW k \in Keys, Start(d, k)
          PROVE  call'[c].pc # "idle"
      BY <2>2, <3>2 DEF Start, Begun, CallsOK, At
    <3>3. ASSUME NEW q \in inbox, BookBegin(q) \/ BookCompensate(q)
          PROVE  call'[c].pc # "idle"
      <4>1. CASE call' = call
        BY <2>2, <4>1 DEF At
      <4>2. CASE call' = [call EXCEPT ![q.from].pc = "compensated"]
        BY <2>2, <4>2 DEF CallsOK, Call, At
      <4>3. CASE call' = [call EXCEPT ![q.from].pc = "open", ![q.from].reply = booking'[q.res]]
        BY <2>2, <4>3 DEF CallsOK, Call, At
      <4> QED BY <3>3, <4>1, <4>2, <4>3 DEF BookBegin, BookCompensate
    <3>4. ~Restart /\ ~LoseChannel
      BY <2>1 DEF Restart, LoseChannel
    <3>5. call'[c] # call[c]
      BY <1>3, <2>2 DEF At
    <3> QED BY <1>3, <3>1, <3>2, <3>3, <3>4, <3>5 DEF Next, Work, BookEvent, vars
  <2>6. \A p : Lands(c, p) => p = "idle"
    BY <1>3 DEF Lands
  <2>7. ASSUME NEW p \in Points, Goto(c, p)
        PROVE  p = "idle"
    <3>1. Lands(c, p)
      BY <2>2, <2>7, GotoLands
    <3> QED BY <3>1, <2>6
  <2>8. ~Unwind(c) /\ ~(PublishFails(c) /\ call[c].pc # "idle")
    <3>1. ~Lands(c, "compensate") /\ ~Lands(c, "recheck")
      BY <2>6
    <3>2. call[c].pc # "idle" => ~Lands(c, call[c].pc)
      BY <2>6
    <3> QED BY <2>2, <3>1, <3>2, UnwindLands, PublishFailsLands
  <2> USE DEF At, Points
  <2>9. CASE Replay(c) \/ Complete(c) \/ PostCharge(c)
    BY <1>3, <2>3, <2>4, <2>2, <2>9 DEF Replay, Complete, PostCharge, Tracks, Knows
  <2>10. CASE Compensated(c) \/ CompFailed(c)
    BY <2>2, <2>10 DEF Compensated, CompFailed, Tracks
  <2>11. CASE FindActive(c) \/ Upsert(c) \/ FindSettled(c) \/ FailWindow(c)
    BY <1>3, <2>2, <2>11 DEF FindActive, Upsert, FindSettled, FailWindow, Tracks
  <2>12. ~GiveUp(c)
    BY <2>7 DEF GiveUp
  <2>13. ~Open(c) /\ ~Charged(c)
    BY <2>1, <2>7 DEF Open, Charged, SetSaga
  <2>14. ~FindApproved(c) /\ ~Link(c)
    BY <2>1, <2>7 DEF FindApproved, Link, Select
  <2>15. ~Create(c) /\ ~Charge(c)
    BY <2>1, <2>7 DEF Create, Charge, SetPayment
  <2>16. ~PublishApproved(c)
    BY <2>2, <2>7, <2>8 DEF PublishApproved
  <2>17. ~PublishFailed(c)
    BY <2>2, <2>7, <2>8 DEF PublishFailed
  <2>18. ~Recheck(c)
    BY <2>1, <2>7, <2>8 DEF Recheck, Select
  <2>19. ~Compensate(c)
    BY <2>1, <2>7 DEF Compensate, SetSaga
  <2> QED BY <2>5, <2>9, <2>10, <2>11, <2>12, <2>13, <2>14, <2>15, <2>16, <2>17, <2>18, <2>19 DEF Step
<1>4. IInv /\ AllTrack /\ [Next]_vars =>
        [\A c \in Calls :
           call[c].reply # "none" /\ call[c].pc # "failWindow" /\ call'[c].pc = "idle"
             /\ faults' = faults /\ Alone(Res(c)) =>
               Res(c) \in asked \cup declined \/ \E k \in Active(Res(c)) : payment[k] = "APPROVED"]_vars
  BY <1>3 DEF Paid
<1> QED BY <1>1, <1>2, <1>4, SagaInvariant, PTL DEF Spec, OnlyThrowsSkipCompensation
=============================================================================

------------------------- MODULE WebCheckoutProofs -------------------------
(***************************************************************************)
(* Theorems about WebCheckout, for any number of clicks, polls, holds and  *)
(* faults.                                                                 *)
(***************************************************************************)
EXTENDS WebCheckout, TLAPS

-----------------------------------------------------------------------------
(* The inductive invariant *)

\* A click that waits for a reply has a GET left, and one that shows a reply has it.
Click ==
  {k \in [pc : Points, left : 0..Attempts, got : Replies \cup {"none"}] :
     /\ k.pc = "ready" => k.got = "none"
     /\ k.pc \in {"asked", "answered"} => k.left > 0
     /\ k.pc = "answered" => k.got # "none"
     /\ k.pc = "refetching" => k.got \in Statuses}

\* Calls about a reservation are made only with one on the screen, and a call
\* that makes one only without.
Placed ==
  /\ reserving # Idle => shown = Nothing
  /\ \A p \in Polls : polls[p] # "free" => shown # Nothing
  /\ \A c \in Clicks : click[c].pc # "ready" => shown # Nothing
  /\ \A c \in Clicks : click[c].pc \in {"ready", "validating"} => runs[c] = "none"
  /\ click \in [Clicks -> Click]
  /\ abandoned <= faults

\* Nothing under way, and nothing on the screen, claims a confirmation that
\* Booking does not have, or Booking one that Payment does not have.
Truthful ==
  /\ reserving.reply.status = "CONFIRMED" => row[reserving.reply.hold] = "CONFIRMED"
  /\ shown.status = "CONFIRMED" => row[shown.hold] = "CONFIRMED"
  /\ \A p \in Polls : polls[p] = "CONFIRMED" => row[shown.hold] = "CONFIRMED"
  /\ \A c \in Clicks : click[c].got = "CONFIRMED" => row[shown.hold] = "CONFIRMED"
  /\ \A h \in Holds : row[h] = "CONFIRMED" => pay[h] = "APPROVED"
  /\ \A h \in Holds : pay[h] = "APPROVED" => charges > 0

\* The page's key has one live hold, and its own if it has a checkout.
OneHold ==
  /\ \A g, h \in held : g = h
  /\ OneCheckoutPerKey

\* Without a double click or a timeout one click at a time is under way, and a
\* run belongs to a click that waits for it.
OneClick ==
  ~hurried =>
    /\ \A c, d \in Clicks : {click[c].pc, click[d].pc} \cap {"ready", "over"} = {} => c = d
    /\ \A c \in Clicks : click[c].pc \notin {"ready", "validating", "over"} => latest = c
    /\ \A c \in Clicks : runs[c] # "none" => click[c].pc = "posting"

\* Unless runs met, one run at a time is under way, and nothing is charged yet.
OneRun ==
  /\ charges > 0 => shown # Nothing /\ pay[shown.hold] = "APPROVED"
  /\ overlapped => hurried
  /\ ~overlapped =>
       /\ charges <= 1
       /\ \A c, d \in Clicks : Running(c) /\ Running(d) => c = d
       /\ \A c \in Clicks : Running(c) => charges = 0

IInv == TypeOK /\ Placed /\ Truthful /\ OneHold /\ OneClick /\ OneRun

-----------------------------------------------------------------------------
(* What the services answer *)

LEMMA HoldFacts == Holds \subseteq Nat /\ 0 \notin Holds
BY WebAssumption DEF Holds

LEMMA AnswerFacts ==
  ASSUME TypeOK, NEW h \in Holds
  PROVE  Answer(h) \in Replies /\ (Answer(h) = "CONFIRMED" => row[h] = "CONFIRMED")
<1>1. row[h] \in {"none", "PENDING_PAYMENT"} \cup Final
  BY DEF TypeOK
<1> QED BY <1>1 DEF Answer, RowView, HoldView, Replies, Statuses, Active, Final

\* A reservation on the screen is one of Booking's.
LEMMA ShownFacts ==
  ASSUME TypeOK, shown # Nothing
  PROVE  shown \in Reservation /\ shown.hold \in Holds
BY DEF TypeOK, Reservation

LEMMA DisplayFacts ==
  ASSUME TypeOK, shown # Nothing, NEW status \in Statuses, Display(status)
  PROVE  /\ shown' \in Reservation /\ shown' # Nothing
         /\ shown'.hold = shown.hold /\ shown'.status = status
<1>1. shown \in Reservation /\ shown.hold # 0
  BY ShownFacts, HoldFacts
<1> QED BY <1>1 DEF Display, Reservation, Nothing

LEMMA CreateFacts ==
  ASSUME TypeOK, OneHold, NEW reply \in Reservation \cup {Nothing}, Create(reply)
  PROVE  /\ made' \in 0..MaxHolds /\ held' \subseteq 1..made'
         /\ row' = row
         /\ OneHold'
         /\ reply.status = "CONFIRMED" => row[reply.hold] = "CONFIRMED"
<1>1. /\ made \in 0..MaxHolds /\ held \subseteq 1..made /\ MaxHolds \in Nat
      /\ held \subseteq Holds
  BY WebAssumption DEF TypeOK, Holds
<1>2. ASSUME NEW h \in Known, reply = Replay(h), UNCHANGED booking
      PROVE  /\ made' = made /\ held' = held /\ row' = row
             /\ reply.status = "CONFIRMED" => row[reply.hold] = "CONFIRMED"
  BY <1>2 DEF booking, Replay, HoldView, RowView
<1>3. ASSUME Known = {}, made < MaxHolds, made' = made + 1, held' = held \cup {made'},
             UNCHANGED row, reply = [hold |-> made', status |-> HoldView]
      PROVE  /\ made' \in 0..MaxHolds /\ held' \subseteq 1..made' /\ OneHold'
             /\ reply.status # "CONFIRMED"
  <2>1. held = {} /\ Booked = {}
    BY <1>3 DEF Known
  <2>2. OneHold'
    BY <1>3, <2>1 DEF OneHold, OneCheckoutPerKey, Booked
  <2> QED BY <1>1, <1>3, <2>2 DEF HoldView
<1>4. ASSUME made' = made, held' = held, row' = row PROVE OneHold'
  BY <1>4 DEF OneHold, OneCheckoutPerKey
<1>5. CASE \E h \in Known : reply = Replay(h) /\ UNCHANGED booking
  BY <1>1, <1>2, <1>4, <1>5
<1>6. CASE Known = {} /\ reply = Nothing /\ UNCHANGED booking
  BY <1>1, <1>4, <1>6 DEF booking, Nothing
<1> QED BY <1>3, <1>5, <1>6 DEF Create

-----------------------------------------------------------------------------
(* Types, and where calls are *)

LEMMA InitIInv == Init => IInv
<1> SUFFICES ASSUME Init PROVE IInv
  OBVIOUS
<1>1. TypeOK
  <2>1. [pc |-> "ready", left |-> 0, got |-> "none"]
          \in [pc : Points, left : 0..Attempts, got : Replies \cup {"none"}]
    BY WebAssumption DEF Points
  <2>2. click \in [Clicks -> [pc : Points, left : 0..Attempts, got : Replies \cup {"none"}]]
    BY <2>1 DEF Init
  <2>3. made \in 0..MaxHolds /\ held \subseteq 1..made
    BY WebAssumption DEF Init
  <2>4. abandoned \in 0..MaxFaults /\ faults \in 0..MaxFaults
    BY WebAssumption DEF Init
  <2>5. reserving = Idle
    BY DEF Init
  <2>6. /\ row \in [Holds -> {"none", "PENDING_PAYMENT"} \cup Final]
        /\ pay \in [Holds -> {"none", "PENDING", "APPROVED"}]
        /\ runs \in [Clicks -> {"none", "asked", "begun", "charging"}]
        /\ polls \in [Polls -> Replies \cup {"free", "asked"}]
    BY DEF Init
  <2>7. /\ map \in {"AVAILABLE", "taken"} /\ shown \in Reservation \cup {Nothing}
        /\ latest \in Clicks \cup {None} /\ charges \in Nat
        /\ hurried \in BOOLEAN /\ overlapped \in BOOLEAN
    BY DEF Init
  <2> QED BY <2>2, <2>3, <2>4, <2>5, <2>6, <2>7 DEF TypeOK, Idle
<1>2. Placed
  <2>1. [pc |-> "ready", left |-> 0, got |-> "none"] \in Click
    BY WebAssumption DEF Points, Click
  <2> QED BY <2>1 DEF Init, Placed
<1>3. Truthful
  BY DEF Init, Truthful, Idle, Nothing
<1>4. OneHold
  BY DEF Init, OneHold, OneCheckoutPerKey
<1>5. OneClick
  BY DEF Init, OneClick
<1>6. OneRun
  BY DEF Init, OneRun, Running
<1> QED BY <1>1, <1>2, <1>3, <1>4, <1>5, <1>6 DEF IInv

Typed == TypeOK /\ Placed

LEMMA ReservingTyped ==
  ASSUME IInv, Reserving
  PROVE  Typed'
<1> USE DEF IInv, Typed, Placed, history, payment, booking, page
<1>1. CASE Select
  BY <1>1 DEF Select, TypeOK, Idle
<1>2. CASE BookCreate
  <2>1. PICK reply \in Reservation \cup {Nothing} :
          /\ Create(reply)
          /\ reserving' = IF reply = Nothing THEN Idle ELSE [pc |-> "answered", reply |-> reply]
    BY <1>2 DEF BookCreate
  <2>2. shown = Nothing
    BY <1>2 DEF BookCreate, Idle
  <2> QED BY <1>2, <2>1, <2>2, CreateFacts DEF BookCreate, TypeOK, Idle
<1>3. CASE GiveUpCreate
  BY <1>3, WebAssumption DEF GiveUpCreate, Fault, TypeOK, Idle
<1>4. CASE BookAbandoned
  <2>1. PICK reply \in Reservation \cup {Nothing} : Create(reply)
    BY <1>4 DEF BookAbandoned
  <2> QED BY <1>4, <2>1, CreateFacts, WebAssumption DEF BookAbandoned, TypeOK
<1>5. CASE Show
  <2>1. reserving.reply \in Reservation /\ shown = Nothing /\ reserving.reply # Nothing
    BY <1>5, HoldFacts DEF Show, TypeOK, Idle, Reservation, Nothing
  <2> QED BY <1>5, <2>1 DEF Show, TypeOK, Idle, SeatsAnswer
<1>6. CASE Refetch
  BY <1>6 DEF Refetch, TypeOK, SeatsAnswer
<1> QED BY <1>1, <1>2, <1>3, <1>4, <1>5, <1>6 DEF Reserving

LEMMA CountingTyped ==
  ASSUME IInv, NEW p \in Polls, Counting(p)
  PROVE  Typed'
<1> USE DEF IInv, Typed, Placed, history, payment, booking, page
<1>1. CASE Poll(p)
  BY <1>1 DEF Poll, Ticking, Active, Nothing, TypeOK
<1>2. CASE ServePoll(p)
  <2>1. Answer(shown.hold) \in Replies
    BY <1>2, ShownFacts, AnswerFacts DEF ServePoll
  <2> QED BY <1>2, <2>1 DEF ServePoll, TypeOK
<1>3. CASE FailPoll(p)
  BY <1>3, WebAssumption DEF FailPoll, Fault, TypeOK, Replies
<1>4. CASE ShowPoll(p)
  <2>1. shown # Nothing
    BY <1>4 DEF ShowPoll, Replies, Statuses, Active, Final
  <2>2. shown' \in Reservation /\ shown' # Nothing
    BY <1>4, <2>1, DisplayFacts, ShownFacts DEF ShowPoll, Replies
  <2> QED BY <1>4, <2>1, <2>2 DEF ShowPoll, TypeOK
<1> QED BY <1>1, <1>2, <1>3, <1>4 DEF Counting

LEMMA ClickFacts ==
  /\ Ended \in Click
  /\ [pc |-> "asked", left |-> Attempts, got |-> "none"] \in Click
  /\ Click \subseteq [pc : Points, left : 0..Attempts, got : Replies \cup {"none"}]
BY WebAssumption DEF Click, Ended, Points

\* A click moves, and is not back at the start.
Moves(c, click1) ==
  /\ click1 \in [Clicks -> Click]
  /\ \A d \in Clicks : d # c => click1[d] = click[d]
  /\ click1[c].pc # "ready"

LEMMA GotoFacts ==
  ASSUME Placed, NEW c \in Clicks, NEW point \in {"validating", "posting"}, Goto(c, point)
  PROVE  Moves(c, click') /\ click'[c].pc = point /\ click'[c].got = click[c].got
<1>1. click \in [Clicks -> Click]
  BY DEF Placed
<1>2. [click[c] EXCEPT !.pc = point] \in Click
  BY <1>1 DEF Click, Points
<1> QED BY <1>1, <1>2 DEF Goto, Moves, Click

LEMMA EndFacts ==
  ASSUME Placed, NEW c \in Clicks, End(c)
  PROVE  Moves(c, click') /\ click'[c] = Ended
BY ClickFacts DEF Placed, End, Moves, Ended

\* What a click does whose run has ended.
LEMMA EndedRunFacts ==
  ASSUME Placed, NEW c \in Clicks, runs[c] # "none", Answered(c) \/ Refused(c)
  PROVE  /\ Moves(c, click') /\ shown # Nothing
         /\ click'[c].pc \in {"asked", "over"} \/ click'[c].pc = click[c].pc
         /\ click'[c].got \in {"none", click[c].got}
         /\ click[c].pc # "posting" => click' = click
<1>1. click \in [Clicks -> Click] /\ click[c].pc \notin {"ready", "validating"} /\ shown # Nothing
  BY DEF Placed
<1>2. CASE Answered(c)
  BY <1>1, <1>2, ClickFacts DEF Answered, Moves
<1>3. CASE Refused(c)
  BY <1>1, <1>3, ClickFacts DEF Refused, Moves, Ended
<1> QED BY <1>2, <1>3

LEMMA PressFacts ==
  ASSUME Placed, NEW c \in Clicks, Press(c)
  PROVE  /\ Moves(c, click') /\ click'[c].pc = "validating" /\ click'[c].got = click[c].got
         /\ shown # Nothing
BY GotoFacts DEF Press, FormShown, Active, Nothing

LEMMA SubmitFacts ==
  ASSUME Placed, NEW c \in Clicks, Submit(c)
  PROVE  /\ Moves(c, click') /\ click'[c].pc = "posting" /\ click'[c].got = click[c].got
         /\ shown # Nothing
BY GotoFacts DEF Placed, Submit

LEMMA ServeGetFacts ==
  ASSUME TypeOK, Placed, NEW c \in Clicks, ServeGet(c)
  PROVE  /\ Moves(c, click') /\ click'[c].pc = "answered" /\ shown # Nothing
         /\ click'[c].got = Answer(shown.hold)
<1>1. click \in [Clicks -> Click] /\ shown # Nothing
  BY DEF Placed, ServeGet
<1>2. Answer(shown.hold) \in Replies
  BY <1>1, ShownFacts, AnswerFacts
<1>3. [click[c] EXCEPT !.pc = "answered", !.got = Answer(shown.hold)] \in Click
  BY <1>1, <1>2 DEF ServeGet, Click, Points, Replies, Statuses, Active, Final
<1> QED BY <1>1, <1>3 DEF ServeGet, Moves, Click

LEMMA ShowGetFacts ==
  ASSUME Placed, NEW c \in Clicks, ShowGet(c)
  PROVE  /\ Moves(c, click') /\ shown # Nothing
         /\ click'[c].pc \in {"asked", "refetching", "over"}
         /\ click'[c].got \in {"none", click[c].got}
         /\ \/ UNCHANGED shown
            \/ click[c].got \in Statuses /\ Display(click[c].got)
<1>1. click \in [Clicks -> Click] /\ shown # Nothing /\ click[c].pc = "answered"
  BY DEF Placed, ShowGet
<1>2. click[c].got \in Replies
  BY <1>1 DEF Click
<1>3. CASE End(c) /\ UNCHANGED shown
  BY <1>1, <1>3, EndFacts DEF Ended
<1>4. CASE ~(End(c) /\ UNCHANGED shown)
  <2>1. click[c].got \in Statuses /\ Display(click[c].got)
    BY <1>2, <1>4 DEF ShowGet, Replies
  <2>2. \/ click' = [click EXCEPT ![c].pc = "refetching", ![c].left = 0]
        \/ /\ click[c].left # 1
           /\ click' = [click EXCEPT ![c].pc = "asked", ![c].left = @ - 1]
    BY <1>4 DEF ShowGet
  <2> DEFINE turned(point, left) == [click[c] EXCEPT !.pc = point, !.left = left]
  <2>3. /\ click[c] \in [pc : Points, left : 0..Attempts, got : Replies \cup {"none"}]
        /\ click[c].left > 0
    BY <1>1 DEF Click
  <2>4. 0 \in 0..Attempts
    BY WebAssumption
  <2>5. turned("refetching", 0) \in Click
    BY <2>1, <2>3, <2>4 DEF Click, Points, Replies
  <2>6. ASSUME click[c].left # 1 PROVE turned("asked", click[c].left - 1) \in Click
    <3>1. click[c].left - 1 \in 0..Attempts /\ click[c].left - 1 > 0
      BY <2>3, <2>6, WebAssumption
    <3> QED BY <2>1, <2>3, <3>1 DEF Click, Points, Replies
  <2> QED BY <1>1, <2>1, <2>2, <2>3, <2>5, <2>6 DEF Moves
<1> QED BY <1>3, <1>4

LEMMA FinishFacts ==
  ASSUME Placed, NEW c \in Clicks, Finish(c)
  PROVE  /\ Moves(c, click') /\ shown # Nothing /\ click'[c] = Ended
         /\ click[c].got \in Statuses /\ Display(click[c].got)
BY EndFacts DEF Placed, Finish, Click

\* The page moves a click; Payment and Booking are not disturbed.
LEMMA ClickTyped ==
  ASSUME TypeOK, Placed, NEW c \in Clicks, Moves(c, click'), shown # Nothing,
         \/ UNCHANGED shown
         \/ \E status \in Statuses : Display(status),
         latest' \in {latest, c},
         \/ UNCHANGED runs /\ click[c].pc \notin {"ready", "validating"}
                           /\ click'[c].pc # "validating"
         \/ UNCHANGED runs /\ runs[c] = "none"
         \/ runs' = [runs EXCEPT ![c] = "asked"] /\ click'[c].pc = "posting",
         hurried' \in BOOLEAN, faults' \in {faults, faults + 1}, faults' <= MaxFaults,
         UNCHANGED <<map, reserving, polls, booking, pay, charges, abandoned, overlapped>>
  PROVE  Typed'
<1>1. shown' \in Reservation /\ shown' # Nothing
  BY ShownFacts, DisplayFacts
<1>2. click' \in [Clicks -> [pc : Points, left : 0..Attempts, got : Replies \cup {"none"}]]
  BY ClickFacts DEF Moves
<1>3. faults' \in 0..MaxFaults
  BY WebAssumption DEF TypeOK
<1>4. TypeOK'
  BY <1>1, <1>2, <1>3 DEF TypeOK, booking
<1>5. reserving = Idle
  BY DEF Placed
<1>6. \A d \in Clicks : click'[d].pc \in {"ready", "validating"} => runs'[d] = "none"
  BY DEF TypeOK, Placed, Moves
<1>7. abandoned' <= faults'
  BY DEF TypeOK, Placed
<1>8. Placed'
  BY <1>1, <1>5, <1>6, <1>7 DEF Placed, Moves
<1> QED BY <1>4, <1>8 DEF Typed

\* A run goes on, or ends and tells its click.
LEMMA RunTyped ==
  ASSUME TypeOK, Placed, NEW c \in Clicks, runs[c] # "none",
         UNCHANGED click \/ (Moves(c, click') /\ click'[c].pc # "validating"),
         \E step \in {"none", "begun", "charging"} : runs' = [runs EXCEPT ![c] = step],
         row' \in [Holds -> {"none", "PENDING_PAYMENT"} \cup Final],
         pay' \in [Holds -> {"none", "PENDING", "APPROVED"}],
         charges' \in Nat, held' \subseteq held, overlapped' \in BOOLEAN,
         faults' \in {faults, faults + 1}, faults' <= MaxFaults,
         UNCHANGED <<map, reserving, shown, polls, latest, made, abandoned, hurried>>
  PROVE  Typed'
<1>1. click' \in [Clicks -> Click] /\ click[c].pc \notin {"ready", "validating"}
  BY DEF Placed, Moves
<1>2. click' \in [Clicks -> [pc : Points, left : 0..Attempts, got : Replies \cup {"none"}]]
  BY <1>1, ClickFacts
<1>3. faults' \in 0..MaxFaults
  BY WebAssumption DEF TypeOK
<1>4. TypeOK'
  <2>1. runs' \in [Clicks -> {"none", "asked", "begun", "charging"}]
    BY DEF TypeOK
  <2>2. held' \subseteq 1..made'
    BY DEF TypeOK
  <2> QED BY <1>2, <1>3, <2>1, <2>2 DEF TypeOK
<1>5. \A d \in Clicks : click'[d].pc \in {"ready", "validating"} => runs'[d] = "none"
  BY <1>1 DEF TypeOK, Placed, Moves
<1>6. abandoned' <= faults'
  BY DEF TypeOK, Placed
<1>7. shown # Nothing
  BY <1>1 DEF Placed
<1>8. Placed'
  BY <1>1, <1>5, <1>6, <1>7 DEF Placed
<1> QED BY <1>4, <1>8 DEF Typed

LEMMA CheckoutTyped ==
  ASSUME IInv, NEW c \in Clicks, Checkout(c)
  PROVE  Typed'
<1> USE DEF history, payment
<1>1. TypeOK /\ Placed /\ faults <= MaxFaults /\ faults \in 0..MaxFaults
  BY WebAssumption DEF IInv, TypeOK
<1>2. CASE Press(c)
  <2>1. hurried' \in BOOLEAN /\ runs[c] = "none"
    BY <1>1, <1>2 DEF Press, TypeOK, Placed
  <2> QED BY <1>1, <1>2, <2>1, PressFacts, ClickTyped DEF Press
<1>3. CASE Submit(c)
  BY <1>1, <1>3, SubmitFacts, ClickTyped DEF Submit, TypeOK
<1>4. CASE GiveUpPay(c)
  <2>1. Moves(c, click') /\ click'[c].pc = "over" /\ shown # Nothing
    BY <1>1, <1>4, EndFacts DEF GiveUpPay, Placed, Ended
  <2> QED BY <1>1, <1>4, <2>1, ClickTyped DEF GiveUpPay
<1>5. CASE ServeGet(c)
  BY <1>1, <1>5, ServeGetFacts, ClickTyped DEF ServeGet, TypeOK
<1>6. CASE FailGet(c)
  <2>1. Moves(c, click') /\ click'[c].pc = "over" /\ shown # Nothing
    BY <1>1, <1>6, EndFacts DEF FailGet, Placed, Ended
  <2>2. faults' \in {faults, faults + 1} /\ faults' <= MaxFaults
    BY <1>1, <1>6, WebAssumption DEF FailGet, Fault
  <2> QED BY <1>1, <1>6, <2>1, <2>2, ClickTyped DEF FailGet, TypeOK
<1>7. CASE ShowGet(c)
  BY <1>1, <1>7, ShowGetFacts, ClickTyped DEF ShowGet, TypeOK
<1>8. CASE Finish(c)
  BY <1>1, <1>8, FinishFacts, ClickTyped DEF Finish, TypeOK, Ended
<1>9. CASE Run(c)
  <2>1. shown # Nothing /\ shown.hold \in Holds
    BY <1>1, <1>9, ShownFacts DEF Run, Placed
  <2>2. row' \in [Holds -> {"none", "PENDING_PAYMENT"} \cup Final]
    BY <1>1, <1>9, <2>1 DEF Run, TypeOK
  <2>3. UNCHANGED click \/ (Moves(c, click') /\ click'[c].pc # "validating")
    BY <1>1, <1>9, EndedRunFacts DEF Run, Placed
  <2>4. overlapped' \in BOOLEAN /\ \E step \in {"none", "begun"} : runs' = [runs EXCEPT ![c] = step]
    BY <1>1, <1>9 DEF Run, TypeOK
  <2> QED BY <1>1, <1>9, <2>2, <2>3, <2>4, RunTyped DEF Run, TypeOK
<1>10. CASE OpenPayment(c)
  <2>1. shown.hold \in Holds
    BY <1>1, <1>10, ShownFacts DEF OpenPayment, Placed
  <2> QED BY <1>1, <1>10, <2>1, RunTyped DEF OpenPayment, TypeOK, page, booking
<1>11. CASE Charge(c)
  <2>1. shown.hold \in Holds
    BY <1>1, <1>11, ShownFacts DEF Charge, Placed
  <2>2. Moves(c, click') /\ click'[c].pc # "validating"
    BY <1>1, <1>11, EndedRunFacts DEF Charge, Placed
  <2>3. charges' \in Nat /\ pay' \in [Holds -> {"none", "PENDING", "APPROVED"}]
    BY <1>1, <1>11, <2>1 DEF Charge, TypeOK
  <2>4. runs[c] # "none" /\ runs' = [runs EXCEPT ![c] = "none"]
    BY <1>11 DEF Charge
  <2>5. UNCHANGED <<row, held, made>> /\ row \in [Holds -> {"none", "PENDING_PAYMENT"} \cup Final]
    BY <1>1, <1>11 DEF Charge, booking, TypeOK
  <2> QED BY <1>1, <1>11, <2>2, <2>3, <2>4, <2>5, RunTyped DEF Charge, TypeOK
<1>12. CASE Abort(c)
  <2>1. shown.hold \in Holds /\ runs[c] # "none"
    BY <1>1, <1>12, ShownFacts DEF Abort, Running, Placed
  <2>2. Moves(c, click') /\ click'[c].pc # "validating"
    BY <1>1, <1>12, <2>1, EndedRunFacts DEF Abort, Placed
  <2>3. row' \in [Holds -> {"none", "PENDING_PAYMENT"} \cup Final] /\ held' \subseteq held /\ made' = made
    BY <1>1, <1>12, <2>1 DEF Abort, TypeOK, Final, booking
  <2>4. faults' \in {faults, faults + 1} /\ faults' <= MaxFaults
    BY <1>1, <1>12, WebAssumption DEF Abort, Fault
  <2> QED BY <1>1, <1>12, <2>1, <2>2, <2>3, <2>4, RunTyped DEF Abort, TypeOK
<1> QED BY <1>2, <1>3, <1>4, <1>5, <1>6, <1>7, <1>8, <1>9, <1>10, <1>11, <1>12 DEF Checkout

LEMMA OutcomeTyped ==
  ASSUME IInv, NEW h \in Holds, Outcome(h)
  PROVE  Typed'
<1> USE DEF Outcome, Confirm, Drop, Expire, page, payment, history
<1>1. UNCHANGED <<page, payment, made, abandoned, history, faults>> /\ held' \subseteq held
  OBVIOUS
<1>2. row' \in [Holds -> {"none", "PENDING_PAYMENT"} \cup Final]
  BY DEF IInv, TypeOK, Final
<1>3. TypeOK'
  BY <1>1, <1>2 DEF IInv, TypeOK
<1>4. Placed'
  BY <1>1 DEF IInv, Placed
<1> QED BY <1>3, <1>4 DEF Typed

LEMMA NextTyped == IInv /\ [Next]_vars => Typed'
<1> SUFFICES ASSUME IInv, [Next]_vars PROVE Typed'
  OBVIOUS
<1>1. CASE UNCHANGED vars
  BY <1>1 DEF IInv, Typed, TypeOK, Placed, vars, page, booking, payment, history
<1> QED BY <1>1, ReservingTyped, CountingTyped, CheckoutTyped, OutcomeTyped DEF Next

-----------------------------------------------------------------------------
(* Claims *)

\* What Booking and Payment have settled stays, and Booking has a payment for it.
Settled ==
  /\ \A h \in Holds : row[h] = "CONFIRMED" => row'[h] = "CONFIRMED"
  /\ \A h \in Holds : row'[h] = "CONFIRMED" => pay'[h] = "APPROVED"
  /\ \A h \in Holds : pay'[h] = "APPROVED" => charges' > 0

LEMMA NextSettled ==
  ASSUME IInv, [Next]_vars
  PROVE  Settled
<1> USE DEF IInv, TypeOK, Truthful, Settled, page, booking, payment, history
<1>1. CASE UNCHANGED <<row, pay, charges>>
  BY <1>1
<1>2. ASSUME Reserving PROVE Settled
  <2>1. ASSUME NEW reply \in Reservation \cup {Nothing}, Create(reply) PROVE row' = row
    BY <2>1, CreateFacts
  <2> QED BY <1>1, <1>2, <2>1
          DEF Reserving, Select, BookCreate, GiveUpCreate, BookAbandoned, Show, Refetch
<1>3. ASSUME NEW c \in Clicks, Checkout(c) PROVE Settled
  <2>1. CASE Run(c)
    BY <2>1 DEF Run, Final
  <2>2. CASE OpenPayment(c)
    BY <2>2 DEF OpenPayment
  <2>3. CASE Charge(c)
    BY <2>3 DEF Charge
  <2>4. CASE Abort(c)
    BY <2>4 DEF Abort
  <2> QED BY <1>1, <1>3, <2>1, <2>2, <2>3, <2>4
          DEF Checkout, Press, Submit, GiveUpPay, ServeGet, FailGet, ShowGet, Finish
<1>4. ASSUME NEW h \in Holds, Outcome(h) PROVE Settled
  BY <1>4 DEF Outcome, Confirm, Drop, Expire
<1>5. ASSUME NEW p \in Polls, Counting(p) PROVE Settled
  BY <1>1, <1>5 DEF Counting, Poll, ServePoll, FailPoll, ShowPoll
<1>6. CASE UNCHANGED vars
  BY <1>1, <1>6 DEF vars
<1> QED BY <1>2, <1>3, <1>4, <1>5, <1>6 DEF Next

\* On the same reservation, no claim is new but those read from Booking.
LEMMA SameReservation ==
  ASSUME IInv, Settled, shown' = shown \/ (shown # Nothing /\ shown'.hold = shown.hold),
         shown'.status = "CONFIRMED" => row[shown.hold] = "CONFIRMED",
         reserving' \in {reserving, Idle},
         \A p \in Polls : polls'[p] = "CONFIRMED" => row[shown.hold] = "CONFIRMED",
         \A c \in Clicks : click'[c].got = "CONFIRMED" => row[shown.hold] = "CONFIRMED",
         \/ shown # Nothing
         \/ shown' = shown /\ UNCHANGED <<polls, click>>
  PROVE  Truthful'
<1>1. reserving'.reply.status = "CONFIRMED" => row'[reserving'.reply.hold] = "CONFIRMED"
  BY DEF IInv, Truthful, TypeOK, Settled, Idle, Nothing, Reservation
<1>2. CASE shown # Nothing
  <2>1. shown.hold \in Holds
    BY <1>2, ShownFacts DEF IInv
  <2> QED BY <1>1, <2>1 DEF Truthful, Settled
<1>3. CASE shown = Nothing /\ shown' = shown /\ UNCHANGED <<polls, click>>
  <2>1. /\ \A p \in Polls : polls[p] = "free"
        /\ \A c \in Clicks : click[c].got # "CONFIRMED"
    BY <1>3, ClickFacts DEF IInv, Placed, Click
  <2> QED BY <1>1, <1>3, <2>1 DEF Truthful, Settled, Nothing
<1> QED BY <1>2, <1>3

LEMMA ReservingTruthful ==
  ASSUME IInv, Settled, Reserving
  PROVE  Truthful'
<1> USE DEF IInv, page, booking, payment, history
<1>1. CASE BookCreate
  <2>1. PICK reply \in Reservation \cup {Nothing} :
          /\ Create(reply)
          /\ reserving' = IF reply = Nothing THEN Idle ELSE [pc |-> "answered", reply |-> reply]
    BY <1>1 DEF BookCreate
  <2>2. shown = Nothing /\ UNCHANGED <<shown, polls, click>>
    BY <1>1 DEF BookCreate, Placed, Idle
  <2>3. /\ \A p \in Polls : polls[p] = "free"
        /\ \A c \in Clicks : click[c].got = "none"
    BY <2>2 DEF Placed, Click
  <2>4. reserving'.reply.status = "CONFIRMED" => row[reserving'.reply.hold] = "CONFIRMED"
    BY <2>1, CreateFacts DEF Idle, Nothing
  <2>5. row' = row
    BY <2>1, CreateFacts
  <2> QED BY <2>2, <2>3, <2>4, <2>5 DEF Truthful, Settled, Nothing
<1>2. CASE Show
  <2>1. /\ reserving.reply \in Reservation /\ shown = Nothing /\ shown' = reserving.reply
        /\ row' = row /\ UNCHANGED <<polls, click>> /\ reserving' = Idle
    BY <1>2 DEF Show, TypeOK, Placed, Idle
  <2>2. /\ \A p \in Polls : polls[p] = "free"
        /\ \A c \in Clicks : click[c].got = "none"
    BY <2>1 DEF Placed, Click
  <2> QED BY <2>1, <2>2 DEF Truthful, Settled, Idle, Nothing
<1>3. CASE Select \/ GiveUpCreate
  <2>1. reserving'.reply = Nothing /\ UNCHANGED <<shown, polls, click, row>>
    BY <1>3 DEF Select, GiveUpCreate, Idle
  <2> QED BY <2>1 DEF Truthful, Settled, Nothing
<1>4. CASE BookAbandoned \/ Refetch
  <2>1. row' = row
    <3>1. ASSUME NEW reply \in Reservation \cup {Nothing}, Create(reply) PROVE row' = row
      BY <3>1, CreateFacts
    <3> QED BY <1>4, <3>1 DEF BookAbandoned, Refetch
  <2>2. UNCHANGED <<reserving, shown, polls, click>>
    BY <1>4 DEF BookAbandoned, Refetch
  <2> QED BY <2>1, <2>2 DEF Truthful, Settled
<1> QED BY <1>1, <1>2, <1>3, <1>4 DEF Reserving

LEMMA CountingTruthful ==
  ASSUME IInv, Settled, NEW p \in Polls, Counting(p)
  PROVE  Truthful'
<1>1. TypeOK /\ Placed /\ polls \in [Polls -> Replies \cup {"free", "asked"}]
  BY DEF IInv, TypeOK
<1>2. UNCHANGED <<reserving, click>>
  BY DEF Counting, Poll, ServePoll, FailPoll, ShowPoll
<1>3. \A q \in Polls : q # p => polls'[q] = polls[q]
  BY <1>1 DEF Counting, Poll, ServePoll, FailPoll, ShowPoll
<1>4. /\ shown.status = "CONFIRMED" => row[shown.hold] = "CONFIRMED"
      /\ \A q \in Polls : polls[q] = "CONFIRMED" => row[shown.hold] = "CONFIRMED"
      /\ \A c \in Clicks : click[c].got = "CONFIRMED" => row[shown.hold] = "CONFIRMED"
  BY DEF IInv, Truthful
<1>5. CASE Poll(p) \/ FailPoll(p)
  <2>1. shown # Nothing /\ shown' = shown /\ polls'[p] # "CONFIRMED"
    BY <1>1, <1>5 DEF Poll, FailPoll, Placed, Ticking, Active, Nothing
  <2> QED BY <1>2, <1>3, <1>4, <2>1, SameReservation
<1>6. CASE ServePoll(p)
  <2>1. shown # Nothing /\ shown' = shown /\ polls'[p] = Answer(shown.hold)
    BY <1>1, <1>6 DEF ServePoll, Placed
  <2>2. Answer(shown.hold) = "CONFIRMED" => row[shown.hold] = "CONFIRMED"
    BY <1>1, <2>1, ShownFacts, AnswerFacts
  <2> QED BY <1>2, <1>3, <1>4, <2>1, <2>2, SameReservation
<1>7. CASE ShowPoll(p)
  <2>1. shown # Nothing /\ polls'[p] = "free"
    BY <1>1, <1>7 DEF ShowPoll, Placed, Replies, Statuses, Active, Final
  <2>2. shown' = shown \/ (shown'.hold = shown.hold /\ shown'.status = polls[p])
    BY <1>1, <1>7, <2>1, DisplayFacts DEF ShowPoll, Replies
  <2> QED BY <1>2, <1>3, <1>4, <2>1, <2>2, SameReservation
<1> QED BY <1>5, <1>6, <1>7 DEF Counting

\* The page moves a click, and shows at most what the click was told.
LEMMA ClickTruthful ==
  ASSUME IInv, Settled, NEW c \in Clicks, Moves(c, click') \/ UNCHANGED click, shown # Nothing,
         \/ click'[c].got \in {"none", click[c].got}
         \/ click'[c].got = Answer(shown.hold),
         \/ UNCHANGED shown
         \/ click[c].got \in Statuses /\ Display(click[c].got),
         UNCHANGED <<reserving, polls>>
  PROVE  Truthful'
<1>1. TypeOK
  BY DEF IInv
<1>2. Answer(shown.hold) = "CONFIRMED" => row[shown.hold] = "CONFIRMED"
  BY <1>1, ShownFacts, AnswerFacts
<1>3. shown' = shown \/ (shown'.hold = shown.hold /\ shown'.status = click[c].got)
  BY <1>1, DisplayFacts
<1>4. /\ shown.status = "CONFIRMED" => row[shown.hold] = "CONFIRMED"
      /\ \A q \in Polls : polls[q] = "CONFIRMED" => row[shown.hold] = "CONFIRMED"
      /\ \A d \in Clicks : click[d].got = "CONFIRMED" => row[shown.hold] = "CONFIRMED"
  BY DEF IInv, Truthful
<1>5. \A d \in Clicks : d # c => click'[d].got = click[d].got
  BY DEF Moves
<1> QED BY <1>2, <1>3, <1>4, <1>5, SameReservation

LEMMA CheckoutTruthful ==
  ASSUME IInv, Settled, NEW c \in Clicks, Checkout(c)
  PROVE  Truthful'
<1> USE DEF page, booking, payment, history
<1>1. TypeOK /\ Placed
  BY DEF IInv
<1>2. CASE Press(c)
  BY <1>1, <1>2, PressFacts, ClickTruthful DEF Press
<1>3. CASE Submit(c)
  BY <1>1, <1>3, SubmitFacts, ClickTruthful DEF Submit
<1>4. CASE GiveUpPay(c) \/ FailGet(c)
  <2>1. End(c) /\ shown # Nothing /\ UNCHANGED <<shown, reserving, polls>>
    BY <1>1, <1>4 DEF GiveUpPay, FailGet, Placed
  <2> QED BY <1>1, <2>1, EndFacts, ClickTruthful DEF Ended
<1>5. CASE ServeGet(c)
  BY <1>1, <1>5, ServeGetFacts, ClickTruthful DEF ServeGet
<1>6. CASE ShowGet(c)
  BY <1>1, <1>6, ShowGetFacts, ClickTruthful DEF ShowGet
<1>7. CASE Finish(c)
  BY <1>1, <1>7, FinishFacts, ClickTruthful DEF Finish, Ended
<1>8. CASE Run(c) \/ OpenPayment(c) \/ Charge(c) \/ Abort(c)
  <2>1. /\ runs[c] # "none" /\ UNCHANGED <<shown, reserving, polls>>
        /\ UNCHANGED click \/ Answered(c) \/ Refused(c)
    BY <1>8 DEF Run, OpenPayment, Charge, Abort, Running
  <2>2. shown # Nothing
    BY <1>1, <2>1 DEF Placed
  <2> QED BY <1>1, <2>1, <2>2, EndedRunFacts, ClickTruthful
<1> QED BY <1>2, <1>3, <1>4, <1>5, <1>6, <1>7, <1>8 DEF Checkout

LEMMA NextTruthful == IInv /\ [Next]_vars => Truthful'
<1> SUFFICES ASSUME IInv, [Next]_vars PROVE Truthful'
  OBVIOUS
<1>1. Settled
  BY NextSettled
<1>2. ASSUME UNCHANGED page PROVE Truthful'
  <2>1. /\ UNCHANGED <<shown, reserving, polls, click>>
        /\ shown.status = "CONFIRMED" => row[shown.hold] = "CONFIRMED"
        /\ \A q \in Polls : polls[q] = "CONFIRMED" => row[shown.hold] = "CONFIRMED"
        /\ \A d \in Clicks : click[d].got = "CONFIRMED" => row[shown.hold] = "CONFIRMED"
    BY <1>2 DEF page, IInv, Truthful
  <2> QED BY <1>1, <2>1, SameReservation
<1>3. ASSUME NEW h \in Holds, Outcome(h) PROVE UNCHANGED page
  BY <1>3 DEF Outcome, Confirm, Drop, Expire
<1>4. ASSUME UNCHANGED vars PROVE UNCHANGED page
  BY <1>4 DEF vars
<1> QED BY <1>1, <1>2, <1>3, <1>4, ReservingTruthful, CountingTruthful, CheckoutTruthful DEF Next

-----------------------------------------------------------------------------
(* Holds *)

LEMMA NextOneHold == IInv /\ [Next]_vars => OneHold'
<1> SUFFICES ASSUME IInv, [Next]_vars PROVE OneHold'
  OBVIOUS
<1> USE DEF page, booking, payment, history
<1>1. ASSUME held' \subseteq held, UNCHANGED row PROVE OneHold'
  BY <1>1 DEF IInv, OneHold, OneCheckoutPerKey
<1>2. ASSUME NEW h \in Holds, row[h] # "none" \/ h \in held, held' \subseteq held,
             NEW status, row' = [row EXCEPT ![h] = status]
      PROVE  OneHold'
  <2>1. /\ \A g \in Holds : row'[g] # "none" => row[g] # "none" \/ g = h
        /\ held \subseteq {h}
    BY <1>2 DEF IInv, TypeOK, OneHold, OneCheckoutPerKey
  <2> QED BY <1>2, <2>1 DEF IInv, OneHold, OneCheckoutPerKey
<1>3. ASSUME Reserving PROVE OneHold'
  <2>1. ASSUME NEW reply \in Reservation \cup {Nothing}, Create(reply) PROVE OneHold'
    BY <2>1, CreateFacts DEF IInv
  <2> QED BY <1>1, <1>3, <2>1
          DEF Reserving, Select, BookCreate, GiveUpCreate, BookAbandoned, Show, Refetch
<1>4. ASSUME NEW p \in Polls, Counting(p) PROVE OneHold'
  BY <1>1, <1>4 DEF Counting, Poll, ServePoll, FailPoll, ShowPoll
<1>5. ASSUME NEW c \in Clicks, Checkout(c) PROVE OneHold'
  <2>1. ASSUME runs[c] # "none" PROVE shown.hold \in Holds
    BY <2>1, ShownFacts DEF IInv, Placed
  <2>2. CASE Run(c)
    BY <1>1, <1>2, <2>1, <2>2 DEF Run
  <2>3. CASE Abort(c)
    BY <1>1, <1>2, <2>1, <2>3 DEF Abort, Running
  <2>4. CASE ~Run(c) /\ ~Abort(c)
    BY <1>1, <1>5, <2>4 DEF Checkout, OpenPayment, Charge,
                             Press, Submit, GiveUpPay, ServeGet, FailGet, ShowGet, Finish
  <2> QED BY <2>2, <2>3, <2>4
<1>6. ASSUME NEW h \in Holds, Outcome(h) PROVE OneHold'
  BY <1>1, <1>2, <1>6 DEF Outcome, Confirm, Drop, Expire
<1>7. CASE UNCHANGED vars
  BY <1>1, <1>7 DEF vars
<1> QED BY <1>3, <1>4, <1>5, <1>6, <1>7 DEF Next

-----------------------------------------------------------------------------
(* Clicks and runs *)

LEMMA NextOneClick == IInv /\ [Next]_vars => OneClick'
<1> SUFFICES ASSUME IInv, [Next]_vars, ~hurried' PROVE OneClick'
  BY DEF OneClick
<1> USE DEF page, booking, payment, history
<1>1. ASSUME UNCHANGED <<click, latest, runs, hurried>> PROVE OneClick'
  BY <1>1 DEF IInv, OneClick
<1>2. ASSUME Reserving PROVE OneClick'
  BY <1>1, <1>2 DEF Reserving, Select, BookCreate, GiveUpCreate, BookAbandoned, Show, Refetch
<1>3. ASSUME NEW p \in Polls, Counting(p) PROVE OneClick'
  BY <1>1, <1>3 DEF Counting, Poll, ServePoll, FailPoll, ShowPoll
<1>4. ASSUME NEW h \in Holds, Outcome(h) PROVE OneClick'
  BY <1>1, <1>4 DEF Outcome, Confirm, Drop, Expire
<1>5. CASE UNCHANGED vars
  BY <1>1, <1>5 DEF vars
<1>6. ASSUME NEW c \in Clicks, Checkout(c) PROVE OneClick'
  <2>1. /\ ~hurried /\ Placed /\ TypeOK
        /\ \A d, e \in Clicks : {click[d].pc, click[e].pc} \cap {"ready", "over"} = {} => d = e
        /\ \A d \in Clicks : click[d].pc \notin {"ready", "validating", "over"} => latest = d
        /\ \A d \in Clicks : runs[d] # "none" => click[d].pc = "posting"
    <3>1. CASE Press(c)
      BY <3>1 DEF IInv, OneClick, Press
    <3>2. CASE ~Press(c)
      <4>1. ~hurried
        BY <1>6, <3>2 DEF Checkout, Submit, GiveUpPay, ServeGet, FailGet, ShowGet,
                          Finish, Run, OpenPayment, Charge, Abort
      <4> QED BY <4>1 DEF IInv, OneClick
    <3> QED BY <3>1, <3>2
  \* A click that is under way goes on.
  <2>2. ASSUME Moves(c, click') \/ UNCHANGED click, click[c].pc \notin {"ready", "validating", "over"},
               latest' = latest, \A d \in Clicks : d # c => runs'[d] = runs[d],
               runs'[c] # "none" => click'[c].pc = "posting"
        PROVE  OneClick'
    BY <2>1, <2>2 DEF OneClick, Moves
  <2>3. CASE Press(c)
    <3>1. \A d \in Clicks : click[d].pc \in {"ready", "over"}
      BY <2>1, <2>3 DEF Press, Paying
    <3>2. Moves(c, click') /\ click'[c].pc = "validating" /\ UNCHANGED <<latest, runs>>
      BY <2>1, <2>3, PressFacts DEF Press
    <3> QED BY <2>1, <2>3, <3>1, <3>2 DEF OneClick, Moves, Press
  <2>4. CASE Submit(c)
    <3>1. Moves(c, click') /\ click'[c].pc = "posting" /\ latest' = c /\ click[c].pc = "validating"
      BY <2>1, <2>4, SubmitFacts DEF Submit
    <3>2. \A d \in Clicks : d # c => runs'[d] = runs[d]
      BY <2>1, <2>4 DEF Submit, TypeOK
    <3> QED BY <2>1, <3>1, <3>2 DEF OneClick, Moves
  <2>5. CASE ServeGet(c)
    BY <2>1, <2>2, <2>5, ServeGetFacts DEF ServeGet
  <2>6. CASE FailGet(c)
    BY <2>1, <2>2, <2>6, EndFacts DEF FailGet
  <2>7. CASE ShowGet(c)
    BY <2>1, <2>2, <2>7, ShowGetFacts DEF ShowGet
  <2>8. CASE Finish(c)
    BY <2>1, <2>2, <2>8, FinishFacts DEF Finish
  <2>9. CASE Run(c) \/ OpenPayment(c) \/ Charge(c) \/ Abort(c)
    <3>1. /\ runs[c] # "none" /\ latest' = latest
          /\ \/ UNCHANGED click
             \/ (Answered(c) \/ Refused(c)) /\ runs' = [runs EXCEPT ![c] = "none"]
          /\ \A d \in Clicks : d # c => runs'[d] = runs[d]
      BY <2>1, <2>9 DEF Run, OpenPayment, Charge, Abort, Running, TypeOK
    <3>2. click[c].pc = "posting"
      BY <2>1, <3>1
    <3> QED BY <2>1, <2>2, <3>1, <3>2, EndedRunFacts DEF TypeOK
  <2>10. CASE GiveUpPay(c)
    BY <2>10 DEF GiveUpPay
  <2> QED BY <1>6, <2>3, <2>4, <2>5, <2>6, <2>7, <2>8, <2>9, <2>10 DEF Checkout
<1> QED BY <1>2, <1>3, <1>4, <1>5, <1>6 DEF Next

LEMMA NextOneRun == IInv /\ [Next]_vars => OneRun'
<1> SUFFICES ASSUME IInv, [Next]_vars PROVE OneRun'
  OBVIOUS
<1> USE DEF page, booking, payment, history
<1>1. TypeOK /\ Placed /\ OneClick /\ OneRun
  BY DEF IInv
<1>2. ASSUME UNCHANGED <<pay, charges, overlapped>>, hurried => hurried',
             \A d \in Clicks : runs'[d] \in {"begun", "charging"} => runs'[d] = runs[d],
             \/ shown' = shown
             \/ shown = Nothing
             \/ shown' # Nothing /\ shown'.hold = shown.hold
      PROVE  OneRun'
  BY <1>1, <1>2 DEF OneRun, Running
<1>3. ASSUME Reserving PROVE OneRun'
  <2>1. shown' = shown \/ shown = Nothing
    BY <1>1, <1>3 DEF Reserving, Select, BookCreate, GiveUpCreate, BookAbandoned, Show, Refetch,
                      Placed, Idle
  <2> QED BY <1>2, <1>3, <2>1
          DEF Reserving, Select, BookCreate, GiveUpCreate, BookAbandoned, Show, Refetch
<1>4. ASSUME NEW p \in Polls, Counting(p) PROVE OneRun'
  <2>1. CASE ShowPoll(p)
    <3>1. shown # Nothing
      BY <1>1, <2>1 DEF ShowPoll, Placed, Replies, Statuses, Active, Final
    <3>2. shown' = shown \/ (shown' # Nothing /\ shown'.hold = shown.hold)
      BY <1>1, <2>1, <3>1, DisplayFacts DEF ShowPoll, Replies
    <3> QED BY <1>2, <2>1, <3>2 DEF ShowPoll
  <2>2. CASE Poll(p) \/ ServePoll(p) \/ FailPoll(p)
    BY <1>2, <2>2 DEF Poll, ServePoll, FailPoll
  <2> QED BY <1>4, <2>1, <2>2 DEF Counting
<1>5. ASSUME NEW h \in Holds, Outcome(h) PROVE OneRun'
  BY <1>2, <1>5 DEF Outcome, Confirm, Drop, Expire
<1>6. CASE UNCHANGED vars
  BY <1>2, <1>6 DEF vars
<1>7. ASSUME NEW c \in Clicks, Checkout(c) PROVE OneRun'
  <2>1. CASE Press(c) \/ GiveUpPay(c) \/ ServeGet(c) \/ FailGet(c)
    BY <1>2, <2>1 DEF Press, GiveUpPay, ServeGet, FailGet
  <2>2. CASE Submit(c)
    BY <1>1, <1>2, <2>2 DEF Submit, TypeOK
  <2>3. CASE ShowGet(c)
    <3>1. shown' = shown \/ (shown' # Nothing /\ shown'.hold = shown.hold)
      BY <1>1, <2>3, ShowGetFacts, DisplayFacts
    <3> QED BY <1>2, <2>3, <3>1 DEF ShowGet
  <2>4. CASE Finish(c)
    <3>1. shown' # Nothing /\ shown'.hold = shown.hold
      BY <1>1, <2>4, FinishFacts, DisplayFacts
    <3> QED BY <1>2, <2>4, <3>1 DEF Finish
  <2>5. ASSUME runs[c] # "none"
        PROVE  shown # Nothing /\ shown.hold \in Holds /\ runs \in [Clicks -> {"none", "asked", "begun", "charging"}]
    BY <1>1, <2>5, ShownFacts DEF Placed, TypeOK
  <2>6. CASE Run(c)
    <3>1. CASE (Replays(shown.hold) \/ UNCHANGED overlapped) /\ runs' = [runs EXCEPT ![c] = "none"]
      BY <1>2, <2>5, <2>6, <3>1 DEF Run
    <3>2. CASE /\ ~Replays(shown.hold) /\ runs' = [runs EXCEPT ![c] = "begun"]
               /\ overlapped' = (overlapped \/ \E d \in Clicks : Running(d))
      <4>1. charges = 0
        BY <1>1, <2>5, <2>6, <3>2 DEF Run, Replays, OneRun, TypeOK
      <4>2. \A d \in Clicks : Running(d) => hurried
        BY <1>1, <2>6 DEF Run, OneClick, Running
      <4>3. UNCHANGED <<shown, pay, charges, hurried>>
        BY <2>6 DEF Run
      <4>4. \A d \in Clicks : runs'[d] \in {"begun", "charging"} => d = c \/ Running(d)
        BY <2>5, <2>6, <3>2 DEF Run, Running
      <4>5. overlapped' => hurried'
        BY <1>1, <3>2, <4>2, <4>3 DEF OneRun
      <4>6. ~overlapped' => \A d \in Clicks : runs'[d] \in {"begun", "charging"} => d = c
        BY <3>2, <4>4
      <4> QED BY <4>1, <4>3, <4>5, <4>6 DEF OneRun, Running
    <3> QED BY <2>6, <3>1, <3>2 DEF Run
  <2>7. CASE OpenPayment(c)
    BY <1>1, <2>5, <2>7 DEF OpenPayment, OneRun, Running, TypeOK
  <2>8. CASE Charge(c)
    BY <1>1, <2>5, <2>8 DEF Charge, OneRun, Running, TypeOK
  <2>9. CASE Abort(c)
    <3>1. runs[c] # "none" /\ runs' = [runs EXCEPT ![c] = "none"]
      BY <2>9 DEF Abort, Running
    <3> QED BY <1>2, <2>5, <2>9, <3>1 DEF Abort
  <2> QED BY <1>7, <2>1, <2>2, <2>3, <2>4, <2>6, <2>7, <2>8, <2>9 DEF Checkout
<1> QED BY <1>3, <1>4, <1>5, <1>6, <1>7 DEF Next

-----------------------------------------------------------------------------
(* Theorems *)

\* The page and its services always satisfy the inductive invariant.
THEOREM WebInvariant == Spec => []IInv
<1>1. IInv /\ [Next]_vars => IInv'
  BY NextTyped, NextTruthful, NextOneHold, NextOneClick, NextOneRun DEF IInv, Typed
<1> QED BY InitIInv, <1>1, PTL DEF Spec

\* Every variable of the page, and of what it can see, keeps its type.
THEOREM WebTypeCorrect == Spec => []TypeOK
<1>1. IInv => TypeOK
  BY DEF IInv
<1> QED BY <1>1, WebInvariant, PTL

\* A ticket on the screen (checkout-panel.tsx:101-133) is paid for and confirmed,
\* for any number of polls and clicks whose replies come in any order.
THEOREM TicketsAreReal == Spec => []TicketIsReal
<1>1. IInv => TicketIsReal
  <2> SUFFICES ASSUME IInv, shown.status = "CONFIRMED"
               PROVE  row[shown.hold] = "CONFIRMED" /\ pay[shown.hold] = "APPROVED" /\ charges > 0
    BY DEF TicketIsReal
  <2>1. shown # Nothing
    BY DEF Nothing
  <2> QED BY <2>1, ShownFacts DEF IInv, Truthful
<1> QED BY <1>1, WebInvariant, PTL

\* One charge, unless two runs met; and these come from a double click or a
\* timeout (use-create-payment.ts:37), for any number of clicks.
THEOREM OneChargeUnlessHurried == Spec => []ChargedOnce
<1>1. IInv => ChargedOnce
  BY DEF IInv, TypeOK, OneRun, ChargedOnce
<1> QED BY <1>1, WebInvariant, PTL

\* A late request to create takes no second seat for a key that has a checkout
\* (reservations.service.ts:151-162), for any number of requests.
THEOREM KeysHaveOneCheckout == Spec => []OneCheckoutPerKey
<1>1. IInv => OneCheckoutPerKey
  BY DEF IInv, OneHold
<1> QED BY <1>1, WebInvariant, PTL
=============================================================================

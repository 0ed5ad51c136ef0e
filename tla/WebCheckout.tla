---------------------------- MODULE WebCheckout ----------------------------
(***************************************************************************)
(* The booking page of the web client (apps/web/src/components/booking and *)
(* hooks) and the customer on it: a click on a seat, the countdown's polls *)
(* and the clicks on "Pagar agora", each with calls of its own through the *)
(* API gateway, whose replies come in any order, late or not at all.       *)
(* Booking and Payment are reduced to what the page can see of one seat;   *)
(* modules Booking and CheckoutSaga have their steps.                      *)
(***************************************************************************)
EXTENDS Naturals

CONSTANTS Clicks,     \* bound: times the customer presses "Pagar agora"
          Polls,      \* bound: GETs of the countdown under way
          MaxHolds,   \* bound: holds the page's key gets
          Attempts,   \* GETs after a payment
          MaxFaults,  \* bound: calls that fail
          None

ASSUME WebAssumption ==
  /\ Clicks \subseteq Nat   \* in the order they are pressed
  /\ MaxHolds \in Nat
  /\ Attempts \in Nat \ {0}
  /\ MaxFaults \in Nat
  /\ None \notin Clicks

VARIABLES
  map,        \* the seat as the page's copy of the seat map has it
  reserving,  \* the call of POST /reservations
  shown,      \* the reservation on the screen: its hold and status
  polls,      \* the countdown's GETs
  click,      \* the clicks on "Pagar agora": where each payMutation is
  latest,     \* the mutation the button watches
  made,       \* holds made so far; they are 1..made
  held,       \* holds alive in Redis
  row,        \* Reservation.status of each hold's row
  pay,        \* Payment.status for the key pay-{hold}
  charges,    \* times a card was charged
  runs,       \* CheckoutSagaService.run, for the click that asked for it
  abandoned,  \* requests to create that nobody waits for
  hurried,    \* history: a click came before the button was disabled or after a timeout
  overlapped, \* history: two runs at once
  faults

page == <<map, reserving, shown, polls, click, latest>>
booking == <<made, held, row>>
payment == <<pay, charges, runs>>
history == <<hurried, overlapped>>
vars == <<page, booking, payment, abandoned, history, faults>>

Holds == 1..MaxHolds

Active == {"RESERVED", "PENDING_PAYMENT"}
Final == {"CONFIRMED", "CANCELLED", "EXPIRED"}
Statuses == Active \cup Final
Nothing == [hold |-> 0, status |-> "none"]

Reservation == [hold : Holds, status : Statuses]

\* What comes back from a GET: a status, or an HTTP error.
Replies == Statuses \cup {"error"}

Points == {"ready", "validating", "posting", "asked", "answered", "refetching", "over"}

TypeOK ==
  /\ map \in {"AVAILABLE", "taken"}
  /\ reserving \in [pc : {"idle", "asked"}, reply : {Nothing}]
                     \cup [pc : {"answered"}, reply : Reservation]
  /\ shown \in Reservation \cup {Nothing}
  /\ polls \in [Polls -> Replies \cup {"free", "asked"}]
  /\ click \in [Clicks -> [pc : Points, left : 0..Attempts, got : Replies \cup {"none"}]]
  /\ latest \in Clicks \cup {None}
  /\ made \in 0..MaxHolds
  /\ held \subseteq 1..made
  /\ row \in [Holds -> {"none", "PENDING_PAYMENT"} \cup Final]
  /\ pay \in [Holds -> {"none", "PENDING", "APPROVED"}]
  /\ charges \in Nat
  /\ runs \in [Clicks -> {"none", "asked", "begun", "charging"}]
  /\ abandoned \in 0..MaxFaults
  /\ hurried \in BOOLEAN /\ overlapped \in BOOLEAN
  /\ faults \in 0..MaxFaults

Idle == [pc |-> "idle", reply |-> Nothing]

Init ==
  /\ map = "AVAILABLE"
  /\ reserving = Idle
  /\ shown = Nothing
  /\ polls = [p \in Polls |-> "free"]
  /\ click = [c \in Clicks |-> [pc |-> "ready", left |-> 0, got |-> "none"]]
  /\ latest = None
  /\ made = 0 /\ held = {}
  /\ row = [h \in Holds |-> "none"]
  /\ pay = [h \in Holds |-> "none"]
  /\ charges = 0
  /\ runs = [c \in Clicks |-> "none"]
  /\ abandoned = 0
  /\ hurried = FALSE /\ overlapped = FALSE
  /\ faults = 0

Fault == faults < MaxFaults /\ faults' = faults + 1

-----------------------------------------------------------------------------
(* What the services answer *)

\* toHoldResponse and toDbResponse, reduced to the status.
HoldView == "RESERVED"
RowView(h) == row[h]

\* findById: the hold hides its row, unless the row is PENDING_PAYMENT; without
\* hold and row the reservation is not found.
MutantAnswer(h) ==   \* without NotFoundException
  IF h \in held THEN (IF row[h] = "PENDING_PAYMENT" THEN RowView(h) ELSE HoldView) ELSE RowView(h)
Answer(h) ==
  IF h \in held THEN (IF row[h] = "PENDING_PAYMENT" THEN RowView(h) ELSE HoldView)
  ELSE IF row[h] = "none" THEN "error" ELSE RowView(h)

\* getSeats: a seat of this customer is not free; what others do with it is
\* not the page's to know.
SeatsAnswer ==
  IF held # {} \/ \E h \in Holds : row[h] = "CONFIRMED"
  THEN {"taken"} ELSE {"AVAILABLE", "taken"}

\* create with the page's key: its hold again, or its row, or a new hold, or a
\* refusal because somebody else has the seat.
MutantBooked == {}   \* without existingPaid
Booked == {h \in Holds : row[h] # "none"}
Replay(h) == [hold |-> h, status |-> IF h \in held THEN HoldView ELSE RowView(h)]
Known == IF held # {} THEN held ELSE Booked

Create(reply) ==
  \/ \E h \in Known : reply = Replay(h) /\ UNCHANGED booking
  \/ /\ Known = {} /\ made < MaxHolds
     /\ made' = made + 1
     /\ held' = held \cup {made'}
     /\ reply = [hold |-> made', status |-> HoldView]
     /\ UNCHANGED row
  \/ Known = {} /\ reply = Nothing /\ UNCHANGED booking

-----------------------------------------------------------------------------
(* Choosing the seat: useCreateReservation *)

\* The map is disabled while a call is pending and once there is a reservation.
Select ==
  /\ map = "AVAILABLE" /\ reserving = Idle /\ shown = Nothing
  /\ reserving' = [pc |-> "asked", reply |-> Nothing]
  /\ UNCHANGED <<map, shown, polls, click, latest, booking, payment, abandoned, history, faults>>

BookCreate ==
  /\ reserving.pc = "asked"
  /\ \E reply \in Reservation \cup {Nothing} :
       /\ Create(reply)
       /\ reserving' = IF reply = Nothing THEN Idle ELSE [pc |-> "answered", reply |-> reply]
  /\ UNCHANGED <<map, shown, polls, click, latest, payment, abandoned, history, faults>>

\* No reply in 15 s: the page gets an error, and the request stays in the queue.
GiveUpCreate ==
  /\ reserving.pc = "asked" /\ Fault
  /\ reserving' = Idle
  /\ abandoned' = abandoned + 1
  /\ UNCHANGED <<map, shown, polls, click, latest, booking, payment, history>>

BookAbandoned ==
  /\ abandoned > 0
  /\ abandoned' = abandoned - 1
  /\ \E reply \in Reservation \cup {Nothing} : Create(reply)
  /\ UNCHANGED <<page, payment, history, faults>>

\* onSuccess: the map again, then the reservation.
Show ==
  /\ reserving.pc = "answered"
  /\ map' \in SeatsAnswer
  /\ shown' = reserving.reply
  /\ reserving' = Idle
  /\ UNCHANGED <<polls, click, latest, booking, payment, abandoned, history, faults>>

\* The map again after an error, or when the browser is back on line.  Later
\* answers are left out: with a reservation on the screen the map is disabled.
Refetch ==
  /\ shown = Nothing
  /\ map' \in SeatsAnswer
  /\ UNCHANGED <<reserving, shown, polls, click, latest, booking, payment, abandoned, history, faults>>

-----------------------------------------------------------------------------
(* The countdown: useReservationCountdown *)

Display(status) == shown' = [shown EXCEPT !.status = status]

\* The interval is set again for every status shown, and kept for these two.
MutantTicking == shown.status = "RESERVED"   \* stops when the payment begins
Ticking == shown.status \in Active

Poll(p) ==
  /\ polls[p] = "free" /\ Ticking
  /\ polls' = [polls EXCEPT ![p] = "asked"]
  /\ UNCHANGED <<map, reserving, shown, click, latest, booking, payment, abandoned, history, faults>>

ServePoll(p) ==
  /\ polls[p] = "asked"
  /\ polls' = [polls EXCEPT ![p] = Answer(shown.hold)]
  /\ UNCHANGED <<map, reserving, shown, click, latest, booking, payment, abandoned, history, faults>>

FailPoll(p) ==
  /\ polls[p] = "asked" /\ Fault
  /\ polls' = [polls EXCEPT ![p] = "error"]
  /\ UNCHANGED <<map, reserving, shown, click, latest, booking, payment, abandoned, history>>

\* Replies come in any order, after the interval was cleared as well; errors
\* are ignored.
ShowPoll(p) ==
  /\ polls[p] \in Replies
  /\ IF polls[p] = "error" THEN UNCHANGED shown ELSE Display(polls[p])
  /\ polls' = [polls EXCEPT ![p] = "free"]
  /\ UNCHANGED <<map, reserving, click, latest, booking, payment, abandoned, history, faults>>

-----------------------------------------------------------------------------
(* Paying: useCreatePayment *)

Ended == [pc |-> "over", left |-> 0, got |-> "none"]

Goto(c, point) == click' = [click EXCEPT ![c].pc = point]
End(c) == click' = [click EXCEPT ![c] = Ended]

\* holdActive.  The seconds left are by the browser's clock: they may be up for
\* the page and not for Redis, and the other way round.
FormShown == shown.status \in Active

\* isPending, of the mutation that was started last
Paying == latest # None /\ click[latest].pc # "over"

\* The form is validated before payMutation starts, so that a second click may
\* come before the button is disabled.
Press(c) ==
  /\ FormShown /\ ~Paying
  /\ click[c].pc = "ready"
  /\ \A d \in Clicks : d < c => click[d].pc # "ready"
  /\ Goto(c, "validating")
  /\ hurried' = (hurried \/ \E d \in Clicks : click[d].pc = "validating")
  /\ UNCHANGED <<map, reserving, shown, polls, latest, booking, payment, abandoned, overlapped, faults>>

Submit(c) ==
  /\ click[c].pc = "validating"
  /\ Goto(c, "posting")
  /\ latest' = c
  /\ runs' = [runs EXCEPT ![c] = "asked"]
  /\ UNCHANGED <<map, reserving, shown, polls, booking, pay, charges, abandoned, history, faults>>

\* The reply to the POST, if the click still waits for it.
Answered(c) ==
  click' = [click EXCEPT ![c] = IF @.pc = "posting"
                                THEN [pc |-> "asked", left |-> Attempts, got |-> "none"] ELSE @]
Refused(c) == click' = [click EXCEPT ![c] = IF @.pc = "posting" THEN Ended ELSE @]

\* No reply in 15 s: an error on the screen, and the run goes on.
GiveUpPay(c) ==
  /\ click[c].pc = "posting"
  /\ End(c)
  /\ hurried' = TRUE
  /\ UNCHANGED <<map, reserving, shown, polls, latest, booking, payment, abandoned, overlapped, faults>>

ServeGet(c) ==
  /\ click[c].pc = "asked"
  /\ click' = [click EXCEPT ![c].pc = "answered", ![c].got = Answer(shown.hold)]
  /\ UNCHANGED <<map, reserving, shown, polls, latest, booking, payment, abandoned, history, faults>>

FailGet(c) ==
  /\ click[c].pc = "asked" /\ Fault
  /\ End(c)
  /\ UNCHANGED <<map, reserving, shown, polls, latest, booking, payment, abandoned, history>>

\* One turn of the loop; EXPIRED does not end it.
ShowGet(c) ==
  LET got == click[c].got
      last == got \in {"CONFIRMED", "CANCELLED"} \/ click[c].left = 1 IN
  /\ click[c].pc = "answered"
  /\ \/ got = "error" /\ End(c) /\ UNCHANGED shown
     \/ /\ got # "error"
        /\ Display(got)
        /\ click' = [click EXCEPT ![c].pc = IF last THEN "refetching" ELSE "asked",
                                  ![c].left = IF last THEN 0 ELSE @ - 1]
  /\ UNCHANGED <<map, reserving, polls, latest, booking, payment, abandoned, history, faults>>

\* onSuccess: the map again, then the reservation the loop ended with.
MutantFinish(c) ==   \* trusts the payment
  /\ click[c].pc = "refetching"
  /\ Display(IF pay[shown.hold] = "APPROVED" THEN "CONFIRMED" ELSE click[c].got)
  /\ End(c)
  /\ UNCHANGED <<map, reserving, polls, latest, booking, payment, abandoned, history, faults>>
Finish(c) ==
  /\ click[c].pc = "refetching"
  /\ Display(click[c].got)
  /\ End(c)
  /\ UNCHANGED <<map, reserving, polls, latest, booking, payment, abandoned, history, faults>>

-----------------------------------------------------------------------------
(* Payment and Booking, for the reservation on the screen *)

\* run: a payment with the key, or an open one of the reservation, is replayed;
\* otherwise the window is opened, if the hold is there.
MutantReplays(h) == FALSE   \* without existingPayment and activePayment
Replays(h) == pay[h] # "none"
Running(c) == runs[c] \in {"begun", "charging"}
Run(c) ==
  LET h == shown.hold
      payable == h \in held /\ row[h] \notin Final IN
  /\ runs[c] = "asked"
  /\ \/ Replays(h) /\ Answered(c) /\ runs' = [runs EXCEPT ![c] = "none"] /\ UNCHANGED <<row, overlapped>>
     \/ /\ ~Replays(h) /\ payable
        /\ row' = [row EXCEPT ![h] = "PENDING_PAYMENT"]
        /\ runs' = [runs EXCEPT ![c] = "begun"]
        /\ overlapped' = (overlapped \/ \E d \in Clicks : Running(d))
        /\ UNCHANGED click
     \/ ~Replays(h) /\ ~payable /\ Refused(c) /\ runs' = [runs EXCEPT ![c] = "none"] /\ UNCHANGED <<row, overlapped>>
  /\ UNCHANGED <<map, reserving, shown, polls, latest, made, held, pay, charges, abandoned, hurried, faults>>

\* createPaymentRow: a row with the key is taken over.
OpenPayment(c) ==
  /\ runs[c] = "begun"
  /\ runs' = [runs EXCEPT ![c] = "charging"]
  /\ pay' = [pay EXCEPT ![shown.hold] = IF @ = "none" THEN "PENDING" ELSE @]
  /\ UNCHANGED <<page, booking, charges, abandoned, history, faults>>

\* The web client never asks for a decline (forceFail).
Charge(c) ==
  /\ runs[c] = "charging"
  /\ runs' = [runs EXCEPT ![c] = "none"]
  /\ pay' = [pay EXCEPT ![shown.hold] = "APPROVED"]
  /\ charges' = charges + 1
  /\ Answered(c)
  /\ UNCHANGED <<map, reserving, shown, polls, latest, booking, abandoned, history, faults>>

\* A run that fails: compensated, or left to the expiry.
Abort(c) ==
  LET h == shown.hold IN
  /\ Running(c) /\ Fault
  /\ runs' = [runs EXCEPT ![c] = "none"]
  /\ Refused(c)
  /\ \/ UNCHANGED booking
     \/ /\ pay[h] # "APPROVED" /\ row[h] \in {"PENDING_PAYMENT", "CANCELLED"}
        /\ row' = [row EXCEPT ![h] = "CANCELLED"]
        /\ held' = held \ {h}
        /\ UNCHANGED made
  /\ UNCHANGED <<map, reserving, shown, polls, latest, pay, charges, abandoned, history>>

\* onPaymentApproved, up to the commit; the hold is deleted afterwards.
Confirm(h) ==
  /\ pay[h] = "APPROVED" /\ row[h] = "PENDING_PAYMENT"
  /\ row' = [row EXCEPT ![h] = "CONFIRMED"]
  /\ UNCHANGED <<page, made, held, payment, abandoned, history, faults>>

\* The hold is deleted or runs out.
Drop(h) ==
  /\ h \in held
  /\ held' = held \ {h}
  /\ UNCHANGED <<page, made, row, payment, abandoned, history, faults>>

\* healOrphans and expireHolds
Expire(h) ==
  /\ h \notin held /\ row[h] = "PENDING_PAYMENT"
  /\ row' = [row EXCEPT ![h] = "EXPIRED"]
  /\ UNCHANGED <<page, made, held, payment, abandoned, history, faults>>

-----------------------------------------------------------------------------
(* The page and its services *)

Reserving == Select \/ BookCreate \/ GiveUpCreate \/ BookAbandoned \/ Show \/ Refetch
Counting(p) == Poll(p) \/ ServePoll(p) \/ FailPoll(p) \/ ShowPoll(p)
Checkout(c) ==
  \/ Press(c) \/ Submit(c) \/ GiveUpPay(c) \/ ServeGet(c) \/ FailGet(c) \/ ShowGet(c) \/ Finish(c)
  \/ Run(c) \/ OpenPayment(c) \/ Charge(c) \/ Abort(c)
Outcome(h) == Confirm(h) \/ Drop(h) \/ Expire(h)

Next ==
  \/ Reserving
  \/ \E p \in Polls : Counting(p)
  \/ \E c \in Clicks : Checkout(c)
  \/ \E h \in Holds : Outcome(h)

Spec == Init /\ [][Next]_vars

\* Timers fire and GETs are answered or time out; a hold ends.  Payment may
\* never answer, and nobody has to click.
Fairness ==
  /\ \A p \in Polls : WF_vars(Poll(p)) /\ WF_vars(ServePoll(p)) /\ WF_vars(ShowPoll(p))
  /\ \A c \in Clicks :
       /\ WF_vars(Submit(c)) /\ WF_vars(ServeGet(c)) /\ WF_vars(ShowGet(c)) /\ WF_vars(Finish(c))
  /\ \A h \in Holds : WF_vars(Drop(h))

FairSpec == Spec /\ Fairness

-----------------------------------------------------------------------------
(* Properties *)

\* A ticket on the screen (checkout-panel.tsx:101-133) is a reservation that was
\* charged and confirmed, whatever late reply put it there.
TicketIsReal ==
  shown.status = "CONFIRMED" =>
    row[shown.hold] = "CONFIRMED" /\ pay[shown.hold] = "APPROVED" /\ charges > 0

\* However often the button is pressed and whatever was shown in between, the
\* customer is charged once (use-create-payment.ts:37), unless two runs met in
\* Payment; and they meet only after a double click or the gateway's timeout
\* (CheckoutSaga sets the calls that never meet apart with Alone).
ChargedOnce == (charges > 1 => overlapped) /\ (overlapped => hurried)

\* A request to create that is served late never takes the seat again for a
\* customer who had a checkout with this key (reservations.service.ts:151-162).
OneCheckoutPerKey == \A h \in Holds : row[h] # "none" => held \subseteq {h}

\* When the reservation has ended, the screen comes to say so and stays with it,
\* although older replies are still under way.
ScreenSettles ==
  \A h \in Holds : \A status \in Final :
    [](shown.hold = h /\ row[h] = status => <>[](shown.status = status))
=============================================================================

---------------------------- MODULE MCSeatEvents ----------------------------
(* Booking with Trip, or Booking with Notification.  The conditions below   *)
(* leave out combinations that are met one by one.                          *)
EXTENDS SeatEvents

MCEvents == DomainEvents
MCInterest == Subscriptions
MCDeployments == {{"booking_domain", "trip_domain"}, {"booking_domain", "notification_queue"}}

OneHold == hold[2] = "none"

\* With a second hold there is no fault, one of the two is released and one has
\* a checkout, perhaps the same.
SecondHold ==
  \/ OneHold
  \/ /\ faults = 0
     /\ releases[1] + releases[2] <= 1
     /\ row[1] = "NONE" \/ row[2] = "NONE"

\* With a fault, or a second hold, Payment has one answer.
OneOutcome ==
  (OneHold /\ faults = 0) \/ \A h \in Holds : Cardinality(sent[h]) <= 1

\* Mails depend on no seat: with Notification there is one hold, not released.
ForMails == "notification_queue" \in bound => OneHold /\ releases[1] = 0

MCNext == Next /\ (SecondHold /\ OneOutcome /\ ForMails)'

MCSpec == Init /\ [][MCNext]_vars /\ Fairness
=============================================================================

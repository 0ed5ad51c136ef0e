------------------------------ MODULE MCBooking ------------------------------
(***************************************************************************)
(* Small instances of Booking.  The restricted specifications below only   *)
(* remove behaviours: a property violated under one of them is violated    *)
(* under Spec.                                                             *)
(***************************************************************************)
EXTENDS Booking, TLC

Symmetry ==
  Permutations(Holds) \cup Permutations(Seats) \cup Permutations(Keys) \cup Permutations(Workers)

\* The saga decides once per reservation, and only after beginPayment has
\* written the row.
DecidedOnce ==
  \A h \in Holds : /\ Cardinality(verdict[h]) <= 1
                   /\ verdict[h] # {} => resv[h] # "NONE"

OrderlySpec == Init /\ [][Next /\ DecidedOnce']_vars

\* Rival requests, with approvals as the saga sends them.
RivalSpec == Init /\ [][AcquireNext /\ DecidedOnce']_vars

\* Payments that are declined within their window, each delivered as the saga
\* delivers it, by RPC and by payment.failed; no cron and no elapsed window.
DeclineNext ==
  \/ \E w \in Workers : Create(w) \/ BeginPayment(w) \/ CompensateCheckout(w) \/ ReleaseHold(w)
  \/ \E h \in Minted : Decide(h, "failed")

DeclineSpec == Init /\ [][DeclineNext /\ DecidedOnce']_vars
=============================================================================

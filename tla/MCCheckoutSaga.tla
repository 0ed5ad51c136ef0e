--------------------------- MODULE MCCheckoutSaga ---------------------------
(* One reservation; the keys its customer pays with. *)
EXTENDS CheckoutSaga, TLC

CONSTANT r1

OneReservation == [k \in Keys |-> r1]

Symmetric == Permutations(Keys) \cup Permutations(Calls)

\* No restarts: what fails is a statement or the channel.
SteadySpec == Init /\ [][Work]_vars
=============================================================================

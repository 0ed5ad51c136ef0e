-------------------------- MODULE ReservationLedger --------------------------
(***************************************************************************)
(* What ReservationsService promises the services that read its tables and *)
(* its events, without Redis, handlers, retries or time: what becomes of   *)
(* each reservation, what is announced of it, and which seats are sold.    *)
(* How much it promises depends on what may interleave, hence the three    *)
(* specifications; each implies the one before it.                         *)
(***************************************************************************)
EXTENDS Naturals

CONSTANTS Holds, Seats, None

VARIABLES
  seatOf,   \* the seat a reservation asks for
  status,   \* "none", "open", "confirmed" or "ended"
  sales,    \* times it was announced as confirmed
  returns,  \* times its seat was announced as given back
  sold      \* the seats sold

ledgerVars == <<seatOf, status, sales, returns, sold>>

Init ==
  /\ seatOf = [h \in Holds |-> None]
  /\ status = [h \in Holds |-> "none"]
  /\ sales = [h \in Holds |-> 0]
  /\ returns = [h \in Holds |-> 0]
  /\ sold = {}

Request(h, s) ==
  /\ seatOf[h] = None
  /\ seatOf' = [seatOf EXCEPT ![h] = s]
  /\ UNCHANGED <<status, sales, returns, sold>>

Open(h) ==
  /\ seatOf[h] # None
  /\ status[h] = "none"
  /\ status' = [status EXCEPT ![h] = "open"]
  /\ UNCHANGED <<seatOf, sales, returns, sold>>

\* A confirmation that finds the seat back on the market leaves it there.
Confirm(h) ==
  /\ status[h] = "open"
  /\ status' = [status EXCEPT ![h] = "confirmed"]
  /\ sales' = [sales EXCEPT ![h] = @ + 1]
  /\ sold' \in {sold, sold \cup {seatOf[h]}}
  /\ UNCHANGED <<seatOf, returns>>

Close(h) ==
  /\ status[h] \in {"open", "confirmed"}
  /\ status' = [status EXCEPT ![h] = "ended"]
  /\ UNCHANGED <<seatOf, sales, returns, sold>>

Return(h) ==
  /\ seatOf[h] # None
  /\ returns' = [returns EXCEPT ![h] = @ + 1]
  /\ UNCHANGED <<seatOf, status, sales, sold>>

-----------------------------------------------------------------------------
\* Whatever interleaves: one confirmation and one announcement of it, nothing
\* confirmed or opened again once it has ended, no sold seat taken back.
LooseNext ==
  \E h \in Holds :
    \/ \E s \in Seats : Request(h, s)
    \/ Open(h) \/ Confirm(h) \/ Close(h) \/ Return(h)

LooseSpec == Init /\ [][LooseNext]_ledgerVars

\* One handler at a time: moreover a confirmation is final, and a seat is given
\* back once.
Next ==
  \E h \in Holds :
    \/ \E s \in Seats : Request(h, s)
    \/ Open(h) \/ Confirm(h)
    \/ Close(h) /\ status[h] = "open"
    \/ Return(h) /\ returns[h] = 0

Spec == Init /\ [][Next]_ledgerVars

\* No seat given back: every confirmation sells a seat that was not sold.
StrictNext ==
  \E h \in Holds :
    \/ \E s \in Seats : Request(h, s)
    \/ Open(h)
    \/ Confirm(h) /\ seatOf[h] \notin sold /\ sold' = sold \cup {seatOf[h]}

StrictSpec == Init /\ [][StrictNext]_ledgerVars
=============================================================================

------------------------------ MODULE EventLog ------------------------------
(***************************************************************************)
(* What the outbox promises, without tables, batches or channels: an event *)
(* that was committed is sent, and sent again if need be, until it is      *)
(* closed; after MaxAttempts failed tries it is poisoned; what is closed   *)
(* or poisoned is not sent any more.                                       *)
(***************************************************************************)
EXTENDS Naturals

CONSTANTS Rows, MaxAttempts

VARIABLES
  entry,   \* "none", "open", "published" or "poisoned"
  tries,   \* failed tries
  sent     \* copies handed to the channel

logVars == <<entry, tries, sent>>

Init ==
  /\ entry = [r \in Rows |-> "none"]
  /\ tries = [r \in Rows |-> 0]
  /\ sent = [r \in Rows |-> 0]

Commit(r) ==
  /\ entry[r] = "none"
  /\ entry' = [entry EXCEPT ![r] = "open"]
  /\ UNCHANGED <<tries, sent>>

Send(r) ==
  /\ entry[r] = "open"
  /\ sent' = [sent EXCEPT ![r] = @ + 1]
  /\ UNCHANGED <<entry, tries>>

Close(r) ==
  /\ entry[r] = "open" /\ sent[r] > 0
  /\ entry' = [entry EXCEPT ![r] = "published"]
  /\ UNCHANGED <<tries, sent>>

\* A failure may also be recorded for an event that was closed: the reply to
\* closing it was lost.
Fail(r) ==
  /\ entry[r] \in {"open", "published"}
  /\ tries' = [tries EXCEPT ![r] = @ + 1]
  /\ \/ tries[r] + 1 < MaxAttempts /\ UNCHANGED entry
     \/ /\ tries[r] + 1 >= MaxAttempts
        /\ entry' = [entry EXCEPT ![r] = IF @ = "open" THEN "poisoned" ELSE @]
  /\ UNCHANGED sent

Next == \E r \in Rows : Commit(r) \/ Send(r) \/ Close(r) \/ Fail(r)

Spec == Init /\ [][Next]_logVars
=============================================================================

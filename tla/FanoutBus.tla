------------------------------ MODULE FanoutBus ------------------------------
(***************************************************************************)
(* RabbitMqService (messaging/rabbitmq.service.ts, a copy in each service):*)
(* one fanout exchange, a queue for every service that subscribes, one     *)
(* fanout dead-letter exchange.  The exchange gives every bound queue a    *)
(* copy of every event in one order, so the events form one log and a      *)
(* queue is what became of its copy of each.  A service uses one channel,  *)
(* to publish and to consume; nothing reopens it but a new start.          *)
(***************************************************************************)
EXTENDS Naturals, Sequences, FiniteSets

CONSTANTS Events,     \* what is published
          Interest,   \* Interest[q]: the events whose routing key q's handler asked for
          Prefetch,   \* PREFETCH, 10 in the code
          Deployments, \* the sets of services that may run
          MaxFaults   \* bound: faults in a behaviour

Queues == DOMAIN Interest

ASSUME BusAssumption ==
  /\ Interest \in [Queues -> SUBSET Events]
  /\ IsFiniteSet(Queues)
  /\ Prefetch \in Nat \ {0}
  /\ Deployments \subseteq SUBSET Queues
  /\ MaxFaults \in Nat

VARIABLES
  log,        \* the events the exchange routed
  copies,     \* copies[q][i]: q's copy of log[i]
  bound,      \* queues that exist, with their dead-letter queues
  up,         \* up[q]: the channel of q's service is open
  orphans,    \* orphans[q]: copies whose handler outlives the channel
  deadLetters, \* deadLetters[q]: what lies in q's dead-letter queue
  closings,   \* closings[q]: times the channel was lost
  faults

busVars == <<log, copies, bound, up, orphans, deadLetters, closings, faults>>

\* done counts the times the handler had its effect for this copy.  The handler
\* acks unread what it did not ask for; such a copy is ignored from the start.
Copy == [at : {"missed", "ignored", "ready", "acked", "rejected"}, done : Nat]

BusTypeOK ==
  /\ log \in Seq(Events)
  /\ copies \in [Queues -> [DOMAIN log -> Copy]]
  /\ bound \subseteq Queues
  /\ up \in [Queues -> BOOLEAN]
  /\ orphans \in [Queues -> SUBSET Nat]
  /\ deadLetters \in [Queues -> SUBSET (Queues \X Nat)]
  /\ closings \in [Queues -> Nat]
  /\ faults \in Nat

BusInit ==
  /\ log = <<>>
  /\ copies = [q \in Queues |-> <<>>]
  /\ bound \in Deployments
  /\ up = [q \in Queues |-> q \in bound]
  /\ orphans = [q \in Queues |-> {}]
  /\ deadLetters = [q \in Queues |-> {}]
  /\ closings = [q \in Queues |-> 0]
  /\ faults = 0

Fault == faults < MaxFaults /\ faults' = faults + 1

-----------------------------------------------------------------------------
(* Start and publish *)

\* The process starts again: channel, exchanges, subscription.
\* Handlers of an earlier run of the process are gone.
Start(q) ==
  /\ q \in bound /\ ~up[q]
  /\ up' = [up EXCEPT ![q] = TRUE]
  /\ orphans' = [orphans EXCEPT ![q] = {}]
  /\ UNCHANGED <<log, copies, bound, deadLetters, closings, faults>>

\* The exchange ignores the routing key.  A queue that was never declared, since
\* its service does not run, misses the event.
Arrival(q, e) ==
  IF q \notin bound THEN "missed" ELSE IF e \in Interest[q] THEN "ready" ELSE "ignored"

Route(e) ==
  /\ log' = Append(log, e)
  /\ copies' = [q \in Queues |-> Append(copies[q], [at |-> Arrival(q, e), done |-> 0])]
  /\ UNCHANGED <<bound, up, orphans, deadLetters, closings>>

\* The channel takes the event and waits for no confirm: it may never arrive.
Publish(e) ==
  \/ Route(e) /\ UNCHANGED faults
  \/ Fault /\ UNCHANGED <<log, copies, bound, up, orphans, deadLetters, closings>>

-----------------------------------------------------------------------------
(* Consume *)

Ready(q) == {i \in DOMAIN copies[q] : copies[q][i].at = "ready"}

\* The broker delivers in order while fewer than PREFETCH copies are unacked.  A
\* copy in the window may have a handler running.
Window(q) ==
  {i \in Ready(q) : up[q] /\ Cardinality({j \in Ready(q) : j < i}) < Prefetch}

\* await handler(...), then ack.  Handlers of one queue run side by side and
\* end in any order.
MutantHandle(q, i) ==   \* no ack
  /\ i \in Window(q)
  /\ copies' = [copies EXCEPT ![q][i].done = @ + 1]
  /\ UNCHANGED <<log, bound, up, orphans, deadLetters, closings, faults>>
Handle(q, i) ==
  /\ i \in Window(q)
  /\ copies' = [copies EXCEPT ![q][i] = [at |-> "acked", done |-> @.done + 1]]
  /\ UNCHANGED <<log, bound, up, orphans, deadLetters, closings, faults>>

-----------------------------------------------------------------------------
(* Faults *)

\* The broker takes back what was not acked.  Handlers that run may still have
\* their effect.
Close(q) ==
  /\ up' = [up EXCEPT ![q] = FALSE]
  /\ closings' = [closings EXCEPT ![q] = @ + 1]
  /\ orphans' \in {[orphans EXCEPT ![q] = left] : left \in SUBSET Window(q)}

\* The connection breaks or the process dies.
Drop(q) ==
  /\ Fault
  /\ up[q]
  /\ Close(q)
  /\ UNCHANGED <<log, copies, bound, deadLetters>>

\* A handler throws: nack without requeue, and the broker puts the message into
\* every dead-letter queue.  The error is thrown again and the outer catch
\* nacks once more: an unknown delivery tag, for which the broker closes the
\* channel.  The statement that failed may have its effect all the same.
MutantGivenUp == "acked"   \* an ack for what failed
GivenUp == "rejected"
Reject(q, i) ==
  /\ Fault
  /\ i \in Window(q)
  /\ Close(q)
  /\ copies' = [copies EXCEPT ![q][i].at = GivenUp]
  /\ deadLetters' = [r \in Queues |->
       IF r \in bound THEN deadLetters[r] \cup {<<q, i>>} ELSE deadLetters[r]]
  /\ UNCHANGED <<log, bound>>

\* A handler outlives its channel and has its effect.
Orphan(q, i) ==
  /\ i \in orphans[q]
  /\ orphans' = [orphans EXCEPT ![q] = @ \ {i}]
  /\ copies' = [copies EXCEPT ![q][i].done = @ + 1]
  /\ UNCHANGED <<log, bound, up, deadLetters, closings, faults>>

-----------------------------------------------------------------------------
Consume(q) ==
  \/ Start(q) \/ Drop(q)
  \/ \E i \in DOMAIN log : Handle(q, i) \/ Reject(q, i) \/ Orphan(q, i)

BusNext ==
  \/ \E e \in Events : Publish(e) \/ (Fault /\ Route(e))
  \/ \E q \in Queues : Consume(q)

BusSpec == BusInit /\ [][BusNext]_busVars

-----------------------------------------------------------------------------
(* Properties *)

\* No copy a service should have seen is gone without a trace: what is acked
\* was handled, what was given up lies in the dead-letter queue of its queue.
NothingVanishes ==
  \A q \in Queues : \A i \in DOMAIN log :
    /\ copies[q][i].at = "acked" => copies[q][i].done > 0
    /\ copies[q][i].at = "ignored" => log[i] \notin Interest[q]
    /\ copies[q][i].at = "rejected" => <<q, i>> \in deadLetters[q]

\* A handler has its effect twice for one copy only after its channel was lost.
RepeatsAreClosings ==
  \A q \in Queues : \A i \in DOMAIN log : copies[q][i].done <= 1 + closings[q]
=============================================================================

----------------------------- MODULE OutboxRelay -----------------------------
(***************************************************************************)
(* OutboxRelayService (booking-service/src/outbox/outbox-relay.service.ts):*)
(* flush, called by kick after a commit and by a cron every second, sends  *)
(* the rows of OutboxEvent to the bus.  The flag flushing keeps a second   *)
(* flush out while one runs.  Between two awaits anything else may happen: *)
(* a commit, another call, the loss of the channel, a restart.             *)
(***************************************************************************)
EXTENDS Naturals, FiniteSets

CONSTANTS Rows,         \* events that transactions may enqueue
          After,          \* After[r]: the events whose transactions precede r's
          Stamps,       \* bound: createdAt values
          Calls,        \* bound: calls of flush at once
          BatchSize,    \* take: 50 rows in the code
          MaxAttempts,  \* MAX_ATTEMPTS, 5 in the code
          MaxFaults     \* bound: faults in a behaviour

ASSUME RelayAssumption ==
  /\ IsFiniteSet(Rows)
  /\ After \in [Rows -> SUBSET Rows]
  /\ Stamps \subseteq Nat \ {0}
  /\ BatchSize \in Nat \ {0}
  /\ MaxAttempts \in Nat \ {0}
  /\ MaxFaults \in Nat

VARIABLES
  createdAt,   \* 0 until the row is committed
  attempts,
  published,   \* rows with publishedAt set
  poisoned,    \* rows with poisonedAt set
  sent,        \* copies of the event handed to the channel
  flushing,    \* the flag of the service object
  flush,       \* the calls of flush in flight
  channelUp,   \* RabbitMqService's channel accepts a publish
  faults       \* failed statements and restarts so far

table == <<createdAt, attempts, published, poisoned>>
vars  == <<table, sent, flushing, flush, channelUp, faults>>

\* A row of a batch, as findMany returned it.
Copy == [id : Rows, attempts : Nat]

Idle == [pc |-> "idle", rest |-> {}]

TypeOK ==
  /\ createdAt \in [Rows -> Stamps \cup {0}]
  /\ attempts \in [Rows -> 0..MaxAttempts]
  /\ published \subseteq Rows
  /\ poisoned \subseteq Rows
  /\ sent \in [Rows -> Nat]
  /\ flushing \in BOOLEAN
  /\ flush \in [Calls -> [pc : {"idle", "read", "publish", "mark", "record"}, rest : SUBSET Copy]]
  /\ channelUp \in BOOLEAN
  /\ faults \in Nat

Init ==
  /\ createdAt = [r \in Rows |-> 0]
  /\ attempts = [r \in Rows |-> 0]
  /\ published = {}
  /\ poisoned = {}
  /\ sent = [r \in Rows |-> 0]
  /\ flushing = FALSE
  /\ flush = [c \in Calls |-> Idle]
  /\ channelUp = TRUE
  /\ faults = 0

-----------------------------------------------------------------------------
(* OutboxService.enqueue *)

Committed == {r \in Rows : createdAt[r] > 0}

\* The transaction of r commits.  Transactions that overlap may commit in
\* another order than that of their createdAt; those of After[r] ended before.
Enqueue(r) ==
  /\ r \notin Committed
  /\ After[r] \subseteq Committed
  /\ \E t \in Stamps :
       /\ \A q \in Rows : createdAt[q] # t
       /\ \A q \in After[r] : createdAt[q] < t
       /\ createdAt' = [createdAt EXCEPT ![r] = t]
  /\ UNCHANGED <<attempts, published, poisoned, sent, flushing, flush, channelUp, faults>>

-----------------------------------------------------------------------------
(* flush *)

MutantPending == Committed \ published   \* without the filter on poisonedAt
Pending == Committed \ (published \cup poisoned)

\* orderBy createdAt asc, take BatchSize
Batch == {r \in Pending : Cardinality({q \in Pending : createdAt[q] < createdAt[r]}) < BatchSize}

MutantFirst(c, row) ==   \* orderBy desc
  /\ row \in flush[c].rest
  /\ \A other \in flush[c].rest : createdAt[row.id] >= createdAt[other.id]
First(c, row) ==
  /\ row \in flush[c].rest
  /\ \A other \in flush[c].rest : createdAt[row.id] <= createdAt[other.id]

At(c, point) == flush[c].pc = point

Goto(c, point) == flush' = [flush EXCEPT ![c].pc = point]

Advance(c, row) ==
  flush' = [flush EXCEPT ![c] = [pc |-> "publish", rest |-> @.rest \ {row}]]

MutantEnd(c) ==   \* an error that skips finally
  /\ flush' = [flush EXCEPT ![c] = Idle]
  /\ flushing' = (flush[c].pc # "publish")
\* finally
End(c) ==
  /\ flush' = [flush EXCEPT ![c] = Idle]
  /\ flushing' = FALSE

Fault == faults < MaxFaults /\ faults' = faults + 1

\* if (this.flushing) return
MutantEnter(c) ==   \* without the flag
  /\ At(c, "idle")
  /\ Goto(c, "read")
  /\ flushing' = TRUE
  /\ UNCHANGED <<table, sent, channelUp, faults>>
Enter(c) ==
  /\ At(c, "idle") /\ ~flushing
  /\ Goto(c, "read")
  /\ flushing' = TRUE
  /\ UNCHANGED <<table, sent, channelUp, faults>>

Read(c) ==
  /\ At(c, "read")
  /\ \/ /\ flush' = [flush EXCEPT ![c] =
                       [pc |-> "publish",
                        rest |-> {[id |-> r, attempts |-> attempts[r]] : r \in Batch}]]
        /\ UNCHANGED <<flushing, faults>>
     \/ Fault /\ End(c)
  /\ UNCHANGED <<table, sent, channelUp>>

\* The head of what is left of the batch goes to the channel, which buffers it
\* and confirms nothing; a closed channel throws.  An empty rest ends the call.
Publish(c) ==
  /\ At(c, "publish")
  /\ \/ /\ flush[c].rest = {}
        /\ End(c)
        /\ UNCHANGED sent
     \/ \E row \in flush[c].rest :
          /\ First(c, row)
          /\ channelUp
          /\ sent' = [sent EXCEPT ![row.id] = @ + 1]
          /\ Goto(c, "mark")
          /\ UNCHANGED flushing
     \/ /\ flush[c].rest # {}
        /\ ~channelUp
        /\ Goto(c, "record")
        /\ UNCHANGED <<sent, flushing>>
  /\ UNCHANGED <<table, channelUp, faults>>

\* updateMany where publishedAt is null.  When the statement fails, or its
\* reply is lost, the publish counts as failed.
Mark(c) ==
  /\ At(c, "mark")
  /\ \E row \in flush[c].rest :
       /\ First(c, row)
       /\ \/ /\ published' = published \cup {row.id}
             /\ Advance(c, row)
             /\ UNCHANGED faults
          \/ /\ Fault
             /\ published' \in {published, published \cup {row.id}}
             /\ Goto(c, "record")
  /\ UNCHANGED <<createdAt, attempts, poisoned, sent, flushing, channelUp>>

\* The catch: attempts of the copy plus one, poisonedAt at the limit.  When
\* this statement fails too, the call ends.
MutantLimit == MaxAttempts + 1   \* > for >=
Limit == MaxAttempts
Record(c) ==
  /\ At(c, "record")
  /\ \/ \E row \in flush[c].rest :
          /\ First(c, row)
          /\ attempts' = [attempts EXCEPT ![row.id] = row.attempts + 1]
          /\ poisoned' = IF row.attempts + 1 >= Limit THEN poisoned \cup {row.id} ELSE poisoned
          /\ Advance(c, row)
          /\ UNCHANGED <<flushing, faults>>
     \/ /\ Fault
        /\ End(c)
        /\ UNCHANGED <<attempts, poisoned>>
  /\ UNCHANGED <<createdAt, published, sent, channelUp>>

Step(c) == Read(c) \/ Publish(c) \/ Mark(c) \/ Record(c)

-----------------------------------------------------------------------------
(* The environment *)

\* The broker closes the connection; nothing reconnects.
LoseChannel ==
  /\ channelUp
  /\ Fault
  /\ channelUp' = FALSE
  /\ UNCHANGED <<table, sent, flushing, flush>>

\* The process dies and starts again: the flag and the calls are gone.
Restart ==
  /\ Fault
  /\ flushing' = FALSE
  /\ flush' = [c \in Calls |-> Idle]
  /\ channelUp' = TRUE
  /\ UNCHANGED <<table, sent>>

Next ==
  \/ \E r \in Rows : Enqueue(r)
  \/ \E c \in Calls : Enter(c) \/ Step(c)
  \/ LoseChannel \/ Restart

Spec == Init /\ [][Next]_vars

\* A call that runs reaches its end, and the cron calls flush every second.
Fairness ==
  /\ \A c \in Calls : WF_vars(Step(c))
  /\ WF_vars(\E c \in Calls : Enter(c))

FairSpec == Spec /\ Fairness

-----------------------------------------------------------------------------
(* Properties *)

\* Every copy of an event beyond the first is paid for by a fault: a restart
\* between publish and mark, or a mark that failed.  kick and cron never send
\* an event twice by themselves.
CopiesAreFaults == \A r \in Rows : sent[r] <= 1 + faults

\* An event is not sent before one that its transaction follows (seat.confirmed
\* before the seat.reserved of the same reservation), unless a publish of the
\* earlier one was recorded as failed.
InOrder ==
  \A r \in Rows : \A q \in After[r] :
    sent[r] > 0 => sent[q] > 0 \/ attempts[q] > 0

Log == INSTANCE EventLog WITH
  entry <- [r \in Rows |-> IF r \in published THEN "published"
                           ELSE IF r \in poisoned THEN "poisoned"
                           ELSE IF r \in Committed THEN "open" ELSE "none"],
  tries <- attempts

\* The relay implements the log: nothing is marked that was not sent, nothing
\* is sent again that was marked or poisoned, MAX_ATTEMPTS failures poison.
ImplementsLog == Log!Spec

\* Every committed event is published or poisoned in the end.
EventsSettle == \A r \in Rows : r \in Committed ~> r \in published \cup poisoned
=============================================================================

-------------------------- MODULE OutboxRelayProofs --------------------------
(***************************************************************************)
(* Theorems about OutboxRelay, for every set of events, batch size, limit  *)
(* of attempts and number of faults.                                       *)
(***************************************************************************)
EXTENDS OutboxRelay, FiniteSetTheorems, TLAPS

Running(c) == flush[c].pc # "idle"

\* The flag says whether a call runs, and no two do.
OneFlush ==
  /\ \A c \in Calls : Running(c) => flushing
  /\ \A c, d \in Calls : Running(c) /\ Running(d) => c = d

\* createdAt orders the rows of the table, each after those it follows.
Ordered ==
  /\ \A q, r \in Committed : createdAt[q] = createdAt[r] => q = r
  /\ \A r \in Committed : \A q \in After[r] : q \in Committed /\ createdAt[q] < createdAt[r]

\* Only committed rows are settled; the limit of attempts is what poisons.
Settled ==
  /\ published \subseteq Committed
  /\ poisoned \subseteq Committed
  /\ \A r \in published : sent[r] > 0
  /\ \A r \in poisoned : attempts[r] > 0
  /\ \A r \in Rows \ poisoned : attempts[r] < MaxAttempts

\* A copy is up to date, and its row still waits; only the row whose failure
\* is about to be recorded may be published (the reply was lost).
FreshCopies ==
  \A c \in Calls :
    /\ flush[c].pc \in {"idle", "read"} => flush[c].rest = {}
    /\ \A row \in flush[c].rest :
         /\ row.attempts = attempts[row.id]
         /\ row.id \in Committed \ poisoned
         /\ row.id \in published => At(c, "record") /\ First(c, row)
         /\ At(c, "mark") /\ First(c, row) => sent[row.id] > 0

Marking(r) ==
  \E c \in Calls : At(c, "mark") /\ \E row \in flush[c].rest : First(c, row) /\ row.id = r

\* Strengthens CopiesAreFaults: a copy that no fault has paid for belongs to a
\* row that is published or whose mark comes next.
CopiesPaid ==
  \A r \in Rows :
    /\ sent[r] <= 1 + faults
    /\ r \notin published /\ ~Marking(r) => sent[r] <= faults

\* Strengthens InOrder: a row of a batch has its predecessors before it in the
\* batch, or they were tried.
BatchInOrder ==
  \A c \in Calls : \A row \in flush[c].rest : \A q \in After[row.id] :
    sent[q] > 0 \/ attempts[q] > 0 \/ \E other \in flush[c].rest : other.id = q

IInv == TypeOK /\ OneFlush /\ Ordered /\ Settled /\ FreshCopies /\ CopiesPaid
           /\ InOrder /\ BatchInOrder

-----------------------------------------------------------------------------
(* What a step needs to know of the row it works on *)

LEMMA StampsAreNumbers ==
  ASSUME TypeOK
  PROVE  createdAt \in [Rows -> Nat]
<1>1. Stamps \cup {0} \subseteq Nat
  BY RelayAssumption
<1> QED BY <1>1 DEF TypeOK

LEMMA FirstIsUnique ==
  ASSUME IInv, NEW c \in Calls, NEW row, First(c, row), NEW other, First(c, other)
  PROVE  other = row
<1>1. row \in flush[c].rest /\ other \in flush[c].rest
  BY DEF First
<1>2. row \in Copy /\ other \in Copy
  BY <1>1 DEF IInv, TypeOK
<1>3. createdAt[row.id] = createdAt[other.id]
  <2>1. createdAt[row.id] \in Nat /\ createdAt[other.id] \in Nat
    BY <1>2, StampsAreNumbers DEF IInv, Copy
  <2>2. createdAt[row.id] <= createdAt[other.id] /\ createdAt[other.id] <= createdAt[row.id]
    BY <1>1 DEF First
  <2> QED BY <2>1, <2>2
<1>4. row.id = other.id
  BY <1>1, <1>3 DEF IInv, FreshCopies, Ordered
<1>5. row.attempts = other.attempts
  BY <1>1, <1>4 DEF IInv, FreshCopies
<1> QED BY <1>2, <1>4, <1>5 DEF Copy

LEMMA RowFacts ==
  ASSUME IInv, NEW c \in Calls, NEW row \in flush[c].rest
  PROVE  /\ row \in Copy /\ row.id \in Rows /\ row.attempts = attempts[row.id]
         /\ row.id \in Committed \ poisoned
         /\ attempts[row.id] \in Nat /\ attempts[row.id] < MaxAttempts
BY DEF IInv, TypeOK, Copy, FreshCopies, Settled, Committed

\* While one call runs, no other has a batch.
LEMMA OthersAreIdle ==
  ASSUME IInv, NEW c \in Calls, Running(c), NEW d \in Calls, d # c
  PROVE  flush[d].pc = "idle" /\ flush[d].rest = {}
BY DEF IInv, OneFlush, Running, FreshCopies

\* The batch holds, with a row, every pending row that is older.
LEMMA BatchIsDownClosed ==
  ASSUME TypeOK, NEW r \in Batch, NEW q \in Pending, createdAt[q] < createdAt[r]
  PROVE  q \in Batch
<1> DEFINE Older(x) == {p \in Pending : createdAt[p] < createdAt[x]}
<1>1. Older(q) \subseteq Older(r)
  <2>1. SUFFICES ASSUME NEW p \in Older(q)
                 PROVE  createdAt[p] < createdAt[r]
    OBVIOUS
  <2>2. p \in Rows /\ q \in Rows /\ r \in Rows
    BY DEF Pending, Committed, Batch
  <2>3. createdAt[p] \in Nat /\ createdAt[q] \in Nat /\ createdAt[r] \in Nat
    BY <2>2, StampsAreNumbers
  <2> QED BY <2>1, <2>3
<1>2. IsFiniteSet(Older(r))
  BY RelayAssumption, FS_Subset DEF Pending, Committed
<1>3. Cardinality(Older(q)) <= Cardinality(Older(r)) /\ IsFiniteSet(Older(q))
  BY <1>1, <1>2, FS_Subset
<1>4. Cardinality(Older(q)) \in Nat /\ Cardinality(Older(r)) \in Nat
  BY <1>2, <1>3, FS_CardinalityType
<1>5. Cardinality(Older(r)) < BatchSize
  BY DEF Batch
<1> QED BY <1>3, <1>4, <1>5, RelayAssumption DEF Batch

-----------------------------------------------------------------------------
(* Every step preserves the invariant *)

LEMMA EnqueueStep ==
  ASSUME IInv, NEW r \in Rows, Enqueue(r)
  PROVE  IInv'
<1> USE DEF IInv
<1>1. PICK t \in Stamps : /\ \A q \in Rows : createdAt[q] # t
                          /\ \A q \in After[r] : createdAt[q] < t
                          /\ createdAt' = [createdAt EXCEPT ![r] = t]
  BY DEF Enqueue
<1>2. t \in Nat /\ t > 0
  BY RelayAssumption
<1>3. TypeOK'
  BY <1>1 DEF TypeOK, Enqueue
<1>4. r \notin Committed /\ Committed' = Committed \cup {r} /\ After[r] \subseteq Committed
  BY <1>1, <1>2 DEF Enqueue, Committed, TypeOK
<1>5. \A q \in Committed : q \in Rows /\ createdAt'[q] = createdAt[q]
  BY <1>1, <1>4 DEF Committed, TypeOK
<1>6. createdAt'[r] = t
  BY <1>1 DEF TypeOK
<1>7. Ordered'
  <2>1. ASSUME NEW x \in Committed', NEW y \in Committed', createdAt'[x] = createdAt'[y]
        PROVE  x = y
    BY <1>1, <1>4, <1>5, <1>6, <2>1 DEF Ordered
  <2>2. ASSUME NEW x \in Committed', NEW q \in After[x]
        PROVE  q \in Committed' /\ createdAt'[q] < createdAt'[x]
    BY <1>1, <1>4, <1>5, <1>6, <2>2 DEF Ordered
  <2> QED BY <2>1, <2>2 DEF Ordered
<1>8. \A c \in Calls : \A row \in flush[c].rest : First(c, row)' <=> First(c, row)
  BY <1>5, RowFacts DEF First, Enqueue
<1>9. OneFlush' /\ Settled'
  BY <1>4 DEF OneFlush, Settled, Running, Enqueue
<1>10. FreshCopies'
  BY <1>4, <1>8 DEF FreshCopies, At, Enqueue
<1>11. CopiesPaid'
  BY <1>8 DEF CopiesPaid, Marking, At, Enqueue
<1>12. InOrder' /\ BatchInOrder'
  BY DEF InOrder, BatchInOrder, Enqueue
<1> QED BY <1>3, <1>7, <1>9, <1>10, <1>11, <1>12

LEMMA EnterStep ==
  ASSUME IInv, NEW c \in Calls, Enter(c)
  PROVE  IInv'
<1> USE DEF IInv
<1>1. flush' = [flush EXCEPT ![c].pc = "read"] /\ flushing' = TRUE
      /\ UNCHANGED <<table, sent, channelUp, faults>>
  BY DEF Enter, Goto
<1>2. \A d \in Calls : flush[d].pc = "idle" /\ flush[d].rest = {}
  BY DEF Enter, OneFlush, Running, FreshCopies
<1>3. \A d \in Calls : flush'[d].rest = {} /\ flush'[d].pc = IF d = c THEN "read" ELSE "idle"
  BY <1>1, <1>2 DEF TypeOK
<1>4. TypeOK'
  BY <1>1 DEF TypeOK, table
<1>5. OneFlush' /\ FreshCopies' /\ BatchInOrder'
  BY <1>1, <1>3 DEF OneFlush, FreshCopies, BatchInOrder, Running
<1>6. Ordered' /\ Settled' /\ InOrder'
  BY <1>1 DEF Ordered, Settled, InOrder, Committed, table
<1>8. CopiesPaid'
  BY <1>1, <1>2 DEF CopiesPaid, Marking, At, First, table
<1> QED BY <1>4, <1>5, <1>6, <1>8

\* No call runs any more: after a restart, or when the one call there was ends.
LEMMA AllIdle ==
  ASSUME IInv, UNCHANGED <<table, sent>>, flushing' = FALSE, channelUp' \in BOOLEAN,
         faults' \in Nat,
         \/ faults' = faults + 1
         \/ faults' = faults /\ \A r \in Rows : ~Marking(r),
         flush' \in [Calls -> {Idle}]
  PROVE  IInv'
<1> USE DEF IInv
<1>1. \A d \in Calls : flush'[d].pc = "idle" /\ flush'[d].rest = {}
  BY DEF Idle
<1>2. TypeOK'
  <2>1. Idle \in [pc : {"idle", "read", "publish", "mark", "record"}, rest : SUBSET Copy]
    BY DEF Idle
  <2>2. flush' \in [Calls -> [pc : {"idle", "read", "publish", "mark", "record"},
                             rest : SUBSET Copy]]
    BY <2>1
  <2>3. flushing' \in BOOLEAN
    OBVIOUS
  <2> QED BY <2>2, <2>3 DEF TypeOK, table
<1>3. OneFlush' /\ FreshCopies' /\ BatchInOrder'
  BY <1>1 DEF OneFlush, FreshCopies, BatchInOrder, Running
<1>4. Ordered' /\ Settled' /\ InOrder'
  BY DEF Ordered, Settled, InOrder, Committed, table
<1>5. CopiesPaid'
  BY DEF CopiesPaid, table, TypeOK
<1> QED BY <1>2, <1>3, <1>4, <1>5

LEMMA EndStep ==
  ASSUME IInv, NEW c \in Calls, Running(c), ~At(c, "mark"), End(c),
         UNCHANGED <<table, sent, channelUp>>, faults' = faults \/ Fault
  PROVE  IInv'
<1>1. flush' \in [Calls -> {Idle}]
  <2>1. \A d \in Calls : d # c => flush[d] = Idle
    BY OthersAreIdle DEF IInv, TypeOK, Idle
  <2> QED BY <2>1 DEF End, IInv, TypeOK
<1>2. \A r \in Rows : ~Marking(r)
  BY OthersAreIdle DEF Marking, At
<1>3. faults' \in Nat /\ (faults' = faults + 1 \/ faults' = faults)
  BY DEF Fault, IInv, TypeOK
<1> QED BY <1>1, <1>2, <1>3, AllIdle DEF End, IInv, TypeOK

LEMMA RestartStep ==
  ASSUME IInv, Restart
  PROVE  IInv'
<1>1. UNCHANGED <<table, sent>> /\ flushing' = FALSE /\ faults' = faults + 1
  BY DEF Restart, Fault
<1>2. channelUp' \in BOOLEAN
  BY DEF Restart
<1>3. faults' \in Nat
  BY <1>1 DEF IInv, TypeOK
<1>4. flush' \in [Calls -> {Idle}]
  BY DEF Restart
<1> QED BY <1>1, <1>2, <1>3, <1>4, AllIdle

LEMMA LoseChannelStep ==
  ASSUME IInv, LoseChannel
  PROVE  IInv'
<1> USE DEF IInv
<1>1. UNCHANGED <<table, sent, flushing, flush>> /\ faults' = faults + 1 /\ channelUp' = FALSE
  BY DEF LoseChannel, Fault
<1>2. TypeOK' /\ OneFlush'
  <2>1. channelUp' \in BOOLEAN
    BY <1>1
  <2>2. faults' \in Nat
    BY <1>1 DEF TypeOK
  <2>3. OneFlush'
    BY <1>1 DEF OneFlush, Running
  <2> QED BY <1>1, <2>1, <2>2, <2>3 DEF TypeOK, table
<1>3. Ordered' /\ Settled' /\ InOrder' /\ BatchInOrder'
  BY <1>1 DEF Ordered, Settled, InOrder, BatchInOrder, Committed, table
<1>4. FreshCopies'
  BY <1>1 DEF FreshCopies, Committed, At, First, table
<1>5. CopiesPaid'
  BY <1>1 DEF CopiesPaid, TypeOK, table
<1> QED BY <1>2, <1>3, <1>4, <1>5

LEMMA ReadStep ==
  ASSUME IInv, NEW c \in Calls, Read(c)
  PROVE  IInv'
<1> USE DEF IInv
<1> DEFINE copies == {[id |-> r, attempts |-> attempts[r]] : r \in Batch}
<1>1. Running(c) /\ ~At(c, "mark")
  BY DEF Read, At, Running
<1>2. CASE Fault /\ End(c)
  BY <1>1, <1>2, EndStep DEF Read
<1>3. CASE /\ flush' = [flush EXCEPT ![c] = [pc |-> "publish", rest |-> copies]]
           /\ UNCHANGED <<flushing, faults>>
  <2>1. UNCHANGED <<table, sent, channelUp, flushing, faults>>
    BY <1>3 DEF Read
  <2>2. flush'[c] = [pc |-> "publish", rest |-> copies]
    BY <1>3 DEF TypeOK
  <2>3. \A d \in Calls : d # c => flush'[d] = flush[d] /\ flush[d].pc = "idle" /\ flush[d].rest = {}
    BY <1>1, <1>3, OthersAreIdle DEF TypeOK
  <2>4. copies \subseteq Copy
    <3>1. \A r \in Batch : r \in Rows /\ attempts[r] \in Nat
      BY DEF Batch, Pending, Committed, TypeOK
    <3>2. \A r \in Batch : [id |-> r, attempts |-> attempts[r]] \in Copy
      BY <3>1 DEF Copy
    <3> QED BY <3>2
  <2>5. TypeOK'
    BY <1>3, <2>1, <2>4 DEF TypeOK, table
  <2>6. OneFlush'
    BY <1>1, <2>1, <2>2, <2>3 DEF OneFlush, Running
  <2>7. Ordered' /\ Settled' /\ InOrder'
    BY <2>1 DEF Ordered, Settled, InOrder, Committed, table
  <2>8. \A row \in copies : row.id \in Batch /\ row.attempts = attempts[row.id]
    OBVIOUS
  <2>9. FreshCopies'
    <3>1. \A row \in copies : row.id \in Committed \ (published \cup poisoned)
      BY <2>8 DEF Batch, Pending
    <3> QED BY <2>1, <2>2, <2>3, <2>8, <3>1 DEF FreshCopies, Committed, At, table
  <2>10. CopiesPaid'
    <3>1. \A r \in Rows : ~Marking(r)
      BY <1>1, <2>3 DEF Marking, At
    <3> QED BY <2>1, <3>1 DEF CopiesPaid, table
  <2>11. BatchInOrder'
    <3>1. SUFFICES ASSUME NEW row \in copies, NEW q \in After[row.id]
                   PROVE  \/ sent[q] > 0
                          \/ attempts[q] > 0
                          \/ \E other \in copies : other.id = q
      BY <2>1, <2>2, <2>3 DEF BatchInOrder, table
    <3>2. row.id \in Committed /\ row.id \in Batch
      BY <2>8 DEF Batch, Pending
    <3>3. q \in Committed /\ createdAt[q] < createdAt[row.id]
      BY <3>1, <3>2 DEF Ordered
    <3>4. CASE q \in published \cup poisoned
      BY <3>4 DEF Settled
    <3>5. CASE q \notin published \cup poisoned
      <4>1. q \in Batch
        BY <3>2, <3>3, <3>5, BatchIsDownClosed DEF Pending
      <4>2. [id |-> q, attempts |-> attempts[q]] \in copies
        BY <4>1
      <4> QED BY <4>2
    <3> QED BY <3>4, <3>5
  <2> QED BY <2>5, <2>6, <2>7, <2>9, <2>10, <2>11
<1> QED BY <1>2, <1>3 DEF Read

LEMMA PublishStep ==
  ASSUME IInv, NEW c \in Calls, Publish(c)
  PROVE  IInv'
<1> USE DEF IInv
<1>1. Running(c) /\ ~At(c, "mark") /\ At(c, "publish") /\ UNCHANGED <<table, channelUp, faults>>
  BY DEF Publish, At, Running
<1>2. \A d \in Calls : d # c => flush[d].pc = "idle" /\ flush[d].rest = {}
  BY <1>1, OthersAreIdle
<1>3. CASE flush[c].rest = {} /\ End(c) /\ UNCHANGED sent
  BY <1>1, <1>3, EndStep
<1>4. ASSUME NEW p \in {"mark", "record"}, Goto(c, p), UNCHANGED flushing
      PROVE  /\ UNCHANGED <<table, flushing, channelUp, faults>>
             /\ flush' \in [Calls -> [pc : {"idle", "read", "publish", "mark", "record"},
                                     rest : SUBSET Copy]]
             /\ flush'[c].pc = p
             /\ \A d \in Calls : flush'[d].rest = flush[d].rest /\ (d # c => flush'[d] = flush[d])
             /\ OneFlush' /\ Ordered'
    <2>1. flush' \in [Calls -> [pc : {"idle", "read", "publish", "mark", "record"},
                               rest : SUBSET Copy]]
      BY <1>4 DEF Goto, TypeOK
    <2>2. \A d \in Calls : flush'[d].rest = flush[d].rest /\ (d # c => flush'[d] = flush[d])
      BY <1>4 DEF Goto, TypeOK
    <2>3. flush'[c].pc = p
      BY <1>4 DEF Goto, TypeOK
    <2>4. OneFlush'
      BY <1>1, <1>2, <1>4, <2>2, <2>3 DEF OneFlush, Running
    <2>5. Ordered'
      BY <1>1 DEF Ordered, Committed, table
    <2> QED BY <1>1, <1>4, <2>1, <2>2, <2>3, <2>4, <2>5
<1>5. CASE flush[c].rest # {} /\ ~channelUp /\ Goto(c, "record") /\ UNCHANGED <<sent, flushing>>
  <2>1. /\ UNCHANGED <<table, sent, flushing, channelUp, faults>>
        /\ flush' \in [Calls -> [pc : {"idle", "read", "publish", "mark", "record"},
                                rest : SUBSET Copy]]
        /\ flush'[c].pc = "record"
        /\ \A d \in Calls : flush'[d].rest = flush[d].rest /\ (d # c => flush'[d] = flush[d])
        /\ OneFlush' /\ Ordered'
    BY <1>4, <1>5
  <2>2. TypeOK'
    BY <2>1 DEF TypeOK, table
  <2>3. Settled' /\ InOrder'
    BY <2>1 DEF Settled, InOrder, Committed, table
  <2>4. BatchInOrder'
    BY <2>1 DEF BatchInOrder, table
  <2>5. FreshCopies'
    BY <1>1, <1>2, <2>1 DEF FreshCopies, Committed, At, First, table
  <2>6. \A r \in Rows : ~Marking(r)
    BY <1>1, <1>2 DEF Marking, At
  <2>7. CopiesPaid'
    BY <2>1, <2>6 DEF CopiesPaid, table
  <2> QED BY <2>1, <2>2, <2>3, <2>4, <2>5, <2>7
<1>6. ASSUME NEW row \in flush[c].rest, First(c, row), Goto(c, "mark"), UNCHANGED flushing,
             sent' = [sent EXCEPT ![row.id] = @ + 1]
      PROVE  IInv'
  <2>1. /\ UNCHANGED <<table, flushing, channelUp, faults>>
        /\ flush' \in [Calls -> [pc : {"idle", "read", "publish", "mark", "record"},
                                rest : SUBSET Copy]]
        /\ flush'[c].pc = "mark"
        /\ \A d \in Calls : flush'[d].rest = flush[d].rest /\ (d # c => flush'[d] = flush[d])
        /\ OneFlush' /\ Ordered'
    BY <1>4, <1>6
  <2>2. row.id \in Rows /\ row.id \in Committed /\ sent[row.id] \in Nat
    BY RowFacts DEF TypeOK
  <2>3. /\ sent' \in [Rows -> Nat]
        /\ sent'[row.id] = sent[row.id] + 1
        /\ \A r \in Rows : r # row.id => sent'[r] = sent[r]
    BY <1>6, <2>2 DEF TypeOK
  <2>4. TypeOK'
    BY <2>1, <2>3 DEF TypeOK, table
  <2>5. \A r \in Rows : sent'[r] \in Nat /\ (sent[r] > 0 => sent'[r] > 0)
    BY <2>2, <2>3 DEF TypeOK
  <2>6. Settled'
    BY <2>1, <2>5 DEF Settled, Committed, TypeOK, table
  <2>7. \A other \in flush[c].rest : First(c, other)' <=> First(c, other)
    BY <2>1 DEF First, table
  <2>8. FreshCopies'
    <3>1. \A other \in flush[c].rest : First(c, other) => sent'[other.id] > 0
      BY <1>6, <2>2, <2>3, FirstIsUnique
    <3>2. \A other \in flush[c].rest : other.id \notin published
      BY <1>1 DEF FreshCopies, At
    <3> QED BY <1>2, <2>1, <2>7, <3>1, <3>2 DEF FreshCopies, Committed, At, table
  <2>9. row.id \notin published /\ \A r \in Rows : ~Marking(r)
    BY <1>1, <1>2 DEF FreshCopies, Marking, At
  <2>10. CopiesPaid'
    <3>1. Marking(row.id)'
      BY <1>6, <2>1, <2>7 DEF Marking, At
    <3>2. sent'[row.id] <= 1 + faults
      BY <2>2, <2>3, <2>9 DEF CopiesPaid, TypeOK
    <3> QED BY <2>1, <2>3, <2>9, <3>1, <3>2 DEF CopiesPaid, table
  <2>11. \A q \in After[row.id] : sent[q] > 0 \/ attempts[q] > 0
    <3>1. SUFFICES ASSUME NEW q \in After[row.id], NEW other \in flush[c].rest, other.id = q
                   PROVE  FALSE
      BY DEF BatchInOrder
    <3>2. createdAt[q] < createdAt[row.id] /\ q \in Rows
      BY <2>2 DEF Ordered, Committed
    <3>3. createdAt[row.id] <= createdAt[q]
      BY <1>6, <3>1 DEF First
    <3>4. createdAt[row.id] \in Nat /\ createdAt[q] \in Nat
      BY <2>2, <3>2, StampsAreNumbers
    <3> QED BY <3>2, <3>3, <3>4
  <2>12. \A r \in Rows : After[r] \subseteq Rows
    BY RelayAssumption
  <2>13. InOrder'
    BY <2>1, <2>3, <2>5, <2>11, <2>12 DEF InOrder, table
  <2>14. BatchInOrder'
    <3>1. \A d \in Calls : \A other \in flush[d].rest : other.id \in Rows
      BY RowFacts
    <3> QED BY <2>1, <2>5, <2>12, <3>1 DEF BatchInOrder, table
  <2> QED BY <2>1, <2>4, <2>6, <2>8, <2>10, <2>13, <2>14
<1> QED BY <1>3, <1>5, <1>6 DEF Publish

LEMMA AdvanceFacts ==
  ASSUME IInv, NEW c \in Calls, NEW row \in flush[c].rest, First(c, row), Running(c),
         Advance(c, row)
  PROVE  /\ flush' \in [Calls -> [pc : {"idle", "read", "publish", "mark", "record"},
                                 rest : SUBSET Copy]]
         /\ flush'[c].pc = "publish" /\ flush'[c].rest = flush[c].rest \ {row}
         /\ \A d \in Calls : d # c => /\ flush'[d] = flush[d]
                                      /\ flush'[d].pc = "idle" /\ flush'[d].rest = {}
         /\ \A other \in flush'[c].rest : other \in flush[c].rest /\ other.id # row.id
<1> USE DEF IInv
<1>1. flush' = [flush EXCEPT ![c] = [pc |-> "publish", rest |-> flush[c].rest \ {row}]]
  BY DEF Advance
<1>2. flush[c].rest \ {row} \subseteq Copy
  BY DEF TypeOK
<1>3. [pc |-> "publish", rest |-> flush[c].rest \ {row}] \in
        [pc : {"idle", "read", "publish", "mark", "record"}, rest : SUBSET Copy]
  BY <1>2
<1>4. \A other \in flush[c].rest : other.id = row.id => other = row
  <2>1. SUFFICES ASSUME NEW other \in flush[c].rest, other.id = row.id
                 PROVE  other = row
    OBVIOUS
  <2>2. other.attempts = row.attempts
    BY <2>1, RowFacts
  <2>3. other \in Copy /\ row \in Copy
    BY RowFacts
  <2> QED BY <2>1, <2>2, <2>3 DEF Copy
<1>5. flush'[c].rest = flush[c].rest \ {row} /\ flush'[c].pc = "publish"
  BY <1>1 DEF TypeOK
<1>6. \A d \in Calls : d # c => /\ flush'[d] = flush[d]
                                /\ flush'[d].pc = "idle" /\ flush'[d].rest = {}
  BY <1>1, OthersAreIdle DEF TypeOK
<1>7. flush' \in [Calls -> [pc : {"idle", "read", "publish", "mark", "record"}, rest : SUBSET Copy]]
  BY <1>1, <1>3 DEF TypeOK
<1> QED BY <1>4, <1>5, <1>6, <1>7

LEMMA MarkStep ==
  ASSUME IInv, NEW c \in Calls, Mark(c)
  PROVE  IInv'
<1> USE DEF IInv
<1>1. At(c, "mark") /\ Running(c)
      /\ UNCHANGED <<createdAt, attempts, poisoned, sent, flushing, channelUp>>
  BY DEF Mark, At, Running
<1>2. \A d \in Calls : d # c => flush[d].pc = "idle" /\ flush[d].rest = {}
  BY <1>1, OthersAreIdle
<1>3. PICK row \in flush[c].rest :
        /\ First(c, row)
        /\ \/ published' = published \cup {row.id} /\ Advance(c, row) /\ UNCHANGED faults
           \/ Fault /\ published' \in {published, published \cup {row.id}} /\ Goto(c, "record")
  BY DEF Mark
<1>4. row.id \in Rows /\ row.id \in Committed \ poisoned /\ sent[row.id] > 0
  BY <1>1, <1>3, RowFacts DEF FreshCopies
<1>5. published' \subseteq Rows /\ published \subseteq published'
      /\ published' \subseteq published \cup {row.id}
  BY <1>3, <1>4 DEF TypeOK
<1>6. Ordered' /\ Settled' /\ InOrder'
  BY <1>1, <1>4, <1>5 DEF Ordered, Settled, InOrder, Committed
<1>7. \A other \in flush[c].rest : other.id \notin published
  BY <1>1 DEF FreshCopies, At
<1>8. CASE published' = published \cup {row.id} /\ Advance(c, row) /\ UNCHANGED faults
  <2>1. /\ flush' \in [Calls -> [pc : {"idle", "read", "publish", "mark", "record"},
                                rest : SUBSET Copy]]
        /\ flush'[c].pc = "publish" /\ flush'[c].rest = flush[c].rest \ {row}
        /\ \A d \in Calls : d # c => /\ flush'[d] = flush[d]
                                     /\ flush'[d].pc = "idle" /\ flush'[d].rest = {}
        /\ \A other \in flush'[c].rest : other \in flush[c].rest /\ other.id # row.id
    BY <1>1, <1>3, <1>8, AdvanceFacts
  <2>2. TypeOK'
    BY <1>1, <1>5, <1>8, <2>1 DEF TypeOK
  <2>3. OneFlush'
    BY <1>1, <2>1 DEF OneFlush, Running
  <2>4. FreshCopies'
    BY <1>1, <1>7, <1>8, <2>1 DEF FreshCopies, Committed, At
  <2>5. CopiesPaid'
    <3>1. \A r \in Rows : r # row.id => ~Marking(r)
      BY <1>2, <1>3, FirstIsUnique DEF Marking, At
    <3> QED BY <1>1, <1>8, <3>1 DEF CopiesPaid
  <2>6. BatchInOrder'
    <3>1. SUFFICES ASSUME NEW x \in flush'[c].rest, NEW q \in After[x.id]
                   PROVE  \/ sent[q] > 0
                          \/ attempts[q] > 0
                          \/ \E other \in flush'[c].rest : other.id = q
      BY <1>1, <2>1 DEF BatchInOrder
    <3>2. \/ sent[q] > 0
          \/ attempts[q] > 0
          \/ \E other \in flush[c].rest : other.id = q
      BY <2>1, <3>1 DEF BatchInOrder
    <3> QED BY <1>4, <2>1, <3>2
  <2> QED BY <1>6, <2>2, <2>3, <2>4, <2>5, <2>6
<1>9. CASE Fault /\ Goto(c, "record")
  <2>1. /\ flush' \in [Calls -> [pc : {"idle", "read", "publish", "mark", "record"},
                                rest : SUBSET Copy]]
        /\ flush'[c].pc = "record"
        /\ \A d \in Calls : flush'[d].rest = flush[d].rest /\ (d # c => flush'[d] = flush[d])
    BY <1>9 DEF Goto, TypeOK
  <2>2. faults' = faults + 1 /\ faults \in Nat
    BY <1>9 DEF Fault, TypeOK
  <2>3. TypeOK'
    BY <1>1, <1>5, <2>1, <2>2 DEF TypeOK
  <2>4. OneFlush'
    BY <1>1, <1>2, <2>1 DEF OneFlush, Running
  <2>5. \A other \in flush[c].rest : First(c, other)' <=> First(c, other)
    BY <1>1, <2>1 DEF First
  <2>6. FreshCopies'
    <3>1. ASSUME NEW other \in flush[c].rest, other.id \in published'
          PROVE  First(c, other)
      <4>1. other.id = row.id
        BY <1>5, <1>7, <3>1
      <4> QED BY <1>3, <4>1 DEF First
    <3> QED BY <1>1, <1>2, <2>1, <2>5, <3>1 DEF FreshCopies, Committed, At
  <2>7. CopiesPaid'
    BY <1>1, <2>2 DEF CopiesPaid, TypeOK
  <2>8. BatchInOrder'
    BY <1>1, <2>1 DEF BatchInOrder
  <2> QED BY <1>6, <2>3, <2>4, <2>6, <2>7, <2>8
<1> QED BY <1>3, <1>8, <1>9

LEMMA RecordStep ==
  ASSUME IInv, NEW c \in Calls, Record(c)
  PROVE  IInv'
<1> USE DEF IInv
<1>1. At(c, "record") /\ Running(c) /\ UNCHANGED <<createdAt, published, sent, channelUp>>
  BY DEF Record, At, Running
<1>2. \A d \in Calls : d # c => flush[d].pc = "idle" /\ flush[d].rest = {}
  BY <1>1, OthersAreIdle
<1>3. CASE Fault /\ End(c) /\ UNCHANGED <<attempts, poisoned>>
  BY <1>1, <1>3, EndStep DEF At, table
<1>4. ASSUME NEW row \in flush[c].rest, First(c, row), Advance(c, row),
             UNCHANGED <<flushing, faults>>,
             attempts' = [attempts EXCEPT ![row.id] = row.attempts + 1],
             poisoned' = IF row.attempts + 1 >= Limit THEN poisoned \cup {row.id} ELSE poisoned
      PROVE  IInv'
  <2>1. /\ flush' \in [Calls -> [pc : {"idle", "read", "publish", "mark", "record"},
                                rest : SUBSET Copy]]
        /\ flush'[c].pc = "publish" /\ flush'[c].rest = flush[c].rest \ {row}
        /\ \A d \in Calls : d # c => /\ flush'[d] = flush[d]
                                     /\ flush'[d].pc = "idle" /\ flush'[d].rest = {}
        /\ \A other \in flush'[c].rest : other \in flush[c].rest /\ other.id # row.id
    BY <1>1, <1>4, AdvanceFacts
  <2>2. /\ row.id \in Rows /\ row.id \in Committed \ poisoned
        /\ row.attempts = attempts[row.id] /\ attempts[row.id] \in Nat
        /\ attempts[row.id] < MaxAttempts
    BY RowFacts
  <2>3. /\ attempts'[row.id] = attempts[row.id] + 1
        /\ \A r \in Rows : r # row.id => attempts'[r] = attempts[r]
    BY <1>4, <2>2 DEF TypeOK
  <2>4. attempts' \in [Rows -> 0..MaxAttempts]
    <3>1. attempts[row.id] + 1 \in 0..MaxAttempts
      BY <2>2, RelayAssumption
    <3> QED BY <1>4, <2>2, <3>1 DEF TypeOK
  <2>5. /\ poisoned \subseteq poisoned' /\ poisoned' \subseteq poisoned \cup {row.id}
        /\ attempts[row.id] + 1 >= MaxAttempts => row.id \in poisoned'
    BY <1>4, <2>2 DEF Limit
  <2>6. TypeOK'
    BY <1>1, <1>4, <2>1, <2>2, <2>4, <2>5 DEF TypeOK
  <2>7. OneFlush'
    BY <1>1, <1>4, <2>1 DEF OneFlush, Running
  <2>8. \A r \in Rows : attempts[r] \in Nat /\ attempts'[r] \in Nat
                          /\ (attempts[r] > 0 => attempts'[r] > 0)
    BY <2>2, <2>3 DEF TypeOK
  <2>9. attempts'[row.id] > 0
    BY <2>2, <2>3
  <2>10. Ordered' /\ Settled'
    <3>1. Ordered'
      BY <1>1 DEF Ordered, Committed
    <3>2. \A r \in Rows \ poisoned' : attempts'[r] < MaxAttempts
      BY <2>2, <2>3, <2>5, RelayAssumption DEF Settled
    <3>3. \A r \in poisoned' : attempts'[r] > 0
      BY <2>2, <2>5, <2>8, <2>9 DEF Settled, TypeOK
    <3> QED BY <1>1, <2>2, <2>5, <3>1, <3>2, <3>3 DEF Settled, Committed
  <2>11. FreshCopies'
    <3>1. ASSUME NEW other \in flush'[c].rest
          PROVE  /\ other.attempts = attempts'[other.id]
                 /\ other.id \in Committed \ poisoned'
                 /\ other.id \notin published
      <4>1. other \in flush[c].rest /\ other # row /\ other.id # row.id
        BY <2>1, <3>1
      <4>2. other.id \in Rows /\ other.id \in Committed \ poisoned
            /\ other.attempts = attempts[other.id]
        BY <4>1, RowFacts
      <4>3. ~First(c, other)
        BY <1>4, <4>1, FirstIsUnique
      <4> QED BY <2>3, <2>5, <4>1, <4>2, <4>3 DEF FreshCopies
    <3> QED BY <1>1, <2>1, <3>1 DEF FreshCopies, Committed, At
  <2>12. CopiesPaid'
    <3>1. \A r \in Rows : ~Marking(r)
      BY <1>1, <1>2 DEF Marking, At
    <3> QED BY <1>1, <1>4, <3>1 DEF CopiesPaid
  <2>13. \A r \in Rows : After[r] \subseteq Rows
    BY RelayAssumption
  <2>14. InOrder'
    BY <1>1, <2>8, <2>13 DEF InOrder
  <2>15. BatchInOrder'
    <3>1. SUFFICES ASSUME NEW x \in flush'[c].rest, NEW q \in After[x.id]
                   PROVE  \/ sent[q] > 0
                          \/ attempts'[q] > 0
                          \/ \E other \in flush'[c].rest : other.id = q
      BY <1>1, <2>1 DEF BatchInOrder
    <3>2. \/ sent[q] > 0
          \/ attempts[q] > 0
          \/ \E other \in flush[c].rest : other.id = q
      BY <2>1, <3>1 DEF BatchInOrder
    <3>3. q \in Rows
      BY <2>1, <2>13, <3>1, RowFacts
    <3> QED BY <2>1, <2>8, <2>9, <3>2, <3>3
  <2> QED BY <2>6, <2>7, <2>10, <2>11, <2>12, <2>14, <2>15
<1> QED BY <1>3, <1>4 DEF Record

-----------------------------------------------------------------------------
(* Theorems *)

LEMMA StepKeepsInvariant ==
  ASSUME IInv, [Next]_vars
  PROVE  IInv'
<1>1. CASE UNCHANGED vars
  <2>1. UNCHANGED <<createdAt, attempts, published, poisoned, sent, flushing, flush, channelUp, faults>>
    BY <1>1 DEF vars, table
  <2> QED BY <2>1 DEF IInv, TypeOK, OneFlush, Ordered, Settled, FreshCopies, CopiesPaid, InOrder,
                      BatchInOrder, Running, Committed, At, First, Marking
<1>2. ASSUME NEW c \in Calls, Enter(c) \/ Step(c)
      PROVE  IInv'
  BY <1>2, EnterStep, ReadStep, PublishStep, MarkStep, RecordStep DEF Step
<1> QED BY <1>1, <1>2, EnqueueStep, LoseChannelStep, RestartStep DEF Next

\* The invariant all theorems below rest on.
THEOREM RelayInvariant == Spec => []IInv
<1>1. Init => IInv
  <2>1. SUFFICES ASSUME Init PROVE IInv
    OBVIOUS
  <2>2. \A c \in Calls : flush[c].pc = "idle" /\ flush[c].rest = {}
    BY <2>1 DEF Init, Idle
  <2>3. Committed = {}
    BY <2>1 DEF Init, Committed
  <2>4. TypeOK
    <3>1. Idle \in [pc : {"idle", "read", "publish", "mark", "record"}, rest : SUBSET Copy]
      BY DEF Idle
    <3>2. 0 \in 0..MaxAttempts
      BY RelayAssumption
    <3>3. flushing \in BOOLEAN /\ channelUp \in BOOLEAN
      BY <2>1 DEF Init
    <3> QED BY <2>1, <3>1, <3>2, <3>3 DEF Init, TypeOK
  <2>5. OneFlush /\ FreshCopies /\ BatchInOrder
    BY <2>2 DEF OneFlush, FreshCopies, BatchInOrder, Running
  <2>6. Ordered /\ Settled /\ InOrder
    BY <2>1, <2>3, RelayAssumption DEF Init, Ordered, Settled, InOrder
  <2>7. CopiesPaid
    BY <2>1 DEF Init, CopiesPaid
  <2> QED BY <2>4, <2>5, <2>6, <2>7 DEF IInv
<1>2. IInv /\ [Next]_vars => IInv'
  BY StepKeepsInvariant
<1> QED BY <1>1, <1>2, PTL DEF Spec

\* Rows, calls of flush and counters keep their types; attempts stay within the
\* limit that poisons.
THEOREM RelayTypeCorrect == Spec => []TypeOK
<1>1. IInv => TypeOK
  BY DEF IInv
<1> QED BY <1>1, RelayInvariant, PTL

\* kick, cron and restarts, however they fall, send no copy of an event beyond
\* the first that a fault has not paid for.
THEOREM NoFreeCopies == Spec => []CopiesAreFaults
<1>1. IInv => CopiesAreFaults
  BY DEF IInv, CopiesPaid, CopiesAreFaults
<1> QED BY <1>1, RelayInvariant, PTL

\* The events of one reservation leave in their order unless a publish failed.
THEOREM EventsInOrder == Spec => []InOrder
<1>1. IInv => InOrder
  BY DEF IInv
<1> QED BY <1>1, RelayInvariant, PTL

\* Every step of the relay is a step of the log, or leaves it as it is.
THEOREM RelayImplementsLog == Spec => ImplementsLog
<1>1. Init => Log!Init
  BY DEF Init, Log!Init, Committed
<1>2. ASSUME IInv, [Next]_vars
      PROVE  [Log!Next]_Log!logVars
  <2>0. IInv
    BY <1>2
  <2> USE <2>0 DEF IInv
  <2>1. ASSUME NEW r \in Rows, Enqueue(r)
        PROVE  Log!Commit(r)
    <3>1. PICK t \in Stamps : createdAt' = [createdAt EXCEPT ![r] = t]
      BY <2>1 DEF Enqueue
    <3>2. t \in Nat /\ t > 0
      BY RelayAssumption
    <3>3. r \notin Committed /\ Committed' = Committed \cup {r}
      BY <2>1, <3>1, <3>2 DEF Enqueue, Committed, TypeOK
    <3>4. r \notin published /\ r \notin poisoned
      BY <3>3 DEF Settled
    <3> QED BY <2>1, <3>3, <3>4 DEF Enqueue, Log!Commit
  <2>2. ASSUME NEW c \in Calls, Publish(c)
        PROVE  UNCHANGED Log!logVars \/ \E r \in Rows : Log!Send(r)
    <3>1. CASE UNCHANGED sent
      BY <2>2, <3>1 DEF Publish, table, Committed, Log!logVars
    <3>2. ASSUME NEW row \in flush[c].rest, sent' = [sent EXCEPT ![row.id] = @ + 1]
          PROVE  Log!Send(row.id) /\ row.id \in Rows
      <4>1. row.id \in Rows /\ row.id \in Committed \ (published \cup poisoned)
        BY <2>2, RowFacts DEF Publish, At, FreshCopies
      <4> QED BY <2>2, <3>2, <4>1 DEF Publish, table, Committed, Log!Send
    <3> QED BY <2>2, <3>1, <3>2 DEF Publish
  <2>3. ASSUME NEW c \in Calls, Mark(c)
        PROVE  UNCHANGED Log!logVars \/ \E r \in Rows : Log!Close(r)
    <3>1. PICK row \in flush[c].rest :
            First(c, row) /\ published' \in {published, published \cup {row.id}}
      BY <2>3 DEF Mark
    <3>2. row.id \in Rows /\ row.id \in Committed \ (published \cup poisoned) /\ sent[row.id] > 0
      BY <2>3, <3>1, RowFacts DEF Mark, At, FreshCopies
    <3>3. UNCHANGED <<createdAt, attempts, poisoned, sent>>
      BY <2>3 DEF Mark
    <3>4. CASE published' = published
      BY <3>3, <3>4 DEF Committed, Log!logVars
    <3>5. CASE published' = published \cup {row.id}
      BY <3>2, <3>3, <3>5 DEF Committed, Log!Close
    <3> QED BY <3>1, <3>2, <3>4, <3>5
  <2>4. ASSUME NEW c \in Calls, Record(c)
        PROVE  UNCHANGED Log!logVars \/ \E r \in Rows : Log!Fail(r)
    <3>1. UNCHANGED <<createdAt, published, sent>>
      BY <2>4 DEF Record
    <3>2. CASE UNCHANGED <<attempts, poisoned>>
      BY <3>1, <3>2 DEF Committed, Log!logVars
    <3>3. ASSUME NEW row \in flush[c].rest,
                 attempts' = [attempts EXCEPT ![row.id] = row.attempts + 1],
                 poisoned' = IF row.attempts + 1 >= Limit THEN poisoned \cup {row.id} ELSE poisoned
          PROVE  Log!Fail(row.id) /\ row.id \in Rows
      <4>1. /\ row.id \in Rows /\ row.id \in Committed \ poisoned
            /\ row.attempts = attempts[row.id] /\ attempts[row.id] \in Nat
        BY RowFacts
      <4>2. attempts[row.id] + 1 < MaxAttempts \/ attempts[row.id] + 1 >= MaxAttempts
        BY <4>1, RelayAssumption
      <4>3. CASE attempts[row.id] + 1 < MaxAttempts
        <5>1. poisoned' = poisoned
          BY <3>3, <4>1, <4>3, RelayAssumption DEF Limit
        <5> QED BY <3>1, <3>3, <4>1, <4>3, <5>1 DEF Committed, Log!Fail
      <4>4. CASE attempts[row.id] + 1 >= MaxAttempts
        <5>1. poisoned' = poisoned \cup {row.id}
          BY <3>3, <4>1, <4>4 DEF Limit
        <5> QED BY <3>1, <3>3, <4>1, <4>4, <5>1 DEF Committed, Log!Fail
      <4> QED BY <4>1, <4>2, <4>3, <4>4
    <3> QED BY <2>4, <3>2, <3>3 DEF Record
  <2>5. CASE UNCHANGED <<table, sent>>
    BY <2>5 DEF table, Committed, Log!logVars
  <2>6. ASSUME NEW c \in Calls, Enter(c) \/ Read(c)
        PROVE  UNCHANGED <<table, sent>>
    BY <2>6 DEF Enter, Read
  <2>7. LoseChannel \/ Restart \/ UNCHANGED vars => UNCHANGED <<table, sent>>
    BY DEF LoseChannel, Restart, vars
  <2> QED BY <1>2, <2>1, <2>2, <2>3, <2>4, <2>5, <2>6, <2>7 DEF Next, Step, Log!Next
<1> QED BY <1>1, <1>2, RelayInvariant, PTL DEF Spec, ImplementsLog, Log!Spec
=============================================================================

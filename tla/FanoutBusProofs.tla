--------------------------- MODULE FanoutBusProofs ---------------------------
(***************************************************************************)
(* Theorems about FanoutBus, for every set of events, queues and           *)
(* subscriptions, every prefetch window and number of faults.              *)
(***************************************************************************)
EXTENDS FanoutBus, SequenceTheorems, TLAPS

\* A handler without a channel belongs to a service that is down.
OrphansAreDown ==
  \A q \in Queues :
    /\ up[q] => orphans[q] = {} /\ q \in bound
    /\ orphans[q] \subseteq DOMAIN log

\* The effects a copy has had, and those it may still have.
Runs(q, i) ==
  copies[q][i].done + (IF i \in orphans[q] THEN 1 ELSE 0)
                    + (IF copies[q][i].at = "ready" THEN 1 ELSE 0)

\* Strengthens NothingVanishes and RepeatsAreClosings for one copy.
Kept(q, i) ==
  /\ copies[q][i].at = "acked" => copies[q][i].done > 0
  /\ copies[q][i].at = "ignored" => log[i] \notin Interest[q]
  /\ copies[q][i].at = "rejected" => <<q, i>> \in deadLetters[q]
  /\ Runs(q, i) <= 1 + closings[q]

AllKept == \A q \in Queues : \A i \in DOMAIN log : Kept(q, i)

IInv == BusTypeOK /\ OrphansAreDown /\ AllKept

LEMMA InitIInv == BusInit => IInv
<1> SUFFICES ASSUME BusInit PROVE IInv
  OBVIOUS
<1>1. log \in Seq(Events) /\ DOMAIN log = {}
  BY EmptySeq DEF BusInit
<1>2. copies \in [Queues -> [DOMAIN log -> Copy]]
  <2>1. <<>> \in [{} -> Copy]
    OBVIOUS
  <2> QED BY <1>1, <2>1 DEF BusInit
<1>3. bound \subseteq Queues
  BY BusAssumption DEF BusInit
<1>4. BusTypeOK
  BY <1>1, <1>2, <1>3 DEF BusInit, BusTypeOK
<1>5. OrphansAreDown
  BY DEF BusInit, OrphansAreDown
<1>6. AllKept
  BY <1>1 DEF AllKept
<1> QED BY <1>4, <1>5, <1>6 DEF IInv

-----------------------------------------------------------------------------
LEMMA StartIInv ==
  ASSUME IInv, NEW q \in Queues, Start(q)
  PROVE  IInv'
<1>1. BusTypeOK'
  BY DEF IInv, BusTypeOK, Start
<1>2. OrphansAreDown'
  BY DEF IInv, BusTypeOK, OrphansAreDown, Start
<1>3. AllKept'
  <2>1. SUFFICES ASSUME NEW r \in Queues, NEW i \in DOMAIN log
                 PROVE  Kept(r, i)'
    BY DEF Start, AllKept
  <2>2. Kept(r, i)
    BY DEF IInv, AllKept
  <2>3. copies[r][i].done \in Nat /\ closings[r] \in Nat
    BY DEF IInv, BusTypeOK, Copy
  <2>4. i \in orphans'[r] => i \in orphans[r]
    BY DEF IInv, BusTypeOK, Start
  <2> QED BY <2>2, <2>3, <2>4 DEF Start, Kept, Runs
<1> QED BY <1>1, <1>2, <1>3 DEF IInv

\* The log and every queue grow by one; what was there stays.
LEMMA RouteIInv ==
  ASSUME IInv, NEW e \in Events, Route(e), faults' \in Nat
  PROVE  IInv'
<1> DEFINE n == Len(log)
           new(q) == [at |-> Arrival(q, e), done |-> 0]
<1>1. /\ log' \in Seq(Events) /\ n \in Nat
      /\ DOMAIN log = 1..n /\ DOMAIN log' = 1..n + 1
      /\ log'[n + 1] = e /\ \A i \in 1..n : log'[i] = log[i]
  BY AppendProperties, LenProperties DEF IInv, BusTypeOK, Route
<1>2. ASSUME NEW q \in Queues
      PROVE  /\ copies'[q] \in [DOMAIN log' -> Copy]
             /\ copies'[q][n + 1] = new(q)
             /\ \A i \in DOMAIN log : copies'[q][i] = copies[q][i]
  <2>1. copies[q] \in [1..n -> Copy]
    BY <1>1 DEF IInv, BusTypeOK
  <2>2. copies[q] \in Seq(Copy) /\ Len(copies[q]) = n
    BY <1>1, <2>1
  <2>3. new(q) \in Copy
    BY DEF Copy, Arrival
  <2>4. copies'[q] = Append(copies[q], new(q))
    BY DEF Route
  <2>5. /\ copies'[q] \in Seq(Copy) /\ Len(copies'[q]) = n + 1
        /\ copies'[q][n + 1] = new(q)
        /\ \A i \in 1..n : copies'[q][i] = copies[q][i]
    BY <2>2, <2>3, <2>4, AppendProperties
  <2> QED BY <1>1, <2>5, LenProperties
<1>3. BusTypeOK'
  <2>1. copies' \in [Queues -> [DOMAIN log' -> Copy]]
    BY <1>2 DEF Route
  <2> QED BY <1>1, <2>1 DEF IInv, BusTypeOK, Route
<1>4. OrphansAreDown'
  BY <1>1 DEF IInv, OrphansAreDown, Route
<1>5. AllKept'
  <2>1. SUFFICES ASSUME NEW q \in Queues, NEW i \in DOMAIN log'
                 PROVE  Kept(q, i)'
    BY DEF AllKept
  <2>2. closings[q] \in Nat /\ orphans[q] \subseteq DOMAIN log
    BY DEF IInv, BusTypeOK, OrphansAreDown
  <2>3. CASE i \in DOMAIN log
    <3>1. Kept(q, i) /\ copies'[q][i] = copies[q][i] /\ log'[i] = log[i]
      BY <1>1, <1>2, <2>3 DEF IInv, AllKept
    <3> QED BY <3>1 DEF Kept, Runs, Route
  <2>4. CASE i = n + 1
    <3>1. copies'[q][i].at = Arrival(q, e) /\ copies'[q][i].done = 0 /\ log'[i] = e
      <4>1. copies'[q][n + 1] = new(q) /\ log'[n + 1] = e
        BY <1>1, <1>2
      <4> QED BY <4>1, <2>4
    <3>2. i \notin orphans'[q] /\ closings'[q] = closings[q]
      BY <1>1, <2>2, <2>4 DEF Route
    <3>3. /\ Arrival(q, e) \notin {"acked", "rejected"}
          /\ Arrival(q, e) = "ignored" => e \notin Interest[q]
      BY DEF Arrival
    <3> QED BY <2>2, <3>1, <3>2, <3>3 DEF Kept, Runs
  <2> QED BY <1>1, <2>3, <2>4
<1> QED BY <1>3, <1>4, <1>5 DEF IInv

\* One copy changes, as described; the orphans and the channel stay.
LEMMA HandleIInv ==
  ASSUME IInv, NEW q \in Queues, NEW i \in DOMAIN log, Handle(q, i)
  PROVE  IInv'
<1>1. copies[q][i] \in Copy /\ copies[q][i].at = "ready"
  BY DEF IInv, BusTypeOK, Handle, Window, Ready
<1>2. /\ copies'[q][i] = [at |-> "acked", done |-> copies[q][i].done + 1]
      /\ \A r \in Queues : \A j \in DOMAIN log :
           r # q \/ j # i => copies'[r][j] = copies[r][j]
  BY DEF IInv, BusTypeOK, Handle
<1>3. BusTypeOK'
  <2>1. copies'[q][i] \in Copy
    BY <1>1, <1>2 DEF Copy
  <2>2. copies' \in [Queues -> [DOMAIN log -> Copy]]
    BY <1>1, <2>1 DEF IInv, BusTypeOK, Handle, Copy
  <2> QED BY <2>2 DEF IInv, BusTypeOK, Handle
<1>4. OrphansAreDown'
  BY DEF IInv, OrphansAreDown, Handle
<1>5. AllKept'
  <2>1. SUFFICES ASSUME NEW r \in Queues, NEW j \in DOMAIN log
                 PROVE  Kept(r, j)'
    BY DEF Handle, AllKept
  <2>2. Kept(r, j) /\ copies[r][j].done \in Nat /\ closings[r] \in Nat
    BY DEF IInv, AllKept, BusTypeOK, Copy
  <2> QED BY <1>1, <1>2, <2>2 DEF Kept, Runs, Handle
<1> QED BY <1>3, <1>4, <1>5 DEF IInv

\* The channel of q is lost and the handlers in left go on without it.
LEMMA CloseFacts ==
  ASSUME IInv, NEW q \in Queues, up[q], Close(q)
  PROVE  /\ up' \in [Queues -> BOOLEAN] /\ closings' \in [Queues -> Nat]
         /\ orphans' \in [Queues -> SUBSET Nat]
         /\ closings'[q] = closings[q] + 1 /\ orphans[q] = {}
         /\ ~up'[q]
         /\ \A i \in orphans'[q] : i \in DOMAIN log /\ copies[q][i].at = "ready"
         /\ \A r \in Queues \ {q} :
              up'[r] = up[r] /\ closings'[r] = closings[r] /\ orphans'[r] = orphans[r]
<1>1. PICK left \in SUBSET Window(q) : orphans' = [orphans EXCEPT ![q] = left]
  BY DEF Close
<1>2. \A i \in left : i \in DOMAIN log /\ i \in Nat /\ copies[q][i].at = "ready"
  <2>1. DOMAIN copies[q] = DOMAIN log /\ DOMAIN log \subseteq Nat
    BY LenProperties DEF IInv, BusTypeOK
  <2> QED BY <1>1, <2>1 DEF Window, Ready
<1> QED BY <1>1, <1>2 DEF IInv, BusTypeOK, OrphansAreDown, Close

LEMMA DropIInv ==
  ASSUME IInv, NEW q \in Queues, Drop(q)
  PROVE  IInv'
<1>1. up[q] /\ Close(q)
  BY DEF Drop
<1>2. BusTypeOK'
  BY <1>1, CloseFacts DEF IInv, BusTypeOK, Drop, Fault
<1>3. OrphansAreDown'
  BY <1>1, CloseFacts DEF IInv, OrphansAreDown, Drop
<1>4. AllKept'
  <2>1. SUFFICES ASSUME NEW r \in Queues, NEW j \in DOMAIN log
                 PROVE  Kept(r, j)'
    BY DEF Drop, AllKept
  <2>2. Kept(r, j) /\ copies[r][j].done \in Nat /\ closings[r] \in Nat
    BY DEF IInv, AllKept, BusTypeOK, Copy
  <2> QED BY <1>1, <2>2, CloseFacts DEF Kept, Runs, Drop
<1> QED BY <1>2, <1>3, <1>4 DEF IInv

LEMMA RejectIInv ==
  ASSUME IInv, NEW q \in Queues, NEW i \in DOMAIN log, Reject(q, i)
  PROVE  IInv'
<1>1. up[q] /\ Close(q) /\ i \in Ready(q)
  BY DEF Reject, Window
<1>2. copies[q][i] \in Copy /\ copies[q][i].at = "ready" /\ i \in Nat
  BY <1>1, LenProperties DEF IInv, BusTypeOK, Ready
<1>3. /\ copies'[q][i] = [at |-> "rejected", done |-> copies[q][i].done]
      /\ \A r \in Queues : \A j \in DOMAIN log :
           r # q \/ j # i => copies'[r][j] = copies[r][j]
  BY <1>2 DEF IInv, BusTypeOK, Reject, GivenUp, Copy
<1>4. q \in bound
  BY <1>1 DEF IInv, OrphansAreDown
<1>5. /\ deadLetters' \in [Queues -> SUBSET (Queues \X Nat)]
      /\ \A r \in Queues : deadLetters[r] \subseteq deadLetters'[r]
      /\ <<q, i>> \in deadLetters'[q]
  BY <1>2, <1>4 DEF IInv, BusTypeOK, Reject
<1>6. BusTypeOK'
  <2>1. copies'[q][i] \in Copy
    BY <1>2, <1>3 DEF Copy
  <2>2. copies' \in [Queues -> [DOMAIN log -> Copy]]
    BY <1>2, <1>3, <2>1 DEF IInv, BusTypeOK, Reject
  <2> QED BY <1>1, <1>5, <2>2, CloseFacts DEF IInv, BusTypeOK, Reject, Fault
<1>7. OrphansAreDown'
  BY <1>1, CloseFacts DEF IInv, OrphansAreDown, Reject
<1>8. AllKept'
  <2>1. SUFFICES ASSUME NEW r \in Queues, NEW j \in DOMAIN log
                 PROVE  Kept(r, j)'
    BY DEF Reject, AllKept
  <2>2. Kept(r, j) /\ copies[r][j].done \in Nat /\ closings[r] \in Nat
    BY DEF IInv, AllKept, BusTypeOK, Copy
  <2>3. log' = log
    BY DEF Reject
  <2>4. CASE r = q /\ j = i
    BY <1>1, <1>2, <1>3, <1>5, <2>2, <2>4, CloseFacts DEF Kept, Runs
  <2>5. CASE r # q \/ j # i
    BY <1>1, <1>3, <1>5, <2>2, <2>3, <2>5, CloseFacts DEF Kept, Runs
  <2> QED BY <2>4, <2>5
<1> QED BY <1>6, <1>7, <1>8 DEF IInv

LEMMA OrphanIInv ==
  ASSUME IInv, NEW q \in Queues, NEW i \in DOMAIN log, Orphan(q, i)
  PROVE  IInv'
<1>1. copies[q][i] \in Copy /\ i \in orphans[q]
  BY DEF IInv, BusTypeOK, Orphan
<1>2. /\ copies'[q][i] = [at |-> copies[q][i].at, done |-> copies[q][i].done + 1]
      /\ \A r \in Queues : \A j \in DOMAIN log :
           r # q \/ j # i => copies'[r][j] = copies[r][j]
  BY <1>1 DEF IInv, BusTypeOK, Orphan, Copy
<1>3. /\ i \notin orphans'[q]
      /\ \A r \in Queues : orphans'[r] \subseteq orphans[r]
      /\ \A r \in Queues : \A j : r # q \/ j # i => (j \in orphans'[r] <=> j \in orphans[r])
  BY DEF IInv, BusTypeOK, Orphan
<1>4. BusTypeOK'
  <2>1. copies'[q][i] \in Copy
    BY <1>1, <1>2 DEF Copy
  <2>2. copies' \in [Queues -> [DOMAIN log -> Copy]]
    BY <1>2, <2>1 DEF IInv, BusTypeOK, Orphan
  <2> QED BY <2>2 DEF IInv, BusTypeOK, Orphan
<1>5. OrphansAreDown'
  BY <1>3 DEF IInv, OrphansAreDown, Orphan
<1>6. AllKept'
  <2>1. SUFFICES ASSUME NEW r \in Queues, NEW j \in DOMAIN log
                 PROVE  Kept(r, j)'
    BY DEF Orphan, AllKept
  <2>2. Kept(r, j) /\ copies[r][j].done \in Nat /\ closings[r] \in Nat
    BY DEF IInv, AllKept, BusTypeOK, Copy
  <2>3. log' = log /\ closings' = closings /\ deadLetters' = deadLetters
    BY DEF Orphan
  <2>4. CASE r = q /\ j = i
    BY <1>1, <1>2, <1>3, <2>2, <2>3, <2>4 DEF Kept, Runs
  <2>5. CASE r # q \/ j # i
    BY <1>2, <1>3, <2>2, <2>3, <2>5 DEF Kept, Runs
  <2> QED BY <2>4, <2>5
<1> QED BY <1>4, <1>5, <1>6 DEF IInv

LEMMA NextIInv == IInv /\ [BusNext]_busVars => IInv'
<1> SUFFICES ASSUME IInv, [BusNext]_busVars PROVE IInv'
  OBVIOUS
<1>1. ASSUME NEW e \in Events, Publish(e) PROVE IInv'
  <2>1. CASE Route(e) /\ UNCHANGED faults
    BY <2>1, RouteIInv DEF IInv, BusTypeOK
  <2>2. CASE Fault /\ UNCHANGED <<log, copies, bound, up, orphans, deadLetters, closings>>
    BY <2>2 DEF Fault, IInv, BusTypeOK, OrphansAreDown, AllKept, Kept, Runs
  <2> QED BY <1>1, <2>1, <2>2 DEF Publish
<1>2. ASSUME NEW e \in Events, Fault, Route(e) PROVE IInv'
  BY <1>2, RouteIInv DEF Fault, IInv, BusTypeOK
<1>3. ASSUME NEW q \in Queues, Consume(q) PROVE IInv'
  BY <1>3, StartIInv, DropIInv, HandleIInv, RejectIInv, OrphanIInv DEF Consume
<1>4. CASE UNCHANGED busVars
  BY <1>4 DEF busVars, IInv, BusTypeOK, OrphansAreDown, AllKept, Kept, Runs
<1> QED BY <1>1, <1>2, <1>3, <1>4 DEF BusNext

-----------------------------------------------------------------------------
\* The inductive invariant of the bus: a copy is handled, kept in its dead-letter
\* queue or of no interest, and each effect it had or may still have is paid for.
THEOREM BusInvariant == BusSpec => []IInv
BY InitIInv, NextIInv, PTL DEF BusSpec

\* A copy never disappears: acked means handled, given up means dead-lettered.
THEOREM CopiesNeverVanish == BusSpec => []NothingVanishes
<1>1. IInv => NothingVanishes
  BY DEF IInv, AllKept, Kept, NothingVanishes
<1> QED BY <1>1, BusInvariant, PTL

\* Repeated effects are bounded by the times the channel was lost.
THEOREM RepeatsArePaid == BusSpec => []RepeatsAreClosings
<1>1. IInv => RepeatsAreClosings
  <2> SUFFICES ASSUME IInv, NEW q \in Queues, NEW i \in DOMAIN log
               PROVE  copies[q][i].done <= 1 + closings[q]
    BY DEF RepeatsAreClosings
  <2>1. copies[q][i].done \in Nat /\ closings[q] \in Nat
    BY DEF IInv, BusTypeOK, Copy
  <2>2. Runs(q, i) <= 1 + closings[q]
    BY DEF IInv, AllKept, Kept
  <2> QED BY <2>1, <2>2 DEF Runs
<1> QED BY <1>1, BusInvariant, PTL
=============================================================================

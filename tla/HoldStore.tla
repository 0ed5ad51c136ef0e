------------------------------ MODULE HoldStore ------------------------------
(***************************************************************************)
(* HoldStoreService (booking-service/src/redis/hold-store.service.ts): the *)
(* four families of Redis keys that represent a seat hold, and one         *)
(* operator per Redis command or pipeline.  Redis runs a command, and a    *)
(* pipeline of ours, without interleaving; the service awaits in between,  *)
(* so each operator below is one atomic step of the module that uses it.   *)
(*                                                                         *)
(* A hold is identified by the UUID its create request minted.  The JSON   *)
(* document of a hold never changes but for expiresAt, so its seat and its *)
(* idempotency key are the functions seatOf and keyOf.                     *)
(*                                                                         *)
(* Time is a flag per hold: h \in due means that the expiresAt last        *)
(* written for h has passed.  Every key carries EX ttl, counted from a     *)
(* moment no earlier than the one expiresAt was computed from; a key may   *)
(* therefore vanish once its owner is due, in any order, and never before. *)
(***************************************************************************)
CONSTANTS Holds,    \* ids that randomUUID() may mint
          Seats,    \* seats of the trip
          Keys,     \* Idempotency-Key header values
          None      \* a null reply, an absent key, an unset field

ASSUME NoneAssumption ==
  /\ None \notin Holds
  /\ None \notin Seats
  /\ None \notin Keys

VARIABLES
  seatOf,     \* seatId of each minted hold, None before it is minted
  keyOf,      \* its idempotencyKey
  holdKey,    \* the h such that bus:hold:{h} exists
  seatKey,    \* bus:hold:seat:{trip}:{seat}: the id stored, None when absent
  idemKey,    \* bus:hold:idem:{key}: likewise
  expiring,   \* members of the sorted set bus:hold:expiring
  due         \* holds whose last written expiresAt has passed

document  == <<seatOf, keyOf>>
redis     == <<holdKey, seatKey, idemKey, expiring>>
storeVars == <<document, redis, due>>

StoreTypeOK ==
  /\ seatOf \in [Holds -> Seats \cup {None}]
  /\ keyOf \in [Holds -> Keys \cup {None}]
  /\ holdKey \subseteq Holds
  /\ seatKey \in [Seats -> Holds \cup {None}]
  /\ idemKey \in [Keys -> Holds \cup {None}]
  /\ expiring \subseteq Holds
  /\ due \subseteq Holds

StoreInit ==
  /\ seatOf = [h \in Holds |-> None]
  /\ keyOf = [h \in Holds |-> None]
  /\ holdKey = {}
  /\ seatKey = [s \in Seats |-> None]
  /\ idemKey = [k \in Keys |-> None]
  /\ expiring = {}
  /\ due = {}

Minted == {h \in Holds : seatOf[h] # None}

-----------------------------------------------------------------------------
(* Reads *)

GetById(h) == h \in holdKey

GetHoldIdBySeat(s) == seatKey[s]

\* GET of the idem key, then of the hold it names: found only when both exist.
GetByIdempotencyKey(k) == idemKey[k] \in holdKey

ListDueIds == expiring \cap due

-----------------------------------------------------------------------------
(* The three commands of tryCreate, each with the outcome that lets it go   *)
(* on; the caller handles the other one.                                    *)

SetIdemNX(h) ==
  /\ idemKey[keyOf[h]] = None
  /\ idemKey' = [idemKey EXCEPT ![keyOf[h]] = h]
  /\ UNCHANGED <<holdKey, seatKey, expiring>>

SetSeatNX(h) ==
  /\ seatKey[seatOf[h]] = None
  /\ seatKey' = [seatKey EXCEPT ![seatOf[h]] = h]
  /\ UNCHANGED <<holdKey, idemKey, expiring>>

\* DEL of the idem key, whoever owns it by now.
DelIdem(h) ==
  /\ idemKey' = [idemKey EXCEPT ![keyOf[h]] = None]
  /\ UNCHANGED <<holdKey, seatKey, expiring>>

PutHold(h) ==
  /\ holdKey' = holdKey \cup {h}
  /\ expiring' = expiring \cup {h}
  /\ UNCHANGED <<seatKey, idemKey>>

-----------------------------------------------------------------------------
(* refresh and delete act on the caller's copy of the hold: neither looks   *)
(* at what Redis holds by then.                                             *)

Refresh(h) ==
  /\ holdKey' = holdKey \cup {h}
  /\ idemKey' = [idemKey EXCEPT ![keyOf[h]] = h]
  /\ seatKey' = [seatKey EXCEPT ![seatOf[h]] = h]
  /\ expiring' = expiring \cup {h}
  /\ due' = due \ {h}

MutantDelete(h) ==   \* forgets the hold key and the sorted set
  /\ seatKey' = [seatKey EXCEPT ![seatOf[h]] = None]
  /\ idemKey' = [idemKey EXCEPT ![keyOf[h]] = None]
  /\ UNCHANGED <<holdKey, expiring>>
Delete(h) ==
  /\ holdKey' = holdKey \ {h}
  /\ seatKey' = [seatKey EXCEPT ![seatOf[h]] = None]
  /\ idemKey' = [idemKey EXCEPT ![keyOf[h]] = None]
  /\ expiring' = expiring \ {h}

RemoveDueId(h) ==
  /\ expiring' = expiring \ {h}
  /\ UNCHANGED <<holdKey, seatKey, idemKey>>

-----------------------------------------------------------------------------
(* Redis drops a key whose TTL has run out. *)

HoldKeyLapses(h) ==
  /\ h \in holdKey \cap due
  /\ holdKey' = holdKey \ {h}
  /\ UNCHANGED <<seatKey, idemKey, expiring>>

MutantSeatKeyLapses(s) ==   \* set without EX: only del removes it
  seatKey[s] \in {} /\ UNCHANGED redis
SeatKeyLapses(s) ==
  /\ seatKey[s] \in due
  /\ seatKey' = [seatKey EXCEPT ![s] = None]
  /\ UNCHANGED <<holdKey, idemKey, expiring>>

IdemKeyLapses(k) ==
  /\ idemKey[k] \in due
  /\ idemKey' = [idemKey EXCEPT ![k] = None]
  /\ UNCHANGED <<holdKey, seatKey, expiring>>
=============================================================================

---------------------------- MODULE MCOutboxRelay ----------------------------
(* Three events: r1 and r2 of one reservation, in that order, and r3. *)
EXTENDS OutboxRelay

CONSTANTS r1, r2, r3

After1 == [r \in {r1, r2, r3} |-> IF r = r2 THEN {r1} ELSE {}]
=============================================================================

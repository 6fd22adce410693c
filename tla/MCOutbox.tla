------------------------------ MODULE MCOutbox ------------------------------
(* Small instances of Outbox for TLC.                                       *)
EXTENDS Outbox, TLC

CONSTANTS t1, t2, e1, o1, o2

\* A tenant with both kinds of rows beside one with a single row.
Owner == [r \in Row |-> IF r \in {e1, o1} THEN t1 ELSE t2]
ById  == [t \in Tenant |-> IF t = t1 THEN 1 ELSE 2]
Rounds == Permutations(Flusher)
=============================================================================

----------------------------- MODULE MCDispatch -----------------------------
(* The publisher of messages (Outbox) and a unit (UnitDispatch) side by     *)
(* side: one of them is chosen at the beginning and runs, the other rests.  *)
EXTENDS MCUnitDispatch, MCOutbox

CONSTANT Components     \* those that a run chooses from

VARIABLE component

allVars == <<component, vars, outboxVars>>

AllInit == component \in Components /\ Init /\ OutboxInit

AllNext ==
  /\ UNCHANGED component
  /\ \/ component = "outbox" /\ OutboxNext /\ UNCHANGED vars
     \/ component = "unit"   /\ Next       /\ UNCHANGED outboxVars

AllSpec == AllInit /\ [][AllNext]_allVars

\* One of them alone: the other, which rests, is owed nothing.
FairOutbox == AllSpec /\ OutboxFairness
FairUnit   == AllSpec /\ Fairness

\* Rounds and tasks are interchangeable.
Alikes == Rounds \cup Symmetry
=============================================================================

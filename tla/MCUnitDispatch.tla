--------------------------- MODULE MCUnitDispatch ---------------------------
(* Instances of UnitDispatch for TLC: the shape of the unit's graph. *)
EXTENDS UnitDispatch, TLC

\* Ads belong to one group; a read-back belongs to the campaign.
ChainParent ==
  [s \in Ad \cup Readback |-> IF s \in Ad THEN CHOOSE g \in Group : TRUE ELSE Campaign]

\* Every group uses all materials.
SharedMaterial == [g \in Group |-> Material]

\* Tasks are interchangeable; used by safety runs only.
Symmetry == Permutations(Worker)
=============================================================================

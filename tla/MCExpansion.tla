---------------------------- MODULE MCExpansion ----------------------------
(* From the draft to the steps of its submissions: its preparation          *)
(* (DraftPrep), a preview of it (DraftPreview) and the submission of         *)
(* previews (Expansion), side by side: one of them is chosen at the          *)
(* beginning and runs, the others rest.  The instance of Expansion has two   *)
(* previews of one draft for the same dramas and accounts.                   *)
EXTENDS Expansion, DraftPreview, TLC

CONSTANTS p1, p2, u1, u2, u3, u4, x, y, cta, campaign, readback

\* They agree on both pairs, but u2 is blocked in the first preview.
OwnerOf == [u \in Unit |-> IF u \in {u1, u2} THEN p1 ELSE p2]
Target  == [u \in Unit |-> CASE u \in {u1, u3} -> x [] u \in {u2, u4} -> y]
Order   == [u \in Unit |-> CASE u = u1 -> 2 [] u = u2 -> 1 [] u = u3 -> 3 [] u = u4 -> 4]
Keys    == [u \in Unit |-> Key]
KeyOrder == [k \in Key |-> CASE k = cta -> 1 [] k = campaign -> 2 [] k = readback -> 3]
Parents == [k \in Key |-> IF k = readback THEN campaign ELSE None]
FirstRevision == [p \in Preview |-> 1]

VARIABLE component

allVars == <<component, vars, prepVars, viewVars>>

AllInit ==
  /\ component \in {"draft", "preview", "submission"}
  /\ Init /\ PrepInit /\ ViewInit
  /\ component = "preview" \/ (plan.has = NoContents /\ name = [d \in Drama |-> d])

AllNext ==
  /\ UNCHANGED component
  /\ \/ component = "draft"      /\ PrepNext /\ UNCHANGED <<vars, viewVars>>
     \/ component = "preview"    /\ ViewNext /\ UNCHANGED <<vars, prepVars>>
     \/ component = "submission" /\ Next     /\ UNCHANGED <<prepVars, viewVars>>

AllSpec == AllInit /\ [][AllNext]_allVars
FairAll == AllSpec /\ Fairness /\ PrepFairness /\ ViewFairness

\* Preparations and previews end: neither waits for ever on jobs of others, on a message
\* that was lost, or on an edit that overtook it (draft_tasks.py and preview_tasks.py).
DraftsSettle == PrepEnds /\ PreviewEnds

Symmetry == Permutations(Worker) \cup Permutations(Request)
=============================================================================

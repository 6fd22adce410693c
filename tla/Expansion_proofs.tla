-------------------------- MODULE Expansion_proofs --------------------------
(* Theorems about Expansion, for every number of previews, units, steps and *)
(* requests, every page limit and every number of workers; and about drafts *)
(* (DraftPrep), for every number of lines, accounts and groups, every size  *)
(* of a page, and every number of revisions and troubles; and about their   *)
(* previews (DraftPreview), for every number of steps of a delivery.        *)
EXTENDS Expansion, DraftPreview, Integers, FiniteSetTheorems, WellFoundedInduction, TLAPS

----------------------------------------------------------------------------
(* Pages: the first items of a finite set are closed under what comes       *)
(* before them, and a page that is not full holds them all.                 *)

LEMMA ItemsFinite == ASSUME NEW p \in Preview PROVE IsFiniteSet(Items(p))
<1>1. IsFiniteSet(UnitsOf(p))
  BY ExpansionOK, FS_Subset DEF UnitsOf
<1>2. IsFiniteSet(0..EndRank)
  BY ExpansionOK, FS_Interval
<1>3. IsFiniteSet(UnitsOf(p) \X (0..EndRank))
  BY <1>1, <1>2, FS_Product
<1> QED BY <1>3, FS_Subset DEF Items

LEMMA PageClosed ==
  ASSUME NEW p \in Preview, NEW i \in Page(p), NEW j \in Items(p), Before(j, i)
  PROVE  j \in Page(p)
<1> DEFINE Earlier(x) == {y \in Items(p) : Before(y, x)}
<1>1. i \in Items(p) /\ Cardinality(Earlier(i)) < Limit
  BY DEF Page
<1>2. \A x \in Items(p) : x[1] \in Unit /\ x[2] \in Nat
  BY ExpansionOK DEF Items, UnitsOf
<1>3. Earlier(j) \subseteq Earlier(i)
  <2>1. ASSUME NEW y \in Items(p), Before(y, j) PROVE Before(y, i)
    BY <1>1, <1>2, <2>1, ExpansionOK DEF Before
  <2> QED BY <2>1
<1>4. IsFiniteSet(Earlier(i)) /\ IsFiniteSet(Earlier(j))
  BY ItemsFinite, FS_Subset
<1>5. /\ Cardinality(Earlier(i)) \in Nat /\ Cardinality(Earlier(j)) \in Nat
      /\ Cardinality(Earlier(j)) <= Cardinality(Earlier(i))
  BY <1>3, <1>4, FS_Subset, FS_CardinalityType
<1>6. Cardinality(Earlier(j)) < Limit
  BY <1>1, <1>5, ExpansionOK
<1> QED BY <1>6 DEF Page

LEMMA PageFull == ASSUME NEW p \in Preview, Exhausted(p) PROVE Page(p) = Items(p)
<1>1. ASSUME NEW i \in Items(p) PROVE Cardinality({j \in Items(p) : Before(j, i)}) < Limit
  <2> DEFINE earlier == {j \in Items(p) : Before(j, i)}
  <2>1. /\ IsFiniteSet(earlier) /\ Cardinality(earlier) <= Cardinality(Items(p))
    BY ItemsFinite, FS_Subset
  <2>2. Cardinality(earlier) \in Nat /\ Cardinality(Items(p)) \in Nat
    BY <2>1, ItemsFinite, FS_CardinalityType
  <2> HIDE DEF earlier
  <2>3. Cardinality(earlier) < Limit
    BY <2>1, <2>2, ExpansionOK DEF Exhausted
  <2> QED BY <2>3 DEF earlier
<1> QED BY <1>1 DEF Page

\* Which items there are.
LEMMA ItemKinds ==
  ASSUME NEW u \in Unit
  PROVE  /\ <<u, 0>> \in Items(PreviewOf[u]) <=> u \notin after
         /\ <<u, EndRank>> \in Items(PreviewOf[u]) <=> Includes(u) /\ u \notin closed
         /\ \A k \in Key : <<u, KeyRank[k]>> \in Items(PreviewOf[u]) <=>
              Includes(u) /\ u \notin closed /\ k \in Blueprint[u] \ steps[u]
<1>1. PreviewOf[u] \in Preview /\ u \in UnitsOf(PreviewOf[u])
  BY ExpansionOK DEF UnitsOf
<1>2. /\ 0 \in 0..EndRank /\ EndRank \in 0..EndRank /\ EndRank # 0
      /\ \A k \in Key : KeyRank[k] \in 0..EndRank /\ KeyRank[k] # 0 /\ KeyRank[k] # EndRank
  BY ExpansionOK
<1>3. Blueprint[u] \subseteq Key
  BY ExpansionOK
<1>4. <<u, 0>> \in Items(PreviewOf[u]) <=> u \notin after
  BY <1>1, <1>2, <1>3 DEF Items, Pending
<1>5. <<u, EndRank>> \in Items(PreviewOf[u]) <=> Includes(u) /\ u \notin closed
  BY <1>1, <1>2, <1>3 DEF Items, Pending
<1>6. ASSUME NEW k \in Key
      PROVE <<u, KeyRank[k]>> \in Items(PreviewOf[u]) <=>
              Includes(u) /\ u \notin closed /\ k \in Blueprint[u] \ steps[u]
  BY <1>1, <1>2, <1>3, ExpansionOK DEF Items, Pending
<1> QED BY <1>4, <1>5, <1>6

\* What a page holds: rows without a gap, a row before what belongs to it, parents
\* before their children, and steps before the end.
PageIsOrdered(p) ==
  /\ \A i \in Page(p) : i \in Items(p) /\ i[1] \in UnitsOf(p)
  /\ \A u, v \in UnitsOf(p) :
       <<v, 0>> \in Page(p) /\ u \notin after /\ UnitRank[u] <= UnitRank[v] => <<u, 0>> \in Page(p)
  /\ \A u \in UnitsOf(p) :
       /\ <<u, EndRank>> \in Page(p) =>
            /\ u \notin after => <<u, 0>> \in Page(p)
            /\ \A k \in Blueprint[u] \ steps[u] : <<u, KeyRank[k]>> \in Page(p)
       /\ \A k \in Key : <<u, KeyRank[k]>> \in Page(p) =>
            /\ u \notin after => <<u, 0>> \in Page(p)
            /\ ParentKey[k] # None /\ ParentKey[k] \notin steps[u] =>
                 <<u, KeyRank[ParentKey[k]]>> \in Page(p)

LEMMA PageOrder == ASSUME NEW p \in Preview PROVE PageIsOrdered(p)
<1>1. ASSUME NEW i \in Page(p) PROVE i \in Items(p) /\ i[1] \in UnitsOf(p)
  BY DEF Page, Items
<1>2. \A u \in UnitsOf(p) : u \in Unit /\ PreviewOf[u] = p
  BY DEF UnitsOf
<1>3. ASSUME NEW u \in UnitsOf(p), NEW v \in UnitsOf(p),
             <<v, 0>> \in Page(p), u \notin after, UnitRank[u] <= UnitRank[v]
      PROVE  <<u, 0>> \in Page(p)
  <2>1. <<u, 0>> \in Items(p)
    BY <1>2, <1>3, ItemKinds
  <2>2. CASE u = v
    BY <1>3, <2>2
  <2>3. CASE u # v
    <3>1. UnitRank[u] \in Nat /\ UnitRank[v] \in Nat /\ UnitRank[u] # UnitRank[v]
      BY <1>2, <2>3, ExpansionOK
    <3>2. Before(<<u, 0>>, <<v, 0>>)
      BY <1>3, <3>1 DEF Before
    <3> QED BY <1>3, <2>1, <3>2, PageClosed
  <2> QED BY <2>2, <2>3
<1>4. ASSUME NEW u \in UnitsOf(p), NEW n \in Nat \ {0}, <<u, n>> \in Page(p), u \notin after
      PROVE  <<u, 0>> \in Page(p)
  <2>1. <<u, 0>> \in Items(p)
    BY <1>2, <1>4, ItemKinds
  <2>2. Before(<<u, 0>>, <<u, n>>)
    BY DEF Before
  <2> QED BY <1>4, <2>1, <2>2, PageClosed
<1>5. ASSUME NEW u \in UnitsOf(p), <<u, EndRank>> \in Page(p), NEW k \in Blueprint[u] \ steps[u]
      PROVE  <<u, KeyRank[k]>> \in Page(p)
  <2>1. k \in Key /\ KeyRank[k] \in Nat /\ KeyRank[k] < EndRank
    BY <1>2, ExpansionOK
  <2>2. Includes(u) /\ u \notin closed
    BY <1>1, <1>2, <1>5, ItemKinds
  <2>3. <<u, KeyRank[k]>> \in Items(p)
    BY <1>2, <2>1, <2>2, ItemKinds
  <2>4. Before(<<u, KeyRank[k]>>, <<u, EndRank>>)
    BY <2>1 DEF Before
  <2> QED BY <1>5, <2>3, <2>4, PageClosed
<1>6. ASSUME NEW u \in UnitsOf(p), NEW k \in Key, <<u, KeyRank[k]>> \in Page(p),
             ParentKey[k] # None, ParentKey[k] \notin steps[u]
      PROVE  <<u, KeyRank[ParentKey[k]]>> \in Page(p)
  <2> DEFINE l == ParentKey[k]
  <2>1. Includes(u) /\ u \notin closed /\ k \in Blueprint[u]
    BY <1>1, <1>2, <1>6, ItemKinds
  <2>2. l \in Key /\ l \in Blueprint[u] /\ KeyRank[l] < KeyRank[k]
    BY <1>2, <1>6, <2>1, ExpansionOK
  <2>3. <<u, KeyRank[l]>> \in Items(p)
    BY <1>2, <1>6, <2>1, <2>2, ItemKinds
  <2>4. Before(<<u, KeyRank[l]>>, <<u, KeyRank[k]>>)
    BY <2>2 DEF Before
  <2> QED BY <1>6, <2>3, <2>4, PageClosed
<1>7. EndRank \in Nat \ {0} /\ \A k \in Key : KeyRank[k] \in Nat \ {0}
  BY ExpansionOK
<1> QED BY <1>1, <1>3, <1>4, <1>5, <1>6, <1>7 DEF PageIsOrdered

----------------------------------------------------------------------------
(* A page keeps the invariant.                                             *)

PageRows(p) == {u \in Unit : <<u, 0>> \in Page(p)}
PageNews(p) == {u \in PageRows(p) : Includes(u)}
PageEnds(p) == {u \in Unit : <<u, EndRank>> \in Page(p)}
PageSteps(p, u) == {k \in Key : <<u, KeyRank[k]>> \in Page(p)}

\* The effect of a page on a unit.
LEMMA PageEffect ==
  ASSUME IInv, NEW p \in Preview, ExpandPage(p), UNCHANGED ordinal, NEW u \in Unit
  PROVE  /\ u \in PageRows(p) => PreviewOf[u] = p /\ u \notin after /\ disposition[u] = "none"
         /\ u \in PageNews(p) <=>
              u \in PageRows(p) /\ u \in Eligible /\ ~Covered(u, ordinal[p])
         /\ u \in PageEnds(p) =>
              PreviewOf[u] = p /\ Includes(u) /\ u \notin closed /\ (u \in after \/ u \in PageRows(p))
         /\ u \in after' <=> u \in after \/ u \in PageRows(p)
         /\ disposition'[u] = IF u \in PageNews(p) THEN "INCLUDED"
                              ELSE IF u \in PageRows(p) THEN "EXCLUDED" ELSE disposition[u]
         /\ Included(u)' <=> Included(u) \/ u \in PageNews(p)
         /\ u \in closed' <=> u \in closed \/ u \in PageEnds(p) \/ u \in PageRows(p) \ PageNews(p)
         /\ u \in started' <=> u \in started \/ u \in PageEnds(p)
         /\ steps'[u] = steps[u] \cup PageSteps(p, u)
         /\ PageSteps(p, u) \subseteq Blueprint[u]
         /\ PageSteps(p, u) # {} => PreviewOf[u] = p
         /\ Covered(u, ordinal[PreviewOf[u]])' <=> Covered(u, ordinal[PreviewOf[u]])
<1>1. PageIsOrdered(p)
  BY PageOrder
<1>2. \A v \in UnitsOf(p) : v \in Unit /\ PreviewOf[v] = p
  BY DEF UnitsOf
<1>3. u \in PageRows(p) => PreviewOf[u] = p /\ u \notin after /\ disposition[u] = "none"
  BY <1>1, <1>2, ItemKinds DEF PageRows, PageIsOrdered, IInv, RowInv
<1>4. u \in PageNews(p) <=> u \in PageRows(p) /\ u \in Eligible /\ ~Covered(u, ordinal[p])
  BY <1>3 DEF PageNews, Includes
<1>5. u \in PageEnds(p) =>
        PreviewOf[u] = p /\ Includes(u) /\ u \notin closed /\ (u \in after \/ u \in PageRows(p))
  BY <1>1, <1>2, ItemKinds DEF PageEnds, PageRows, PageIsOrdered
<1>6. u \in after' <=> u \in after \/ u \in PageRows(p)
  <2>1. after' = Cursor(p, PageRows(p))
    BY DEF ExpandPage, PageRows
  <2>2. \A v \in PageRows(p) : v \in UnitsOf(p) /\ <<v, 0>> \in Page(p)
    BY <1>1 DEF PageRows, PageIsOrdered
  <2>3. u \in PageRows(p) => u \in UnitsOf(p) /\ UnitRank[u] <= UnitRank[u]
    <3>1. UnitRank[u] \in Nat
      BY ExpansionOK
    <3>2. UnitRank[u] <= UnitRank[u]
      BY <3>1
    <3>3. u \in PageRows(p) => u \in UnitsOf(p)
      BY <2>2
    <3> QED BY <3>2, <3>3
  <2>4. u \in PageRows(p) => u \in after'
    BY <2>1, <2>3 DEF Cursor
  <2>5. ASSUME u \in after', u \notin after PROVE u \in PageRows(p)
    <3>1. PICK v \in PageRows(p) : u \in UnitsOf(p) /\ UnitRank[u] <= UnitRank[v]
      BY <2>1, <2>5 DEF Cursor
    <3>2. <<u, 0>> \in Page(p)
      BY <1>1, <2>2, <2>5, <3>1 DEF PageIsOrdered
    <3> QED BY <3>2 DEF PageRows
  <2>6. u \in after => u \in after'
    BY <2>1 DEF Cursor
  <2> QED BY <2>4, <2>5, <2>6
<1>7. disposition'[u] = IF u \in PageNews(p) THEN "INCLUDED"
                        ELSE IF u \in PageRows(p) THEN "EXCLUDED" ELSE disposition[u]
  BY DEF ExpandPage, PageNews, PageRows
<1>8. Included(u)' <=> Included(u) \/ u \in PageNews(p)
  BY <1>3, <1>7 DEF Included
<1>9. u \in closed' <=> u \in closed \/ u \in PageEnds(p) \/ u \in PageRows(p) \ PageNews(p)
  BY DEF ExpandPage, PageNews, PageRows, PageEnds
<1>10. u \in started' <=> u \in started \/ u \in PageEnds(p)
  BY DEF ExpandPage, PageEnds
<1>11. steps'[u] = steps[u] \cup PageSteps(p, u)
  BY DEF ExpandPage, PageSteps
<1>12. PageSteps(p, u) \subseteq Blueprint[u] /\ (PageSteps(p, u) # {} => PreviewOf[u] = p)
  <2>1. ASSUME NEW k \in PageSteps(p, u) PROVE k \in Blueprint[u] /\ PreviewOf[u] = p
    BY <1>1, <1>2, ItemKinds DEF PageSteps, PageIsOrdered
  <2> QED BY <2>1
<1>13. Covered(u, ordinal[PreviewOf[u]])' <=> Covered(u, ordinal[PreviewOf[u]])
  BY DEF Covered
<1> QED BY <1>3, <1>4, <1>5, <1>6, <1>7, <1>8, <1>9, <1>10, <1>11, <1>12, <1>13

LEMMA PageKeepsRows ==
  ASSUME IInv, NEW p \in Preview, Submitted(p), ExpandPage(p), UNCHANGED ordinal
  PROVE  RowInv' /\ OrdinalInv'
<1>1. ASSUME NEW u \in Unit
      PROVE  /\ disposition'[u] # "none" <=> u \in after'
             /\ u \in after' => Submitted(PreviewOf[u])'
             /\ Included(u)' => u \in Eligible /\ ~Covered(u, ordinal[PreviewOf[u]])'
             /\ u \in after' /\ ~Included(u)' =>
                  u \notin Eligible \/ Covered(u, ordinal[PreviewOf[u]])'
  BY PageEffect DEF IInv, RowInv, Submitted
<1>2. ASSUME NEW u \in Unit, NEW v \in UnitsOf(PreviewOf[u]), u \in after', UnitRank[v] <= UnitRank[u]
      PROVE  v \in after'
  <2>1. v \in Unit /\ PreviewOf[v] = PreviewOf[u]
    BY DEF UnitsOf
  <2>2. CASE u \in after
    BY <1>2, <2>1, <2>2, PageEffect DEF IInv, RowInv
  <2>3. CASE u \in PageRows(p)
    <3>1. u \in UnitsOf(p) /\ v \in UnitsOf(p) /\ <<u, 0>> \in Page(p)
      BY <2>1, <2>3, PageEffect DEF PageRows, UnitsOf
    <3>2. v \in after \/ v \in PageRows(p)
      BY <1>2, <2>1, <3>1, PageOrder DEF PageIsOrdered, PageRows
    <3> QED BY <2>1, <3>2, PageEffect
  <2> QED BY <1>2, <2>2, <2>3, PageEffect
<1>3. OrdinalInv'
  BY DEF IInv, OrdinalInv, Submitted
<1>4. RowInv'
  BY <1>1, <1>2 DEF RowInv, UnitsOf
<1> QED BY <1>3, <1>4

LEMMA PageKeepsUnits ==
  ASSUME IInv, NEW p \in Preview, ExpandPage(p), UNCHANGED ordinal
  PROVE  UnitInv'
<1> SUFFICES ASSUME NEW u \in Unit
             PROVE  /\ steps'[u] \subseteq Blueprint[u]
                    /\ \A k \in steps'[u] : ParentKey[k] # None => ParentKey[k] \in steps'[u]
                    /\ u \in started' =>
                         Included(u)' /\ u \in closed' /\ steps'[u] = Blueprint[u]
                    /\ u \in closed' /\ Included(u)' => u \in started'
                    /\ u \in closed' => u \in after'
  BY DEF UnitInv
<1>1. steps'[u] \subseteq Blueprint[u] /\ Blueprint[u] \subseteq Key
  BY PageEffect, ExpansionOK DEF IInv, UnitInv
<1>2. ASSUME NEW k \in steps'[u], ParentKey[k] # None PROVE ParentKey[k] \in steps'[u]
  <2>1. CASE k \in steps[u]
    BY <1>2, <2>1, PageEffect DEF IInv, UnitInv
  <2>2. CASE k \in PageSteps(p, u)
    <3>1. u \in UnitsOf(p) /\ k \in Key /\ k \in Blueprint[u] /\ <<u, KeyRank[k]>> \in Page(p)
      BY <2>2, PageEffect DEF PageSteps, UnitsOf
    <3>2. ParentKey[k] \in Key
      BY <1>1, <1>2, <3>1, ExpansionOK
    <3>3. ParentKey[k] \in steps[u] \/ <<u, KeyRank[ParentKey[k]]>> \in Page(p)
      BY <1>2, <3>1, PageOrder DEF PageIsOrdered
    <3> QED BY SMTT(90), <3>2, <3>3, PageEffect DEF PageSteps
  <2> QED BY <2>1, <2>2, PageEffect
<1>3. ASSUME u \in PageEnds(p) PROVE Included(u)' /\ steps'[u] = Blueprint[u]
  <2>1. PreviewOf[u] = p /\ Includes(u) /\ (u \in after \/ u \in PageRows(p))
    BY <1>3, PageEffect
  <2>2. Included(u)'
    BY <2>1, PageEffect DEF Includes, PageNews, IInv, RowInv, Included
  <2>3. u \in UnitsOf(p) /\ <<u, EndRank>> \in Page(p)
    BY <1>3, <2>1 DEF PageEnds, UnitsOf
  <2>4. \A k \in Blueprint[u] \ steps[u] : <<u, KeyRank[k]>> \in Page(p)
    BY <2>3, PageOrder DEF PageIsOrdered
  <2>5. Blueprint[u] \ steps[u] \subseteq PageSteps(p, u)
    BY <1>1, <2>4 DEF PageSteps
  <2>6. steps'[u] = steps[u] \cup PageSteps(p, u)
    BY PageEffect
  <2>7. steps'[u] = Blueprint[u]
    BY <1>1, <2>5, <2>6
  <2> QED BY <2>2, <2>7
<1>4. ASSUME u \in started' PROVE Included(u)' /\ u \in closed' /\ steps'[u] = Blueprint[u]
  <2>1. CASE u \in started
    <3>1. Included(u) /\ u \in closed /\ steps[u] = Blueprint[u]
      BY <2>1 DEF IInv, UnitInv
    <3>2. steps'[u] = steps[u] \cup PageSteps(p, u) /\ PageSteps(p, u) \subseteq Blueprint[u]
      BY PageEffect
    <3> QED BY <3>1, <3>2, PageEffect
  <2>2. CASE u \in PageEnds(p)
    BY <1>3, <2>2, PageEffect
  <2> QED BY <1>4, <2>1, <2>2, PageEffect
<1>5. u \in closed' /\ Included(u)' => u \in started'
  BY PageEffect DEF IInv, UnitInv, PageNews, Included
<1>6. u \in closed' => u \in after'
  BY PageEffect DEF IInv, UnitInv
<1> QED BY <1>1, <1>2, <1>4, <1>5, <1>6

LEMMA PageKeepsReservations ==
  ASSUME IInv, NEW p \in Preview, ExpandPage(p), UNCHANGED ordinal
  PROVE  ReservationInv' /\ reserved' \in [Pair -> Unit \cup {None}]
<1>1. \A x \in Pair : reserved'[x] = IF \E u \in PageNews(p) : PairOf[u] = x
                                     THEN CHOOSE u \in PageNews(p) : PairOf[u] = x
                                     ELSE reserved[x]
  BY DEF ExpandPage, PageNews, PageRows
<1>2. \A u \in PageNews(p) : reserved[PairOf[u]] = None
  BY DEF ExpandPage, PageNews, PageRows
<1>3. \A u \in PageNews(p) : u \in Unit /\ PreviewOf[u] = p
  BY PageEffect DEF PageNews, PageRows
<1>4. \A u, v \in PageNews(p) : PairOf[u] = PairOf[v] => u = v
  BY <1>3, ExpansionOK
<1>5. ASSUME NEW x \in Pair, NEW u \in Unit
      PROVE  reserved'[x] = u <=> Included(u)' /\ PairOf[u] = x
  <2>1. CASE \E v \in PageNews(p) : PairOf[v] = x
    <3>1. PICK v \in PageNews(p) : PairOf[v] = x
      BY <2>1
    <3>2. reserved'[x] = v
      BY <1>1, <1>4, <3>1
    <3>3. ~(Included(u) /\ PairOf[u] = x)
      BY <1>2, <3>1, ExpansionOK DEF IInv, ReservationInv
    <3> QED BY <1>3, <1>4, <3>1, <3>2, <3>3, PageEffect
  <2>2. CASE ~ \E v \in PageNews(p) : PairOf[v] = x
    BY <1>1, <2>2, PageEffect DEF IInv, ReservationInv
  <2> QED BY <2>1, <2>2
<1>6. reserved' \in [Pair -> Unit \cup {None}]
  <2>1. ASSUME NEW x \in Pair PROVE reserved'[x] \in Unit \cup {None}
    <3>1. CASE \E v \in PageNews(p) : PairOf[v] = x
      <4>1. PICK v \in PageNews(p) : PairOf[v] = x
        BY <3>1
      <4> QED BY <1>1, <1>3, <1>4, <4>1
    <3>2. CASE ~ \E v \in PageNews(p) : PairOf[v] = x
      <4>1. reserved'[x] = reserved[x]
        BY <1>1, <3>2
      <4> QED BY <4>1 DEF IInv, TypeOK
    <3> QED BY <3>1, <3>2
  <2>2. reserved' = [x \in Pair |-> reserved'[x]]
    BY DEF ExpandPage
  <2> QED BY <2>1, <2>2
<1> QED BY <1>5, <1>6 DEF ReservationInv

LEMMA PageKeepsEnds ==
  ASSUME IInv, NEW p \in Preview, Submitted(p), ExpandPage(p), UNCHANGED ordinal
  PROVE  EndInv' /\ FirstInv'
<1>1. ASSUME NEW q \in expanded', q \in expanded, q # p PROVE Items(q)' = {}
  <2>1. \A u \in UnitsOf(q) : u \in Unit /\ PreviewOf[u] = q
    BY DEF UnitsOf
  <2>2. ASSUME NEW u \in UnitsOf(q)
        PROVE  /\ u \in after' /\ steps'[u] = steps[u]
               /\ Includes(u)' <=> Includes(u)
               /\ u \in closed' <=> u \in closed
    <3>1. u \in Unit /\ PreviewOf[u] = q /\ q # p
      BY <1>1, <2>1
    <3>2. u \in after
      BY <1>1, <3>1, ItemKinds DEF IInv, EndInv
    <3>3. u \notin PageRows(p) /\ u \notin PageEnds(p) /\ PageSteps(p, u) = {}
      BY <3>1, PageEffect
    <3>4. /\ u \in after' /\ steps'[u] = steps[u] /\ (u \in closed' <=> u \in closed)
          /\ disposition'[u] = disposition[u] /\ disposition[u] # "none"
      <4>1. u \notin PageNews(p)
        BY <3>3 DEF PageNews
      <4>2. /\ u \in after' /\ steps'[u] = steps[u] \cup {} /\ (u \in closed' <=> u \in closed)
            /\ disposition'[u] = disposition[u]
        BY ZenonT(90), <3>1, <3>2, <3>3, <4>1, PageEffect
      <4> QED BY <3>1, <3>2, <4>2 DEF IInv, RowInv
    <3>5. Includes(u) <=> disposition[u] = "INCLUDED"
      BY <3>4 DEF Includes
    <3>6. Includes(u)' <=> disposition'[u] = "INCLUDED"
      BY <3>4 DEF Includes
    <3> QED BY <3>4, <3>5, <3>6
  <2>3. ASSUME NEW i \in UnitsOf(q) \X (0..EndRank), Pending(i)' PROVE FALSE
    <3>1. Pending(i)
      BY <2>2, <2>3 DEF Pending
    <3> QED BY <1>1, <3>1 DEF Items, IInv, EndInv
  <2> QED BY <2>3 DEF Items, UnitsOf
<1>2. ASSUME Exhausted(p) PROVE Items(p)' = {}
  <2>1. Page(p) = Items(p)
    BY <1>2, PageFull
  <2>2. ASSUME NEW i \in UnitsOf(p) \X (0..EndRank), Pending(i)' PROVE FALSE
    <3> DEFINE u == i[1]
    <3>1. u \in Unit /\ PreviewOf[u] = p
      BY DEF UnitsOf
    <3>2. u \in after'
      <4>1. u \notin after => <<u, 0>> \in Page(p)
        BY <2>1, <3>1, ItemKinds
      <4> QED BY <3>1, <4>1, PageEffect DEF PageRows
    <3>3. Includes(u)' /\ u \notin closed'
      BY <2>2, <3>2 DEF Pending
    <3>4. Included(u)'
      BY <3>1, <3>2, <3>3, PageKeepsRows DEF Includes, Included, RowInv
    <3>5. Includes(u) /\ u \notin closed
      BY <3>1, <3>3, <3>4, PageEffect DEF PageNews, Includes, Included
    <3>6. u \in PageEnds(p)
      BY <2>1, <3>1, <3>5, ItemKinds DEF PageEnds
    <3> QED BY <3>1, <3>3, <3>6, PageEffect
  <2> QED BY <2>2 DEF Items, UnitsOf
<1>3. ASSUME NEW q \in expanded' PROVE Submitted(q)' /\ Items(q)' = {}
  <2>1. expanded' = IF Exhausted(p) THEN expanded \cup {p} ELSE expanded
    BY DEF ExpandPage
  <2>2. Submitted(q)'
    BY <2>1 DEF IInv, EndInv, Submitted
  <2>3. CASE q = p
    <3>1. Exhausted(p) \/ p \in expanded
      BY <1>3, <2>1, <2>3
    <3>2. ASSUME p \in expanded PROVE Exhausted(p)
      <4>1. Items(p) = {}
        BY <3>2 DEF IInv, EndInv
      <4>2. Cardinality(Items(p)) = 0
        BY <4>1, FS_EmptySet
      <4> QED BY <4>2, ExpansionOK DEF Exhausted
    <3> QED BY <1>2, <2>2, <2>3, <3>1, <3>2
  <2>4. CASE q # p
    BY <1>1, <1>3, <2>1, <2>2, <2>4
  <2> QED BY <2>3, <2>4
<1>4. \A q \in Preview : Submitted(q)' => Remaining(q, ordinal[q])' # {}
  BY DEF IInv, EndInv, Submitted, Remaining, Covered, UnitsOf
<1>5. FirstInv'
  BY DEF IInv, FirstInv, Submitted, Covered
<1> QED BY <1>3, <1>4, <1>5 DEF EndInv
----------------------------------------------------------------------------
(* Accepting a submission keeps the invariant: it has the highest number, so *)
(* that nothing that has been decided before looks at it.                    *)

LEMMA AcceptKeepsCovers ==
  ASSUME TypeOK, NEW p \in Preview, ordinal[p] = 0, NEW number \in NextOrdinals,
         ordinal' = [ordinal EXCEPT ![p] = number]
  PROVE  /\ number \in Nat \ {0}
         /\ \A q \in Preview : ordinal[q] \in Nat /\ ordinal[q] < number
         /\ ordinal'[p] = number /\ \A q \in Preview \ {p} : ordinal'[q] = ordinal[q]
         /\ \A u \in Unit, m \in Nat : m <= number => (Covered(u, m)' <=> Covered(u, m))
<1>1. number \in Nat \ {0} /\ \A q \in Preview : ordinal[q] \in Nat /\ ordinal[q] < number
  BY DEF NextOrdinals, TypeOK
<1>2. ordinal'[p] = number /\ \A q \in Preview \ {p} : ordinal'[q] = ordinal[q]
  BY DEF TypeOK
<1>3. ASSUME NEW v \in Eligible, NEW m \in Nat, m <= number
      PROVE  ordinal'[PreviewOf[v]] \in 1..(m - 1) <=> ordinal[PreviewOf[v]] \in 1..(m - 1)
  <2>1. PreviewOf[v] \in Preview
    BY ExpansionOK
  <2>2. CASE PreviewOf[v] = p
    BY <1>1, <1>2, <1>3, <2>2
  <2>3. CASE PreviewOf[v] # p
    BY <1>2, <2>1, <2>3
  <2> QED BY <2>2, <2>3
<1>4. \A u \in Unit, m \in Nat : m <= number => (Covered(u, m)' <=> Covered(u, m))
  BY <1>3 DEF Covered
<1> QED BY <1>1, <1>2, <1>4

LEMMA AcceptKeepsInvariant ==
  ASSUME IInv, NEW r \in Request, Accept(r)
  PROVE  IInv'
<1>0. PICK p \in Preview : p = call[r]
  BY DEF Accept, IInv, TypeOK
<1>1. PICK number \in NextOrdinals :
        Remaining(p, number) # {} /\ ordinal' = [ordinal EXCEPT ![p] = number]
  BY <1>0 DEF Accept
<1>2. p \in Preview /\ ordinal[p] = 0
  BY <1>0 DEF Accept, Submitted
<1>3. /\ number \in Nat \ {0}
      /\ \A q \in Preview : ordinal[q] \in Nat /\ ordinal[q] < number
      /\ ordinal'[p] = number /\ \A q \in Preview \ {p} : ordinal'[q] = ordinal[q]
      /\ \A u \in Unit, m \in Nat : m <= number => (Covered(u, m)' <=> Covered(u, m))
  BY <1>1, <1>2, AcceptKeepsCovers DEF IInv
<1>4. UNCHANGED <<expanded, after, generation, unitVars, wire, task, permitted, edits, faults, revision>>
  BY DEF Accept
<1>5. ASSUME NEW q \in Preview, Submitted(q)
      PROVE  /\ q # p /\ ordinal'[q] = ordinal[q]
             /\ \A u \in Unit : Covered(u, ordinal[q])' <=> Covered(u, ordinal[q])
  <2>1. q # p /\ ordinal'[q] = ordinal[q]
    BY <1>2, <1>3, <1>5 DEF Submitted
  <2>2. ordinal[q] \in Nat /\ ordinal[q] <= number
    BY <1>3
  <2>3. \A u \in Unit : Covered(u, ordinal[q])' <=> Covered(u, ordinal[q])
    BY <1>3, <2>1, <2>2
  <2> QED BY <2>1, <2>3
<1>6. \A u \in Unit : Covered(u, ordinal[p])' <=> Covered(u, number)
  BY <1>3
<1>7. \A q \in Preview : Submitted(q)' <=> q = p \/ Submitted(q)
  BY <1>2, <1>3 DEF Submitted
<1>8. TypeOK'
  <2>1. ordinal' \in [Preview -> Nat]
    BY <1>1, <1>2, <1>3 DEF IInv, TypeOK
  <2>2. alias' \in [Request -> Preview \cup {None}] /\ call' \in [Request -> Preview \cup {None}]
    BY <1>0 DEF Accept, IInv, TypeOK
  <2>3. outbox' \subseteq Message
    BY <1>0 DEF Accept, IInv, TypeOK, Message
  <2> QED BY <1>4, <2>1, <2>2, <2>3 DEF IInv, TypeOK, unitVars, Message
<1>9. OrdinalInv'
  <2> SUFFICES ASSUME NEW q1 \in Preview, NEW q2 \in Preview, Submitted(q1)', ordinal'[q1] = ordinal'[q2]
               PROVE  q1 = q2
    BY DEF OrdinalInv
  <2> QED BY <1>2, <1>3, <1>7 DEF IInv, OrdinalInv, Submitted
<1>10. RowInv'
  <2>1. ASSUME NEW u \in Unit, u \in after
        PROVE  /\ Submitted(PreviewOf[u])'
               /\ Covered(u, ordinal[PreviewOf[u]])' <=> Covered(u, ordinal[PreviewOf[u]])
    <3>1. PreviewOf[u] \in Preview /\ Submitted(PreviewOf[u])
      BY <2>1, ExpansionOK DEF IInv, RowInv
    <3> QED BY <1>5, <1>7, <3>1
  <2>2. \A u \in Unit : Included(u)' <=> Included(u)
    BY <1>4 DEF unitVars, Included
  <2>3. \A u \in Unit : Included(u) => u \in after
    BY DEF Included, IInv, RowInv
  <2> QED BY <1>4, <2>1, <2>2, <2>3 DEF unitVars, IInv, RowInv, UnitsOf
<1>11. UnitInv'
  BY <1>4 DEF IInv, UnitInv, unitVars, Included
<1>12. EndInv'
  <2>1. ASSUME NEW q \in expanded PROVE Submitted(q)' /\ Items(q)' = {}
    <3>1. q \in Preview /\ Submitted(q) /\ Items(q) = {}
      BY <2>1 DEF IInv, EndInv, TypeOK
    <3>2. ASSUME NEW i \in UnitsOf(q) \X (0..EndRank), Pending(i)' PROVE FALSE
      <4> DEFINE u == i[1]
      <4>1. u \in Unit /\ PreviewOf[u] = q
        BY DEF UnitsOf
      <4>2. u \in after /\ disposition[u] # "none"
        BY <3>1, <4>1, ItemKinds DEF IInv, RowInv
      <4>3. Includes(u) <=> disposition[u] = "INCLUDED"
        BY <4>2 DEF Includes
      <4>4. Includes(u)' <=> disposition[u] = "INCLUDED"
        BY <1>4, <4>2 DEF Includes, unitVars
      <4>5. Pending(i)
        BY <1>4, <3>2, <4>3, <4>4 DEF Pending, unitVars
      <4> QED BY <3>1, <4>5 DEF Items
    <3> QED BY <1>7, <3>1, <3>2 DEF Items, UnitsOf
  <2>2. ASSUME NEW q \in Preview, Submitted(q)' PROVE Remaining(q, ordinal[q])' # {}
    <3>1. \A u \in UnitsOf(q) : u \in Unit
      BY DEF UnitsOf
    <3>2. CASE q = p
      <4>1. \A u \in UnitsOf(q) : Covered(u, ordinal[q])' <=> Covered(u, number)
        BY <1>6, <3>1, <3>2
      <4> QED BY <1>1, <3>2, <4>1 DEF Remaining, UnitsOf
    <3>3. CASE q # p
      <4>1. Submitted(q) /\ Remaining(q, ordinal[q]) # {}
        BY <1>7, <2>2, <3>3 DEF IInv, EndInv
      <4>2. \A u \in UnitsOf(q) : Covered(u, ordinal[q])' <=> Covered(u, ordinal[q])
        BY <1>5, <3>1, <4>1
      <4> QED BY <4>1, <4>2 DEF Remaining, UnitsOf
    <3> QED BY <3>2, <3>3
  <2> QED BY <1>4, <2>1, <2>2 DEF EndInv
<1>13. FirstInv'
  <2>1. ASSUME NEW u \in Eligible, Submitted(PreviewOf[u])
        PROVE  \E v \in Eligible : /\ PairOf[v] = PairOf[u]
                                   /\ ordinal'[PreviewOf[v]] \in 1..ordinal[PreviewOf[u]]
                                   /\ ~Covered(v, ordinal[PreviewOf[v]])'
    <3>1. PICK v \in Eligible : /\ PairOf[v] = PairOf[u]
                                /\ ordinal[PreviewOf[v]] \in 1..ordinal[PreviewOf[u]]
                                /\ ~Covered(v, ordinal[PreviewOf[v]])
      BY <2>1 DEF IInv, FirstInv
    <3>2. v \in Unit /\ PreviewOf[v] \in Preview /\ PreviewOf[u] \in Preview
      BY ExpansionOK
    <3>3. Submitted(PreviewOf[v])
      BY <1>3, <3>1, <3>2 DEF Submitted
    <3> QED BY <1>5, <3>1, <3>2, <3>3
  <2>2. ASSUME NEW u \in Eligible, Submitted(PreviewOf[u])'
        PROVE  \E v \in Eligible : /\ PairOf[v] = PairOf[u]
                                   /\ ordinal'[PreviewOf[v]] \in 1..ordinal'[PreviewOf[u]]
                                   /\ ~Covered(v, ordinal[PreviewOf[v]])'
    <3>1. u \in Unit /\ PreviewOf[u] \in Preview
      BY ExpansionOK
    <3>2. CASE Submitted(PreviewOf[u])
      BY <1>5, <2>1, <3>1, <3>2
    <3>3. CASE PreviewOf[u] = p /\ ~Covered(u, number)
      <4>1. ordinal'[PreviewOf[u]] \in 1..ordinal'[PreviewOf[u]]
        BY <1>3, <3>3
      <4>2. ~Covered(u, ordinal[PreviewOf[u]])'
        BY <1>6, <3>1, <3>3
      <4> QED BY <4>1, <4>2
    <3>4. CASE PreviewOf[u] = p /\ Covered(u, number)
      <4>1. PICK v \in Eligible : /\ PairOf[v] = PairOf[u]
                                  /\ ordinal[PreviewOf[v]] \in 1..(number - 1)
        BY <3>4 DEF Covered
      <4>2. PreviewOf[v] \in Preview
        BY ExpansionOK
      <4>3. ordinal[PreviewOf[v]] \in Nat /\ ordinal[PreviewOf[v]] # 0
            /\ ordinal[PreviewOf[v]] <= number
        BY <1>3, <4>1, <4>2
      <4>4. PICK w \in Eligible : /\ PairOf[w] = PairOf[v]
                                  /\ ordinal'[PreviewOf[w]] \in 1..ordinal[PreviewOf[v]]
                                  /\ ~Covered(w, ordinal[PreviewOf[w]])'
        BY <2>1, <4>3 DEF Submitted
      <4>5. ordinal'[PreviewOf[w]] \in 1..ordinal'[PreviewOf[u]]
        BY <1>3, <3>4, <4>3, <4>4
      <4> QED BY <4>1, <4>4, <4>5
    <3> QED BY <1>7, <2>2, <3>1, <3>2, <3>3, <3>4
  <2> QED BY <2>2 DEF FirstInv
<1>14. ReservationInv'
  BY <1>4 DEF IInv, ReservationInv, unitVars, Included
<1>15. DeliveryInv'
  <2>1. \A message \in outbox' : message \in outbox \/ message[1] = p
    BY <1>0 DEF Accept
  <2>2. \A message \in outbox \cup wire : message[1] \in Preview
    BY DEF IInv, TypeOK, Message
  <2>3. \A w \in Worker : task[w] # None => task[w][1] \in Preview
    BY DEF IInv, TypeOK, Message
  <2> QED BY <1>2, <1>4, <1>7, <2>1, <2>2, <2>3 DEF IInv, DeliveryInv
<1> QED BY <1>8, <1>9, <1>10, <1>11, <1>12, <1>13, <1>14, <1>15 DEF IInv
----------------------------------------------------------------------------
(* The other actions.                                                      *)

LEMMA PageKeepsTypes ==
  ASSUME IInv, NEW p \in Preview, Submitted(p), ExpandPage(p), UNCHANGED ordinal
  PROVE  /\ OrdinalInv' /\ RowInv' /\ UnitInv' /\ EndInv' /\ FirstInv' /\ ReservationInv'
         /\ expanded' \subseteq Preview /\ after' \subseteq Unit
         /\ disposition' \in [Unit -> {"none", "INCLUDED", "EXCLUDED"}]
         /\ closed' \subseteq Unit /\ started' \subseteq Unit
         /\ steps' \in [Unit -> SUBSET Key] /\ reserved' \in [Pair -> Unit \cup {None}]
<1>1. expanded' \subseteq Preview
  BY DEF ExpandPage, IInv, TypeOK
<1>2. after' \subseteq Unit
  BY DEF ExpandPage, Cursor, UnitsOf, IInv, TypeOK
<1>3. disposition' \in [Unit -> {"none", "INCLUDED", "EXCLUDED"}]
  BY DEF ExpandPage, IInv, TypeOK
<1>4. closed' \subseteq Unit /\ started' \subseteq Unit
  BY DEF ExpandPage, IInv, TypeOK
<1>5. steps' \in [Unit -> SUBSET Key]
  <2>1. \A u \in Unit : steps[u] \in SUBSET Key
    BY DEF IInv, TypeOK
  <2> QED BY <2>1 DEF ExpandPage
<1> QED BY <1>1, <1>2, <1>3, <1>4, <1>5, PageKeepsRows, PageKeepsUnits, PageKeepsEnds,
           PageKeepsReservations

LEMMA ExpandKeepsInvariant ==
  ASSUME IInv, NEW w \in Worker, Expand(w) \/ ExpandAndYield(w)
  PROVE  IInv'
<1>1. PICK message \in Message : message = task[w]
  BY DEF Expand, ExpandAndYield, IInv, TypeOK
<1>2. PICK p \in Preview : p = message[1]
  BY DEF Message
<1>3. /\ Submitted(p) /\ ExpandPage(p) /\ UNCHANGED ordinal
      /\ UNCHANGED <<revision, alias, call, wire, permitted, edits, faults>>
  BY <1>1, <1>2 DEF Expand, ExpandAndYield, IInv, DeliveryInv
<1>4. /\ OrdinalInv' /\ RowInv' /\ UnitInv' /\ EndInv' /\ FirstInv' /\ ReservationInv'
      /\ expanded' \subseteq Preview /\ after' \subseteq Unit
      /\ disposition' \in [Unit -> {"none", "INCLUDED", "EXCLUDED"}]
      /\ closed' \subseteq Unit /\ started' \subseteq Unit
      /\ steps' \in [Unit -> SUBSET Key] /\ reserved' \in [Pair -> Unit \cup {None}]
  BY <1>3, PageKeepsTypes
<1>5. task' \in [Worker -> Message \cup {None}] /\ \A x \in Worker : task'[x] \in {task[x], None}
  BY DEF Expand, ExpandAndYield, IInv, TypeOK
<1>6. /\ generation' \in [Preview -> 0..MaxYields] /\ outbox' \subseteq Message
      /\ \A m \in outbox' : m \in outbox \/ m[1] = p
  <2>1. CASE Expand(w)
    BY <2>1 DEF Expand, IInv, TypeOK
  <2>2. CASE ExpandAndYield(w)
    <3>1. /\ generation[p] < MaxYields /\ generation' = [generation EXCEPT ![p] = @ + 1]
          /\ outbox' = outbox \cup {<<p, generation[p] + 1>>}
      BY <1>1, <1>2, <2>2 DEF ExpandAndYield, Yields
    <3>2. generation[p] + 1 \in 0..MaxYields
      BY <3>1, ExpansionOK DEF IInv, TypeOK
    <3> QED BY <3>1, <3>2 DEF IInv, TypeOK, Message
  <2> QED BY <2>1, <2>2
<1>7. TypeOK'
  BY <1>3, <1>4, <1>5, <1>6 DEF IInv, TypeOK, Message
<1>8. DeliveryInv'
  BY <1>3, <1>5, <1>6 DEF IInv, DeliveryInv, Submitted
<1> QED BY <1>4, <1>7, <1>8 DEF IInv

\* Deliveries, and whatever decides nothing.
LEMMA UndecidedKeepsInvariant ==
  ASSUME IInv, UNCHANGED <<ordinal, expanded, after, unitVars>>, TypeOK', DeliveryInv'
  PROVE  IInv'
<1>1. OrdinalInv' /\ RowInv' /\ UnitInv' /\ ReservationInv' /\ FirstInv'
  BY DEF IInv, OrdinalInv, RowInv, UnitInv, ReservationInv, FirstInv, unitVars, Submitted,
         Included, Covered, UnitsOf
<1>2. EndInv'
  BY DEF IInv, EndInv, unitVars, Submitted, Covered, UnitsOf, Items, Pending, Includes,
     Remaining
<1> QED BY <1>1, <1>2 DEF IInv

THEOREM ExpansionInvariance == Spec => []IInv
<1>1. Init => IInv
  <2> SUFFICES ASSUME Init PROVE IInv
    OBVIOUS
  <2>1. TypeOK
    BY ExpansionOK DEF Init, TypeOK
  <2>2. OrdinalInv /\ RowInv /\ UnitInv
    BY ExpansionOK DEF Init, OrdinalInv, RowInv, UnitInv, Submitted, Included
  <2>3. EndInv /\ FirstInv /\ DeliveryInv
    BY ExpansionOK DEF Init, EndInv, FirstInv, DeliveryInv, Submitted
  <2>4. ReservationInv
    BY ExpansionOK DEF Init, ReservationInv, Included
  <2> QED BY <2>1, <2>2, <2>3, <2>4 DEF IInv
<1>2. IInv /\ [Next]_vars => IInv'
  <2> SUFFICES ASSUME IInv, [Next]_vars PROVE IInv'
    OBVIOUS
  <2> USE DEF submissionVars, taskVars
  <2>1. ASSUME NEW r \in Request, NEW p \in Preview, Ask(r, p) PROVE IInv'
    BY <2>1, UndecidedKeepsInvariant DEF Ask, IInv, TypeOK, DeliveryInv, Submitted,
       unitVars, Message
  <2>2. ASSUME NEW r \in Request, Repeat(r) \/ Refuse(r) PROVE IInv'
    BY <2>2, UndecidedKeepsInvariant DEF Repeat, Refuse, IInv, TypeOK, DeliveryInv,
       Submitted,
                                         unitVars, Message
  <2>3. ASSUME NEW r \in Request, Accept(r) PROVE IInv'
    BY <2>3, AcceptKeepsInvariant
  <2>4. ASSUME NEW w \in Worker, Expand(w) \/ ExpandAndYield(w) PROVE IInv'
    BY <2>4, ExpandKeepsInvariant
  <2>5. ASSUME NEW w \in Worker, Drop(w) PROVE IInv'
    BY <2>5, UndecidedKeepsInvariant DEF Drop, IInv, TypeOK, DeliveryInv, Submitted,
       unitVars, Message
  <2>6. ASSUME NEW w \in Worker, Kill(w) PROVE IInv'
    <3>1. task[w] \in Message /\ Submitted(task[w][1])
      BY <2>6 DEF Kill, IInv, TypeOK, DeliveryInv
    <3>2. TypeOK'
      BY <2>6, <3>1, ExpansionOK DEF Kill, IInv, TypeOK, unitVars, Message
    <3>3. DeliveryInv'
      BY <2>6, <3>1 DEF Kill, IInv, TypeOK, DeliveryInv, Submitted
    <3> QED BY <2>6, <3>2, <3>3, UndecidedKeepsInvariant DEF Kill
  <2>7. ASSUME NEW w \in Worker, NEW m \in wire, Deliver(w, m) \/ Redeliver(w, m) PROVE IInv'
    <3>1. m \in Message /\ Submitted(m[1])
      BY DEF IInv, TypeOK, DeliveryInv
    <3>2. TypeOK'
      BY SMTT(90), <2>7, <3>1, ExpansionOK DEF Deliver, Redeliver, IInv, TypeOK, unitVars,
         Message
    <3>3. DeliveryInv'
      BY <2>7, <3>1 DEF Deliver, Redeliver, IInv, TypeOK, DeliveryInv, Submitted
    <3> QED BY <2>7, <3>2, <3>3, UndecidedKeepsInvariant DEF Deliver, Redeliver
  <2>8. ASSUME NEW m \in outbox, Publish(m) PROVE IInv'
    BY <2>8, UndecidedKeepsInvariant DEF Publish, IInv, TypeOK, DeliveryInv, Submitted,
       unitVars, Message
  <2>9. ASSUME NEW m \in wire, Lose(m) PROVE IInv'
    <3>1. TypeOK'
      BY <2>9, ExpansionOK DEF Lose, IInv, TypeOK, unitVars, Message
    <3>2. DeliveryInv'
      BY <2>9 DEF Lose, IInv, DeliveryInv, Submitted
    <3> QED BY <2>9, <3>1, <3>2, UndecidedKeepsInvariant DEF Lose
  <2>10. ASSUME NEW p \in Preview, Repair(p) PROVE IInv'
    <3>1. TypeOK'
      BY <2>10 DEF Repair, Republished, IInv, TypeOK, unitVars, Message
    <3>2. DeliveryInv'
      BY <2>10 DEF Repair, Republished, IInv, DeliveryInv, Submitted
    <3> QED BY <2>10, <3>1, <3>2, UndecidedKeepsInvariant DEF Repair
  <2>11. ASSUME EditDraft \/ PermissionChanges PROVE IInv'
    <3>1. TypeOK'
      <4>1. revision' \in Nat /\ edits' \in 0..MaxEdits
        BY <2>11, ExpansionOK DEF EditDraft, PermissionChanges, IInv, TypeOK
      <4>2. permitted' \in BOOLEAN
        BY <2>11 DEF EditDraft, PermissionChanges, IInv, TypeOK
      <4> QED BY <2>11, <4>1, <4>2 DEF EditDraft, PermissionChanges, IInv, TypeOK,
        unitVars, Message
    <3>2. DeliveryInv'
      BY <2>11 DEF EditDraft, PermissionChanges, IInv, DeliveryInv, Submitted
    <3> QED BY <2>11, <3>1, <3>2, UndecidedKeepsInvariant DEF EditDraft, PermissionChanges
  <2>12. CASE UNCHANGED vars
    BY <2>12, UndecidedKeepsInvariant DEF vars, IInv, TypeOK, DeliveryInv, Submitted,
       unitVars, Message
  <2> QED BY <2>1, <2>2, <2>3, <2>4, <2>5, <2>6, <2>7, <2>8, <2>9, <2>10, <2>11, <2>12
          DEF Next, RequestNext, WorkerNext
<1> QED BY <1>1, <1>2, PTL DEF Spec
----------------------------------------------------------------------------
(* What follows from the invariant.                                        *)

LEMMA ExpandedUnits ==
  ASSUME IInv, NEW u \in Unit, PreviewOf[u] \in expanded
  PROVE  /\ u \in after /\ disposition[u] # "none" /\ Submitted(PreviewOf[u])
         /\ u \in Eligible /\ ~Covered(u, ordinal[PreviewOf[u]]) => Included(u)
         /\ Included(u) => u \in started
<1>1. Submitted(PreviewOf[u]) /\ Items(PreviewOf[u]) = {}
  BY DEF IInv, EndInv
<1>2. u \in after /\ disposition[u] # "none"
  BY <1>1, ItemKinds DEF IInv, RowInv
<1>3. Included(u) => Includes(u)
  BY DEF Included, Includes
<1>4. Included(u) => u \in closed
  BY <1>1, <1>3, ItemKinds
<1> QED BY <1>1, <1>2, <1>4 DEF IInv, RowInv, UnitInv

\* A drama is built on an account once, by the earliest of the submissions that
\* could: submit_preview's COVERED, the numbers and the reservations agree.
THEOREM BuiltOnce == Spec => []EarliestIsIncluded
<1>1. IInv => EarliestIsIncluded
  <2> SUFFICES ASSUME IInv, NEW u \in Unit, NEW v \in Unit, Included(u), v \in Eligible,
                      PairOf[u] = PairOf[v], Submitted(PreviewOf[v])
               PROVE  /\ ordinal[PreviewOf[u]] <= ordinal[PreviewOf[v]]
                      /\ Included(v) => u = v
    BY DEF EarliestIsIncluded
  <2>1. PreviewOf[u] \in Preview /\ PreviewOf[v] \in Preview
    BY ExpansionOK
  <2>2. ordinal[PreviewOf[u]] \in Nat /\ ordinal[PreviewOf[v]] \in Nat
    BY <2>1 DEF IInv, TypeOK
  <2>3. u \in Eligible /\ ~Covered(u, ordinal[PreviewOf[u]]) /\ Submitted(PreviewOf[u])
    BY DEF IInv, RowInv, Included
  <2>4. ordinal[PreviewOf[u]] <= ordinal[PreviewOf[v]]
    BY <2>2, <2>3 DEF Covered, Submitted
  <2>5. ASSUME Included(v) PROVE u = v
    <3>1. ~Covered(v, ordinal[PreviewOf[v]])
      BY <2>5 DEF IInv, RowInv
    <3>2. ordinal[PreviewOf[v]] <= ordinal[PreviewOf[u]]
      BY <2>2, <2>3, <3>1 DEF Covered, Submitted
    <3>3. PreviewOf[u] = PreviewOf[v]
      BY <2>1, <2>2, <2>3, <2>4, <3>2 DEF IInv, OrdinalInv
    <3> QED BY <3>3, ExpansionOK
  <2> QED BY <2>4, <2>5
<1> QED BY <1>1, ExpansionInvariance, PTL

\* An eligible unit of an expanded submission is included there, or by an earlier
\* submission that has not got to it yet.
THEOREM NoneIsLeftOut == Spec => []NothingIsLeftOut
<1>1. IInv => NothingIsLeftOut
  <2> SUFFICES ASSUME IInv, NEW u \in Eligible, PreviewOf[u] \in expanded
               PROVE  \E v \in Eligible :
                        /\ PairOf[v] = PairOf[u]
                        /\ ordinal[PreviewOf[v]] \in 1..ordinal[PreviewOf[u]]
                        /\ Included(v) \/ PreviewOf[v] \notin expanded
    BY DEF NothingIsLeftOut
  <2>1. Submitted(PreviewOf[u])
    BY ExpandedUnits, ExpansionOK
  <2>2. PICK v \in Eligible : /\ PairOf[v] = PairOf[u]
                              /\ ordinal[PreviewOf[v]] \in 1..ordinal[PreviewOf[u]]
                              /\ ~Covered(v, ordinal[PreviewOf[v]])
    BY <2>1 DEF IInv, FirstInv
  <2>3. Included(v) \/ PreviewOf[v] \notin expanded
    BY <2>2, ExpandedUnits, ExpansionOK
  <2> QED BY <2>2, <2>3
<1> QED BY <1>1, ExpansionInvariance, PTL

\* What submit_preview found left to build is what the expansion builds.
THEOREM SubmissionsBuild == Spec => []NoEmptySubmission
<1>1. IInv => NoEmptySubmission
  <2> SUFFICES ASSUME IInv, NEW p \in expanded PROVE \E u \in UnitsOf(p) : Included(u)
    BY DEF NoEmptySubmission
  <2>1. p \in Preview /\ Remaining(p, ordinal[p]) # {}
    BY DEF IInv, EndInv, TypeOK
  <2>2. PICK u \in UnitsOf(p) : u \in Eligible /\ ~Covered(u, ordinal[p])
    BY <2>1 DEF Remaining
  <2>3. u \in Unit /\ PreviewOf[u] = p
    BY DEF UnitsOf
  <2> QED BY <2>2, <2>3, ExpandedUnits
<1> QED BY <1>1, ExpansionInvariance, PTL

\* A unit starts with all its steps; a step exists with its parent.
THEOREM StartedUnitsAreWhole == Spec => []UnitsAreWhole
<1>1. IInv => UnitsAreWhole
  <2>1. ASSUME IInv PROVE started \subseteq Unit
    BY <2>1 DEF IInv, TypeOK
  <2> QED BY <2>1 DEF IInv, UnitInv, UnitsAreWhole
<1> QED BY <1>1, ExpansionInvariance, PTL

\* An expanded submission has decided on all its units and started what it includes.
THEOREM ExpansionIsComplete == Spec => []ExpandedIsComplete
<1>1. IInv => ExpandedIsComplete
  <2>1. \A p \in Preview : \A u \in UnitsOf(p) : u \in Unit /\ PreviewOf[u] = p
    BY DEF UnitsOf
  <2> QED BY <2>1, ExpandedUnits DEF ExpandedIsComplete, IInv, TypeOK
<1> QED BY <1>1, ExpansionInvariance, PTL

\* Types.
THEOREM ExpansionTypeCorrect == Spec => []TypeOK
<1>1. IInv => TypeOK
  BY DEF IInv
<1> QED BY <1>1, ExpansionInvariance, PTL

----------------------------------------------------------------------------
(* The last row of a page.                                                  *)

LEMMA LeastOf ==
  ASSUME NEW S \in SUBSET Nat, S # {}
  PROVE  \E m \in S : \A n \in S : m <= n
<1>1. PICK m \in S : \A n \in S : <<n, m>> \notin OpToRel(<, Nat)
  BY NatLessThanWellFounded, WFMin
<1>2. \A n \in S : ~(n < m)
  BY <1>1 DEF OpToRel
<1> QED BY <1>2

LEMMA GreatestOf ==
  ASSUME NEW n \in Nat, NEW S \in SUBSET (1 .. n), S # {}
  PROVE  /\ \E m \in S : \A k \in S : k <= m
         /\ (CHOOSE m \in S : \A k \in S : k <= m) \in S
<1> DEFINE T == {n - k : k \in S}
<1>1. T \in SUBSET Nat /\ T # {}
  <2>1. \A k \in S : n - k \in Nat
    OBVIOUS
  <2> QED BY <2>1
<1>2. PICK d \in T : \A k \in T : d <= k
  BY <1>1, LeastOf
<1>3. PICK m \in S : d = n - m
  BY <1>2
<1>4. \A k \in S : n - m <= n - k
  BY <1>2, <1>3
<1>5. \A k \in S : k \in Int /\ m \in Int /\ (n - m <= n - k => k <= m)
  OBVIOUS
<1>6. \E e \in S : \A k \in S : k <= e
  BY <1>4, <1>5
<1> QED BY <1>6

LEMMA BoundsAreNumbers ==
  /\ Dramas \in Nat /\ Accounts \in Nat /\ Groups \in Nat
  /\ DraftPage \in Nat /\ DraftPage > 0 /\ LastRevision \in Nat /\ LastRevision > 0
  /\ MaxTroubles \in Nat
BY DraftOK

----------------------------------------------------------------------------
(* The inductive invariant of a draft.                                      *)

\* A line whose link was found has a row for its drama.
RowsOfReady == \A d \in Drama : line[d] = "ready" => material[d] # "none"

\* A line is still without an answer only where a page of links is to come: because this
\* round over the links has not reached it, or because it will be begun again.
AnswersComplete ==
  Preparing =>
    /\ progress.phase # "links" => progress.cursor = 0
    /\ \A d \in Drama : line[d] = "pending" =>
         /\ d \notin manual
         /\ \/ progress.pendingLinks \/ progress.phase = "accounts"
            \/ progress.phase = "links" /\ d > progress.cursor

\* Scenes are asked for when a drama has materials, which a preparation never takes away.
ScenesNeedGroups ==
  Preparing /\ (\A d \in Drama : groups[d] = {}) => \A a \in Account : progress.scene[a] # "PENDING"

DraftInv == DraftSafe /\ RowsOfReady /\ AnswersComplete /\ ScenesNeedGroups

----------------------------------------------------------------------------
(* Types.                                                                   *)

DraftRow    == [revision : Rev, status : {"DRAFT", "PREPARING", "READY", "BLOCKED"}]
ProgressRow == [phase : {"accounts", "links", "materials"}, account : 0 .. Accounts,
                cursor : 0 .. Dramas, pendingLinks : BOOLEAN, dep : Dependency,
                queued : BOOLEAN, at : 0 .. Accounts, scene : [Account -> Dependency]]

LEMMA BeginningIsProgress ==
  /\ Beginning \in ProgressRow
  /\ \A phase \in {"accounts", "links", "materials"} :
       /\ [Beginning EXCEPT !.phase = phase] \in ProgressRow
       /\ [Beginning EXCEPT !.phase = phase].phase = phase
       /\ [Beginning EXCEPT !.phase = phase].cursor = 0
       /\ [Beginning EXCEPT !.phase = phase].pendingLinks = FALSE
       /\ [Beginning EXCEPT !.phase = phase].scene = [a \in Account |-> "none"]
<1>1. Beginning \in ProgressRow
  BY BoundsAreNumbers DEF Beginning, ProgressRow, Dependency
<1>2. ASSUME NEW phase \in {"accounts", "links", "materials"}
      PROVE  [Beginning EXCEPT !.phase = phase] \in ProgressRow
  BY <1>1 DEF ProgressRow
<1> QED BY <1>1, <1>2 DEF Beginning

LEMMA DraftInitially == PrepInit => DraftInv
<1> SUFFICES ASSUME PrepInit PROVE DraftInv
  OBVIOUS
<1>1. PrepTypeOK
  <2>1. 1 \in Rev
    BY BoundsAreNumbers DEF Rev
  <2> QED BY <2>1, BoundsAreNumbers, BeginningIsProgress DEF PrepInit, PrepTypeOK,
    ProgressRow
<1>2. PreparingIsWatched /\ ReadyIsComplete /\ OnePreparation
  BY DEF PrepInit, PreparingIsWatched, ReadyIsComplete, OnePreparation, Preparing
<1>3. RowsOfReady /\ AnswersComplete /\ ScenesNeedGroups
  BY DEF PrepInit, RowsOfReady, AnswersComplete, ScenesNeedGroups, Preparing
<1> QED BY <1>1, <1>2, <1>3 DEF DraftInv, DraftSafe

LEMMA RevisionsFollow ==
  ASSUME PrepTypeOK, NEW status \in {"DRAFT", "PREPARING", "READY", "BLOCKED"}, Bumped(status)
  PROVE  /\ draft' \in DraftRow /\ draft'.status = status
         /\ draft'.revision = draft.revision + 1 /\ draft'.revision \in Rev
         /\ draft.revision \in Rev /\ draft.revision < LastRevision
BY BoundsAreNumbers DEF PrepTypeOK, Bumped, DraftRow, Rev

LEMMA TypeUpdateDraft ==
  ASSUME PrepTypeOK, UpdateDraft
  PROVE  PrepTypeOK'
<1>1. draft' \in DraftRow
  BY RevisionsFollow DEF UpdateDraft
<1> QED BY <1>1, BeginningIsProgress DEF UpdateDraft, PrepTypeOK, DraftRow, ProgressRow

LEMMA TypeEdits ==
  ASSUME PrepTypeOK, NEW d \in Drama, EditMaterialGroups(d) \/ SaveManualLink(d)
  PROVE  PrepTypeOK'
<1>1. draft' \in DraftRow
  BY RevisionsFollow DEF EditMaterialGroups, SaveManualLink, Regrouped
<1>2. CASE EditMaterialGroups(d)
  BY <1>1, <1>2 DEF EditMaterialGroups, PrepTypeOK, DraftRow, prepRows, outside
<1>3. CASE SaveManualLink(d)
  BY <1>1, <1>3, BeginningIsProgress DEF SaveManualLink, PrepTypeOK, DraftRow, ProgressRow,
     outside
<1> QED BY <1>2, <1>3

LEMMA TypePrepareDraft ==
  ASSUME PrepTypeOK, PrepareDraft
  PROVE  PrepTypeOK'
<1>1. draft' \in DraftRow
  BY RevisionsFollow DEF PrepareDraft, Fresh, PrepTypeOK, DraftRow
<1>2. progress' \in ProgressRow
  BY BeginningIsProgress DEF PrepareDraft, Begins
<1> QED BY SMTT(90), <1>1, <1>2 DEF PrepareDraft, Begins, PrepTypeOK, DraftRow,
  ProgressRow, outside

LEMMA TypeChooseMini ==
  ASSUME PrepTypeOK, ChooseMini
  PROVE  PrepTypeOK'
<1>1. draft' \in DraftRow
  BY RevisionsFollow DEF ChooseMini
<1>2. progress' \in ProgressRow
  BY BeginningIsProgress DEF ChooseMini, Begins
<1> QED BY <1>1, <1>2 DEF ChooseMini, Begins, PrepTypeOK, DraftRow, ProgressRow, outside

\* What every delivery does with the messages and the row of its preparation.
LEMMA TypeOfPage ==
  ASSUME PrepTypeOK, NEW r \in Rev, NEW p \in ProgressRow, Becomes(r, p)
  PROVE  /\ progress' = p /\ progress' \in ProgressRow /\ UNCHANGED <<prep, troubles>>
         /\ prepDispatch' \in [Rev -> {"none", "due", "sent"}] /\ prepWire' \subseteq Rev
         /\ \A s \in Rev : prepDispatch[s] # "none" => prepDispatch'[s] # "none"
BY DEF Becomes, QueuedAfter, PrepTypeOK

LEMMA TypeOfEnd ==
  ASSUME PrepTypeOK, NEW r \in Rev, NEW status \in {"READY", "BLOCKED"}, EndsAs(r, status)
  PROVE  /\ prep' \in [Rev -> {"none", "PENDING", "READY", "BLOCKED", "OBSOLETE"}]
         /\ prep'[r] = status /\ \A s \in Rev : s # r => prep'[s] = prep[s]
         /\ UNCHANGED <<prepDispatch, troubles>> /\ prepWire' \subseteq Rev
BY DEF EndsAs, Taken, PrepTypeOK

LEMMA AskedType ==
  ASSUME PrepTypeOK
  PROVE  Asked \in {"none", "running", "granted", "denied", "stale"}
BY DEF Asked, PrepTypeOK

LEMMA AccountsPageEffect ==
  ASSUME PrepTypeOK, NEW r \in Rev, AccountsPage(r)
  PROVE  /\ accounts' \subseteq Account
         /\ roles' \in {"none", "running", "granted", "denied", "stale"}
         /\ \E p \in ProgressRow :
              /\ Becomes(r, p) /\ p.phase \in {"accounts", "links"}
              /\ p.cursor = progress.cursor /\ p.pendingLinks = progress.pendingLinks
              /\ p.scene = progress.scene
         /\ UNCHANGED <<draft, line, manual, material, groups, link, sceneEnded>>
<1> DEFINE p   == progress
           dep == IF p.dep \in {"COMPLETE", "BLOCKED"} THEN p.dep ELSE DepOf(Asked)
<1>1. p \in ProgressRow /\ p.phase = "accounts"
  BY DEF AccountsPage, PrepTypeOK, ProgressRow
<1>2. dep \in Dependency
  BY DEF DepOf, Dependency
<1>3. \A e \in Dependency : [p EXCEPT !.dep = e] \in ProgressRow
  BY <1>1 DEF ProgressRow
<1>4. UNCHANGED <<draft, line, manual, material, groups, link, sceneEnded>>
  BY DEF AccountsPage, Stays
<1>5. CASE dep = "PENDING" /\ roles' = Asked /\ UNCHANGED accounts
           /\ Becomes(r, [p EXCEPT !.dep = "PENDING"])
  <2>1. [p EXCEPT !.dep = "PENDING"] \in ProgressRow
    BY SMTT(90), <1>3 DEF Dependency
  <2> QED BY <1>1, <1>4, <1>5, <2>1, AskedType, SMTT(90) DEF PrepTypeOK, ProgressRow
<1>6. CASE AccountRows(p, dep, r)
  <2> DEFINE rows == {a \in Account : a > p.account /\ a <= p.account + DraftPage}
             next == [p EXCEPT !.dep = dep, !.account = CHOOSE a \in rows : \A b \in rows : b <= a]
             over == [p EXCEPT !.dep = dep, !.phase = "links"]
  <2>1. over \in ProgressRow /\ over.phase = "links" /\ over.cursor = p.cursor
        /\ over.pendingLinks = p.pendingLinks /\ over.scene = p.scene
    BY <1>1, <1>2 DEF ProgressRow
  <2>2. ASSUME rows # {}
        PROVE  next \in ProgressRow /\ next.phase = "accounts" /\ next.cursor = p.cursor
               /\ next.pendingLinks = p.pendingLinks /\ next.scene = p.scene
    <3>1. rows \in SUBSET (1 .. Accounts)
      BY DEF Account
    <3> DEFINE m == CHOOSE a \in rows : \A b \in rows : b <= a
    <3>2. m \in 1 .. Accounts
      BY <2>2, <3>1, GreatestOf, BoundsAreNumbers
    <3>3. next = [p EXCEPT !.dep = dep, !.account = m]
      OBVIOUS
    <3> HIDE DEF m, dep, next
    <3>4. m \in 0 .. Accounts
      BY <3>2, BoundsAreNumbers
    <3> QED BY <1>1, <1>2, <3>3, <3>4 DEF ProgressRow
  <2>3. CASE rows = {} /\ UNCHANGED <<accounts, roles>> /\ Becomes(r, over)
    BY <1>4, <2>1, <2>3 DEF PrepTypeOK
  <2>4. CASE \E matched \in SUBSET rows :
               /\ rows # {} /\ accounts' = accounts \cup (IF roles = "granted" THEN matched ELSE {})
               /\ UNCHANGED roles /\ Becomes(r, next)
    <3>1. rows # {} /\ UNCHANGED roles /\ Becomes(r, next) /\ accounts' \subseteq Account
      BY <2>4 DEF PrepTypeOK
    <3> QED BY <1>4, <2>2, <3>1 DEF PrepTypeOK
  <2>5. CASE roles' = Asked /\ UNCHANGED accounts /\ Becomes(r, [p EXCEPT !.dep = "PENDING"])
    <3>1. [p EXCEPT !.dep = "PENDING"] \in ProgressRow
      BY <1>3 DEF Dependency
    <3> QED BY <1>1, <1>4, <2>5, <3>1, AskedType DEF PrepTypeOK, ProgressRow
  <2> QED BY <1>6, <2>3, <2>4, <2>5 DEF AccountRows
<1> QED BY <1>5, <1>6 DEF AccountsPage

LEMMA LinksPageEffect ==
  ASSUME PrepTypeOK, NEW r \in Rev, LinksPage(r)
  PROVE  /\ line' \in [Drama -> {"pending", "ready", "failed"}]
         /\ material' \in [Drama -> {"none", "pending", "matching", "ready", "manual"}]
         /\ \E p \in ProgressRow : Becomes(r, p) /\ p.scene = progress.scene
         /\ UNCHANGED <<draft, manual, groups, accounts, roles, link, sceneEnded>>
<1> DEFINE p    == progress
           rows == {d \in Drama \ manual : d > p.cursor /\ d <= p.cursor + DraftPage}
           last == p.cursor + DraftPage >= Dramas \/ Drama = manual
           next == [p EXCEPT !.pendingLinks = @ \/ StillPending(rows),
                             !.cursor = IF last THEN 0 ELSE p.cursor + DraftPage,
                             !.phase = IF last THEN "materials" ELSE "links"]
<1>1. p \in ProgressRow
  BY DEF PrepTypeOK, ProgressRow
<1>2. (p.pendingLinks \/ StillPending(rows)) \in BOOLEAN
  BY <1>1 DEF ProgressRow, StillPending
<1>3. (IF last THEN 0 ELSE p.cursor + DraftPage) \in 0 .. Dramas
  BY <1>1, BoundsAreNumbers DEF ProgressRow
<1>4. next \in ProgressRow /\ next.scene = p.scene
  <2> HIDE DEF rows, last
  <2> QED BY <1>1, <1>2, <1>3 DEF ProgressRow
<1>5. Becomes(r, next)
  BY DEF LinksPage
<1>6. /\ line' \in [Drama -> {"pending", "ready", "failed"}]
      /\ material' \in [Drama -> {"none", "pending", "matching", "ready", "manual"}]
  BY DEF LinksPage, PrepTypeOK
<1>7. UNCHANGED <<draft, manual, groups, accounts, roles, link, sceneEnded>>
  BY DEF LinksPage, Stays, outside
<1> QED BY <1>4, <1>5, <1>6, <1>7

LEMMA ScenesPageEffect ==
  ASSUME PrepTypeOK, NEW r \in Rev, ScenesPage(r)
  PROVE  /\ roles' \in {"none", "running", "granted", "denied", "stale"}
         /\ sceneEnded' \subseteq Account
         /\ UNCHANGED <<line, manual, material, groups, accounts, link>>
         /\ \E p \in ProgressRow :
              /\ p.phase = progress.phase /\ p.cursor = progress.cursor
              /\ p.pendingLinks = progress.pendingLinks
              /\ \/ Becomes(r, p) /\ UNCHANGED draft
                 \/ /\ EndsAs(r, "READY") /\ progress' = p
                    /\ draft' = [draft EXCEPT !.status = "READY"]
                    /\ \A a \in Account : p.scene[a] # "PENDING"
<1> DEFINE p     == progress
           rows  == {a \in accounts : a > p.at /\ Cardinality({b \in accounts : b > p.at /\ b <= a})
                                                    <= DraftPage}
           all   == p.queued \/ Cardinality(rows) < DraftPage
           ended == {a \in Account : p.scene[a] = "PENDING"} \cap sceneEnded
           fresh == IF p.queued THEN {} ELSE rows
           asked == fresh \cup (IF all THEN ended ELSE {})
           at    == IF ~p.queued /\ rows # {}
                    THEN CHOOSE a \in rows : \A b \in rows : b <= a ELSE p.at
           scene(answer) == [a \in Account |-> IF a \in asked THEN answer[a] ELSE p.scene[a]]
           next(answer) == [p EXCEPT !.queued = all, !.scene = scene(answer), !.at = at]
<1>1. p \in ProgressRow /\ accounts \in SUBSET (1 .. Accounts)
  BY DEF PrepTypeOK, ProgressRow, Account
<1>2. all \in BOOLEAN
  BY <1>1 DEF ProgressRow
<1>3. at \in 0 .. Accounts
  <2>1. CASE ~p.queued /\ rows # {}
    <3>1. rows \in SUBSET (1 .. Accounts)
      BY <1>1
    <3>2. at \in 1 .. Accounts
      BY <2>1, <3>1, GreatestOf, BoundsAreNumbers
    <3> HIDE DEF at
    <3> QED BY <3>2, BoundsAreNumbers
  <2>2. CASE ~(~p.queued /\ rows # {})
    BY <1>1, <2>2 DEF ProgressRow
  <2> QED BY <2>1, <2>2
<1>4. PICK answer \in [Account -> SceneAnswer] :
        /\ sceneEnded' = sceneEnded \ {a \in fresh : answer[a] = "PENDING"}
        /\ IF \A a \in ended : answer[a] # "PENDING" THEN UNCHANGED roles
           ELSE Unproved("COMPLETE") /\ roles' = Asked
        /\ IF all /\ ~Waits(next(answer))
           THEN EndsAs(r, "READY") /\ progress' = next(answer) ELSE Becomes(r, next(answer))
        /\ draft' = IF all /\ ~Waits(next(answer)) THEN [draft EXCEPT !.status = "READY"] ELSE draft
  BY DEF ScenesPage
<1>5. UNCHANGED <<line, manual, material, groups, accounts, link>>
  BY DEF ScenesPage
<1> DEFINE n == next(answer)
<1>6. n \in ProgressRow /\ n.phase = p.phase /\ n.cursor = p.cursor /\ n.pendingLinks = p.pendingLinks
  <2>1. scene(answer) \in [Account -> Dependency]
    <3> HIDE DEF asked
    <3> QED BY <1>1, <1>4 DEF ProgressRow, SceneAnswer, Dependency
  <2> HIDE DEF scene, at, all
  <2> QED BY <1>1, <1>2, <1>3, <2>1 DEF ProgressRow
<1>7. sceneEnded' \subseteq Account
  BY <1>4 DEF PrepTypeOK
<1>8. roles' \in {"none", "running", "granted", "denied", "stale"}
  BY <1>4, AskedType DEF PrepTypeOK
<1> HIDE DEF next, all
<1>9. CASE all /\ ~Waits(n)
  BY <1>4, <1>5, <1>6, <1>7, <1>8, <1>9 DEF Waits
<1>10. CASE ~(all /\ ~Waits(n))
  BY <1>4, <1>5, <1>6, <1>7, <1>8, <1>10
<1> QED BY <1>9, <1>10

LEMMA TypeDeliveries ==
  ASSUME PrepTypeOK, NEW r \in Rev, Prepare(r)
  PROVE  PrepTypeOK'
<1>1. CASE AccountsPage(r)
  <2>1. PICK p \in ProgressRow : Becomes(r, p)
    BY <1>1, AccountsPageEffect
  <2> QED BY <1>1, <2>1, AccountsPageEffect, TypeOfPage DEF PrepTypeOK, ProgressRow
<1>2. CASE LinksPage(r)
  <2>1. PICK p \in ProgressRow : Becomes(r, p)
    BY <1>2, LinksPageEffect
  <2> QED BY <1>2, <2>1, LinksPageEffect, TypeOfPage DEF PrepTypeOK, ProgressRow
<1>3. CASE MaterialsPage(r)
  <2>1. progress \in ProgressRow /\ Becomes(r, progress)
    BY <1>3 DEF MaterialsPage, PrepTypeOK, ProgressRow
  <2>2. /\ groups' \in [Drama -> SUBSET Group]
        /\ material' \in [Drama -> {"none", "pending", "matching", "ready", "manual"}]
        /\ UNCHANGED <<draft, line, manual, accounts, outside>>
    <3> DEFINE d == CHOOSE e \in Unmatched : \A f \in Unmatched : e <= f
    <3>1. PICK gs \in SUBSET Group, state \in {"matching", "ready"} :
            /\ groups' = [groups EXCEPT ![d] = @ \cup gs]
            /\ material' = [material EXCEPT ![d] = state]
      BY <1>3 DEF MaterialsPage
    <3>2. UNCHANGED <<draft, line, manual, accounts, outside>>
      BY <1>3 DEF MaterialsPage, Stays
    <3> HIDE DEF d
    <3> QED BY <3>1, <3>2 DEF PrepTypeOK
  <2> QED BY <2>1, <2>2, TypeOfPage DEF PrepTypeOK, ProgressRow, outside
<1>4. CASE LinksAgain(r)
  <2> DEFINE next == [progress EXCEPT !.pendingLinks = FALSE, !.phase = "links"]
  <2>1. next \in ProgressRow /\ Becomes(r, next)
    BY <1>4 DEF LinksAgain, PrepTypeOK, ProgressRow
  <2>2. UNCHANGED <<draft, line, manual, material, groups, accounts, outside>>
    BY <1>4 DEF LinksAgain, Stays
  <2> HIDE DEF next
  <2> QED BY <2>1, <2>2, TypeOfPage DEF PrepTypeOK, ProgressRow, outside
<1>5. CASE ScenesPage(r)
  <2>1. PICK p \in ProgressRow :
          \/ Becomes(r, p) /\ UNCHANGED draft
          \/ EndsAs(r, "READY") /\ progress' = p /\ draft' = [draft EXCEPT !.status = "READY"]
    BY <1>5, ScenesPageEffect
  <2>2. CASE Becomes(r, p) /\ UNCHANGED draft
    BY <1>5, <2>2, ScenesPageEffect, TypeOfPage DEF PrepTypeOK, ProgressRow
  <2>3. CASE EndsAs(r, "READY") /\ progress' = p /\ draft' = [draft EXCEPT !.status = "READY"]
    BY <1>5, <2>3, ScenesPageEffect, TypeOfEnd DEF PrepTypeOK, ProgressRow
  <2> QED BY <2>1, <2>2, <2>3
<1>6. CASE NoScenes(r)
  <2>1. EndsAs(r, "READY") /\ draft' = [draft EXCEPT !.status = "READY"]
        /\ UNCHANGED <<progress, line, manual, material, groups, accounts, outside>>
    BY <1>6 DEF NoScenes
  <2> QED BY <2>1, TypeOfEnd DEF PrepTypeOK, outside
<1> QED BY <1>1, <1>2, <1>3, <1>4, <1>5, <1>6 DEF Prepare

LEMMA TypeOthers ==
  ASSUME PrepTypeOK,
         \/ JobsEnd \/ RolesExpire
         \/ \E r \in Rev : \/ PrepOver(r) \/ PrepFails(r) \/ RepairPrep(r)
                            \/ PublishPrep(r) \/ LosePrep(r)
  PROVE  PrepTypeOK'
<1> USE BoundsAreNumbers DEF PrepTypeOK, draftRows, prepRows, outside, Trouble
<1>1. CASE RolesEnd
  BY <1>1 DEF RolesEnd
<1>2. ASSUME NEW d \in Drama, LinkEnds(d) PROVE PrepTypeOK'
  BY <1>2 DEF LinkEnds
<1>3. ASSUME NEW a \in Account, SceneEnds(a) PROVE PrepTypeOK'
  BY <1>3 DEF SceneEnds
<1>4. CASE RolesExpire
  BY <1>4 DEF RolesExpire
<1>5. ASSUME NEW r \in Rev, PrepOver(r) PROVE PrepTypeOK'
  BY <1>5 DEF PrepOver, Taken
<1>6. ASSUME NEW r \in Rev, PrepFails(r) PROVE PrepTypeOK'
  BY <1>6, TypeOfEnd DEF PrepFails
<1>7. ASSUME NEW r \in Rev, RepairPrep(r) PROVE PrepTypeOK'
  BY <1>7 DEF RepairPrep
<1>8. ASSUME NEW r \in Rev, PublishPrep(r) PROVE PrepTypeOK'
  BY <1>8 DEF PublishPrep
<1>9. ASSUME NEW r \in Rev, LosePrep(r) PROVE PrepTypeOK'
  BY <1>9 DEF LosePrep
<1> QED BY <1>1, <1>2, <1>3, <1>4, <1>5, <1>6, <1>7, <1>8, <1>9 DEF JobsEnd

LEMMA DraftTypes == PrepTypeOK /\ [PrepNext]_prepVars => PrepTypeOK'
<1> SUFFICES ASSUME PrepTypeOK, [PrepNext]_prepVars PROVE PrepTypeOK'
  OBVIOUS
<1>1. CASE UNCHANGED prepVars
  BY <1>1 DEF prepVars, PrepTypeOK, draftRows, prepRows, outside
<1>2. CASE Edit
  BY <1>2, TypeUpdateDraft, TypeEdits, TypePrepareDraft, TypeChooseMini DEF Edit
<1>3. CASE \E r \in Rev : Prepare(r)
  BY <1>3, TypeDeliveries
<1> QED BY <1>1, <1>2, <1>3, TypeOthers DEF PrepNext

----------------------------------------------------------------------------
(* Every action keeps the rest of the invariant.                            *)

DraftRest == /\ PreparingIsWatched /\ ReadyIsComplete /\ OnePreparation
             /\ RowsOfReady /\ AnswersComplete /\ ScenesNeedGroups

LEMMA RestUpdateDraft ==
  ASSUME DraftInv, UpdateDraft
  PROVE  DraftRest'
<1>1. PrepTypeOK /\ OnePreparation
  BY DEF DraftInv, DraftSafe
<1>2. /\ draft'.status = "DRAFT" /\ draft'.revision = draft.revision + 1
      /\ draft.revision \in Rev /\ UNCHANGED prep
  BY <1>1, RevisionsFollow DEF UpdateDraft
<1>3. OnePreparation'
  BY <1>1, <1>2 DEF OnePreparation, Rev
<1>4. RowsOfReady'
  BY DEF RowsOfReady, UpdateDraft
<1> QED BY <1>2, <1>3, <1>4 DEF DraftRest, PreparingIsWatched, ReadyIsComplete,
  AnswersComplete,
                               ScenesNeedGroups, Preparing

LEMMA RestEdits ==
  ASSUME DraftInv, NEW d \in Drama, EditMaterialGroups(d) \/ SaveManualLink(d)
  PROVE  DraftRest'
<1>1. PrepTypeOK /\ OnePreparation /\ ReadyIsComplete /\ RowsOfReady
  BY DEF DraftInv, DraftSafe
<1>2. CASE EditMaterialGroups(d)
  <2>1. /\ draft.status = "READY" /\ draft'.status = "READY"
        /\ draft'.revision = draft.revision + 1 /\ draft.revision \in Rev
        /\ material' = [material EXCEPT ![d] = "manual"] /\ UNCHANGED <<line, prep, progress>>
    BY <1>1, <1>2, RevisionsFollow DEF EditMaterialGroups, Regrouped, prepRows
  <2>2. OnePreparation'
    BY <1>1, <2>1 DEF OnePreparation, Rev, Preparing
  <2>3. ReadyIsComplete' /\ RowsOfReady'
    BY <1>1, <2>1 DEF ReadyIsComplete, RowsOfReady, Unmatched, PrepTypeOK
  <2> QED BY <2>1, <2>2, <2>3 DEF DraftRest, PreparingIsWatched, AnswersComplete,
                                 ScenesNeedGroups, Preparing
<1>3. CASE SaveManualLink(d)
  <2>1. /\ draft'.status = "DRAFT" /\ draft'.revision = draft.revision + 1
        /\ draft.revision \in Rev /\ UNCHANGED prep /\ line' = [line EXCEPT ![d] = "pending"]
        /\ material' = [material EXCEPT ![d] = "none"]
    BY <1>1, <1>3, RevisionsFollow DEF SaveManualLink
  <2>2. OnePreparation'
    BY <1>1, <2>1 DEF OnePreparation, Rev
  <2>3. RowsOfReady'
    BY <1>1, <2>1 DEF RowsOfReady, PrepTypeOK
  <2> QED BY <2>1, <2>2, <2>3 DEF DraftRest, PreparingIsWatched, AnswersComplete,
    ReadyIsComplete,
                                 ScenesNeedGroups, Preparing
<1> QED BY <1>2, <1>3

LEMMA RestPrepareDraft ==
  ASSUME DraftInv, PrepareDraft
  PROVE  DraftRest'
<1>1. PrepTypeOK /\ OnePreparation /\ RowsOfReady
  BY DEF DraftInv, DraftSafe
<1>2. /\ draft'.status = "PREPARING" /\ draft'.revision \in Rev
      /\ draft'.revision >= draft.revision /\ draft.revision \in Rev
  <2>1. draft.revision \in Rev
    BY <1>1 DEF PrepTypeOK
  <2> QED BY <1>1, <2>1, RevisionsFollow DEF PrepareDraft, Fresh, PrepTypeOK, Rev
<1>3. /\ prep' = [prep EXCEPT ![draft'.revision] = "PENDING"]
      /\ prepDispatch' = [prepDispatch EXCEPT ![draft'.revision] = "due"]
      /\ progress' = [Beginning EXCEPT !.phase = "accounts"] /\ UNCHANGED manual
  BY DEF PrepareDraft, Begins
<1>4. progress'.phase = "accounts" /\ progress'.cursor = 0
      /\ progress'.scene = [a \in Account |-> "none"]
  BY <1>3, BeginningIsProgress
<1>5. PreparingIsWatched'
  BY <1>1, <1>2, <1>3 DEF PreparingIsWatched, PrepTypeOK
<1>6. OnePreparation'
  BY <1>1, <1>2, <1>3 DEF OnePreparation, PrepTypeOK, Preparing, Rev
<1>7. RowsOfReady'
  BY <1>1 DEF RowsOfReady, PrepareDraft, PrepTypeOK
<1>8. AnswersComplete'
  <2>1. \A d \in Drama : line'[d] = "pending" => d \notin manual'
    BY DEF PrepareDraft
  <2> QED BY <1>4, <2>1 DEF AnswersComplete
<1>9. ScenesNeedGroups'
  BY <1>4 DEF ScenesNeedGroups
<1> QED BY <1>2, <1>5, <1>6, <1>7, <1>8, <1>9 DEF DraftRest, ReadyIsComplete

LEMMA RestChooseMini ==
  ASSUME DraftInv, ChooseMini
  PROVE  DraftRest'
<1>1. PrepTypeOK /\ OnePreparation /\ RowsOfReady /\ ReadyIsComplete
  BY DEF DraftInv, DraftSafe
<1>2. /\ draft.status = "READY" /\ draft'.status = "PREPARING" /\ draft'.revision \in Rev
      /\ draft'.revision = draft.revision + 1 /\ draft.revision \in Rev
  BY <1>1, RevisionsFollow DEF ChooseMini
<1>3. /\ prep' = [prep EXCEPT ![draft'.revision] = "PENDING"]
      /\ prepDispatch' = [prepDispatch EXCEPT ![draft'.revision] = "due"]
      /\ progress' = [Beginning EXCEPT !.phase = "materials"]
      /\ UNCHANGED <<line, manual, material>>
  BY DEF ChooseMini, Begins
<1>4. progress'.cursor = 0 /\ progress'.scene = [a \in Account |-> "none"]
  BY <1>3, BeginningIsProgress
<1>5. PreparingIsWatched'
  BY <1>1, <1>2, <1>3 DEF PreparingIsWatched, PrepTypeOK
<1>6. OnePreparation'
  BY <1>1, <1>2, <1>3 DEF OnePreparation, PrepTypeOK, Preparing, Rev
<1>7. RowsOfReady' /\ AnswersComplete' /\ ScenesNeedGroups'
  BY <1>1, <1>2, <1>3, <1>4 DEF RowsOfReady, AnswersComplete, ScenesNeedGroups,
     ReadyIsComplete
<1> QED BY <1>2, <1>5, <1>6, <1>7 DEF DraftRest, ReadyIsComplete

\* A delivery that is taken in time is that of the one preparation under way.
LEMMA ActiveIsCurrent ==
  ASSUME DraftInv, NEW r \in Rev, Active(r)
  PROVE  r = draft.revision /\ Preparing /\ draft.status = "PREPARING" /\ prep[r] = "PENDING"
BY DEF DraftInv, DraftSafe, OnePreparation, Active, Outdated, Preparing

\* A page that leaves the draft in preparation keeps what concerns its messages.
LEMMA PageKeepsWatch ==
  ASSUME DraftInv, NEW r \in Rev, NEW p \in ProgressRow, Becomes(r, p), UNCHANGED draft
  PROVE  PreparingIsWatched' /\ OnePreparation' /\ progress' = p
<1>1. PrepTypeOK
  BY DEF DraftInv, DraftSafe
<1>2. /\ progress' = p /\ UNCHANGED prep /\ draft.revision \in Rev
      /\ \A s \in Rev : prepDispatch[s] # "none" => prepDispatch'[s] # "none"
  BY <1>1, TypeOfPage DEF PrepTypeOK
<1> QED BY <1>2 DEF DraftInv, DraftSafe, PreparingIsWatched, OnePreparation, Preparing

LEMMA RestAccountsPage ==
  ASSUME DraftInv, NEW r \in Rev, AccountsPage(r)
  PROVE  DraftRest'
<1>1. PrepTypeOK /\ RowsOfReady /\ AnswersComplete /\ ScenesNeedGroups /\ progress.phase = "accounts"
  BY DEF DraftInv, DraftSafe, AccountsPage
<1>2. PICK p \in ProgressRow :
        /\ Becomes(r, p) /\ p.phase \in {"accounts", "links"}
        /\ p.cursor = progress.cursor /\ p.pendingLinks = progress.pendingLinks
        /\ p.scene = progress.scene
  BY <1>1, AccountsPageEffect
<1>3. UNCHANGED <<draft, line, manual, material, groups>>
  BY <1>1, AccountsPageEffect
<1>4. Preparing
  BY ActiveIsCurrent DEF AccountsPage
<1>5. PreparingIsWatched' /\ OnePreparation' /\ progress' = p
  BY <1>2, <1>3, PageKeepsWatch
<1>6. RowsOfReady' /\ ScenesNeedGroups'
  BY <1>1, <1>2, <1>3, <1>5 DEF RowsOfReady, ScenesNeedGroups, Preparing
<1>7. AnswersComplete'
  <2>1. progress.cursor = 0 /\ \A d \in Drama : line[d] = "pending" => d \notin manual
    BY <1>1, <1>4 DEF AnswersComplete
  <2>2. \A d \in Drama : d > 0
    BY BoundsAreNumbers DEF Drama
  <2> QED BY <1>2, <1>3, <1>5, <2>1, <2>2 DEF AnswersComplete
<1>8. ReadyIsComplete'
  BY <1>3, <1>4 DEF ReadyIsComplete, Preparing
<1> QED BY <1>5, <1>6, <1>7, <1>8 DEF DraftRest

\* The round over the links: what is behind its cursor is answered, or it is remembered that
\* something is not.
LEMMA RestLinksPage ==
  ASSUME DraftInv, NEW r \in Rev, LinksPage(r)
  PROVE  DraftRest'
<1> DEFINE p    == progress
           rows == {d \in Drama \ manual : d > p.cursor /\ d <= p.cursor + DraftPage}
           last == p.cursor + DraftPage >= Dramas \/ Drama = manual
<1>1. PrepTypeOK /\ RowsOfReady /\ AnswersComplete /\ ScenesNeedGroups /\ p.phase = "links"
  BY DEF DraftInv, DraftSafe, LinksPage
<1>2. PICK n \in ProgressRow : Becomes(r, n) /\ n.scene = p.scene
  BY <1>1, LinksPageEffect
<1>3. UNCHANGED <<draft, manual, groups>>
  BY <1>1, LinksPageEffect
<1>4. Preparing
  BY ActiveIsCurrent DEF LinksPage
<1>5. PreparingIsWatched' /\ OnePreparation' /\ progress' = n
  BY <1>2, <1>3, PageKeepsWatch
<1>6. /\ line' = [d \in Drama |-> IF d \in rows THEN link[d] ELSE line[d]]
      /\ material' = [d \in Drama |-> IF d \in rows /\ link[d] = "ready" /\ material[d] = "none"
                                      THEN "pending" ELSE material[d]]
  BY DEF LinksPage
<1>7. RowsOfReady' /\ ScenesNeedGroups'
  BY <1>1, <1>2, <1>3, <1>5, <1>6 DEF RowsOfReady, ScenesNeedGroups, Preparing
<1>8. /\ n.pendingLinks = (p.pendingLinks \/ StillPending(rows))
      /\ n.cursor = (IF last THEN 0 ELSE p.cursor + DraftPage)
      /\ n.phase = (IF last THEN "materials" ELSE "links")
  <2> DEFINE m == [p EXCEPT !.pendingLinks = @ \/ StillPending(rows),
                            !.cursor = IF last THEN 0 ELSE p.cursor + DraftPage,
                            !.phase = IF last THEN "materials" ELSE "links"]
  <2>1. Becomes(r, m)
    BY DEF LinksPage
  <2>2. n = m
    BY <1>5, <2>1 DEF Becomes
  <2>3. p \in ProgressRow
    BY <1>1 DEF PrepTypeOK, ProgressRow
  <2> HIDE DEF rows, last
  <2> QED BY <2>2, <2>3 DEF ProgressRow
<1>9. AnswersComplete'
  <2>1. \A d \in Drama : line[d] = "pending" => d \notin manual /\ (p.pendingLinks \/ d > p.cursor)
    BY <1>1, <1>4 DEF AnswersComplete
  <2>2. p.cursor \in Nat /\ \A d \in Drama : d \in Nat /\ d <= Dramas
    BY <1>1, BoundsAreNumbers DEF PrepTypeOK, Drama
  <2>3. n.phase # "links" => n.cursor = 0
    BY <1>8
  <2>4. ASSUME NEW d \in Drama, line'[d] = "pending", ~n.pendingLinks
        PROVE  d \notin manual /\ n.phase = "links" /\ d > n.cursor
    <3>1. d \notin rows
      BY <1>6, <1>8, <2>4 DEF StillPending
    <3>2. line[d] = "pending" /\ ~p.pendingLinks
      BY <1>6, <1>8, <2>4, <3>1
    <3>3. d \notin manual /\ d > p.cursor
      BY <2>1, <3>2
    <3>4. d > p.cursor + DraftPage
      BY <2>2, <3>1, <3>3, BoundsAreNumbers
    <3>5. ~last
      BY <2>2, <3>3, <3>4, BoundsAreNumbers
    <3> QED BY <1>8, <3>3, <3>4, <3>5
  <2>5. ASSUME NEW d \in Drama, line'[d] = "pending"
        PROVE  d \notin manual
    BY <1>6, <2>1, <2>5
  <2> QED BY <1>3, <1>5, <2>3, <2>4, <2>5 DEF AnswersComplete
<1>10. ReadyIsComplete'
  BY <1>3, <1>4 DEF ReadyIsComplete, Preparing
<1> QED BY <1>5, <1>7, <1>9, <1>10 DEF DraftRest

LEMMA RestMaterialsPage ==
  ASSUME DraftInv, NEW r \in Rev, MaterialsPage(r)
  PROVE  DraftRest'
<1> DEFINE d == CHOOSE e \in Unmatched : \A f \in Unmatched : e <= f
<1>1. PrepTypeOK /\ RowsOfReady /\ AnswersComplete /\ ScenesNeedGroups
  BY DEF DraftInv, DraftSafe
<1>2. progress \in ProgressRow /\ Becomes(r, progress) /\ UNCHANGED <<draft, line, manual>>
  BY <1>1 DEF MaterialsPage, PrepTypeOK, ProgressRow, Stays
<1>3. Preparing
  BY ActiveIsCurrent DEF MaterialsPage
<1>4. PreparingIsWatched' /\ OnePreparation' /\ progress' = progress
  BY <1>2, PageKeepsWatch
<1>5. PICK gs \in SUBSET Group, state \in {"matching", "ready"} :
        /\ groups' = [groups EXCEPT ![d] = @ \cup gs]
        /\ material' = [material EXCEPT ![d] = state]
  BY DEF MaterialsPage
<1> HIDE DEF d
<1>6. RowsOfReady'
  BY <1>1, <1>2, <1>5 DEF RowsOfReady, PrepTypeOK
<1>7. ScenesNeedGroups'
  <2>1. \A e \in Drama : groups[e] \subseteq groups'[e]
    BY <1>1, <1>5 DEF PrepTypeOK
  <2> QED BY <1>1, <1>2, <1>4, <2>1 DEF ScenesNeedGroups, Preparing
<1>8. AnswersComplete'
  BY <1>1, <1>2, <1>4 DEF AnswersComplete, Preparing
<1>9. ReadyIsComplete'
  BY <1>2, <1>3 DEF ReadyIsComplete, Preparing
<1> QED BY <1>4, <1>6, <1>7, <1>8, <1>9 DEF DraftRest

LEMMA RestLinksAgain ==
  ASSUME DraftInv, NEW r \in Rev, LinksAgain(r)
  PROVE  DraftRest'
<1> DEFINE n == [progress EXCEPT !.pendingLinks = FALSE, !.phase = "links"]
<1>1. PrepTypeOK /\ RowsOfReady /\ AnswersComplete /\ ScenesNeedGroups
  BY DEF DraftInv, DraftSafe
<1>2. /\ n \in ProgressRow /\ Becomes(r, n) /\ progress.phase = "materials"
      /\ n.cursor = progress.cursor /\ n.scene = progress.scene /\ n.phase = "links"
      /\ UNCHANGED <<draft, line, manual, material, groups>>
  BY <1>1 DEF LinksAgain, PrepTypeOK, ProgressRow, Stays
<1>3. Preparing
  BY ActiveIsCurrent DEF LinksAgain
<1> HIDE DEF n
<1>4. PreparingIsWatched' /\ OnePreparation' /\ progress' = n
  BY <1>2, PageKeepsWatch
<1>5. RowsOfReady' /\ ScenesNeedGroups'
  BY <1>1, <1>2, <1>4 DEF RowsOfReady, ScenesNeedGroups, Preparing
<1>6. AnswersComplete'
  <2>1. progress.cursor = 0 /\ \A d \in Drama : line[d] = "pending" => d \notin manual
    BY <1>1, <1>2, <1>3 DEF AnswersComplete
  <2>2. \A d \in Drama : d > 0
    BY BoundsAreNumbers DEF Drama
  <2> QED BY <1>2, <1>4, <2>1, <2>2 DEF AnswersComplete
<1>7. ReadyIsComplete'
  BY <1>2, <1>3 DEF ReadyIsComplete, Preparing
<1> QED BY <1>4, <1>5, <1>6, <1>7 DEF DraftRest

\* The end: the draft becomes READY when its lines, materials and scenes are complete.
LEMMA EndIsComplete ==
  ASSUME DraftInv, NEW r \in Rev, Active(r), EndsAs(r, "READY"),
         draft' = [draft EXCEPT !.status = "READY"],
         progress.phase = "materials", Unmatched = {}, ~progress.pendingLinks,
         UNCHANGED <<line, material>>,
         \A a \in Account : progress'.scene[a] # "PENDING"
  PROVE  DraftRest'
<1>1. PrepTypeOK /\ RowsOfReady /\ AnswersComplete /\ OnePreparation
  BY DEF DraftInv, DraftSafe
<1>2. r = draft.revision /\ Preparing
  BY ActiveIsCurrent
<1>3. draft'.status = "READY" /\ draft'.revision = draft.revision
  BY <1>1 DEF PrepTypeOK
<1>4. \A d \in Drama : line[d] # "pending"
  BY <1>1, <1>2 DEF AnswersComplete
<1>5. ReadyIsComplete' /\ RowsOfReady'
  BY <1>1, <1>3, <1>4 DEF ReadyIsComplete, RowsOfReady, Unmatched
<1>6. OnePreparation'
  BY <1>1, <1>2, <1>3, TypeOfEnd DEF OnePreparation
<1> QED BY <1>3, <1>5, <1>6 DEF DraftRest, PreparingIsWatched, AnswersComplete,
  ScenesNeedGroups,
                               Preparing

LEMMA RestScenesPage ==
  ASSUME DraftInv, NEW r \in Rev, ScenesPage(r)
  PROVE  DraftRest'
<1>1. PrepTypeOK /\ RowsOfReady /\ AnswersComplete
  BY DEF DraftInv, DraftSafe
<1>2. /\ Active(r) /\ progress.phase = "materials" /\ Unmatched = {} /\ ~progress.pendingLinks
      /\ \E d \in Drama : groups[d] # {}
  BY DEF ScenesPage
<1>3. UNCHANGED <<line, manual, material, groups>>
  BY <1>1, ScenesPageEffect
<1>4. PICK p \in ProgressRow :
        /\ p.phase = progress.phase /\ p.cursor = progress.cursor
        /\ p.pendingLinks = progress.pendingLinks
        /\ \/ Becomes(r, p) /\ UNCHANGED draft
           \/ /\ EndsAs(r, "READY") /\ progress' = p
              /\ draft' = [draft EXCEPT !.status = "READY"]
              /\ \A a \in Account : p.scene[a] # "PENDING"
  BY <1>1, ScenesPageEffect
<1>5. CASE Becomes(r, p) /\ UNCHANGED draft
  <2>1. PreparingIsWatched' /\ OnePreparation' /\ progress' = p
    BY <1>5, PageKeepsWatch
  <2>2. Preparing
    BY <1>2, ActiveIsCurrent
  <2>3. RowsOfReady' /\ ScenesNeedGroups' /\ AnswersComplete' /\ ReadyIsComplete'
    BY <1>1, <1>2, <1>3, <1>4, <1>5, <2>1, <2>2
       DEF RowsOfReady, ScenesNeedGroups, AnswersComplete, ReadyIsComplete, Preparing
  <2> QED BY <2>1, <2>3 DEF DraftRest
<1>6. CASE /\ EndsAs(r, "READY") /\ progress' = p /\ draft' = [draft EXCEPT !.status = "READY"]
           /\ \A a \in Account : p.scene[a] # "PENDING"
  BY <1>2, <1>3, <1>6, EndIsComplete
<1> QED BY <1>4, <1>5, <1>6

LEMMA RestNoScenes ==
  ASSUME DraftInv, NEW r \in Rev, NoScenes(r)
  PROVE  DraftRest'
<1>1. \A a \in Account : progress'.scene[a] # "PENDING"
  BY ActiveIsCurrent DEF DraftInv, ScenesNeedGroups, NoScenes
<1> QED BY <1>1, EndIsComplete DEF NoScenes

LEMMA RestOthers ==
  ASSUME DraftInv,
         \/ JobsEnd \/ RolesExpire
         \/ \E r \in Rev : \/ PrepOver(r) \/ PrepFails(r) \/ RepairPrep(r)
                            \/ PublishPrep(r) \/ LosePrep(r)
  PROVE  DraftRest'
<1>1. PrepTypeOK /\ PreparingIsWatched /\ OnePreparation /\ ReadyIsComplete /\ RowsOfReady
      /\ AnswersComplete /\ ScenesNeedGroups
  BY DEF DraftInv, DraftSafe
<1> DEFINE Kept == /\ UNCHANGED <<draft, line, manual, material, groups, progress>>
                   /\ \A s \in Rev : /\ prep'[s] = prep[s] \/ (s # draft.revision /\ prep'[s] # "PENDING")
                                     /\ prepDispatch[s] # "none" => prepDispatch'[s] # "none"
<1>2. ASSUME Kept PROVE DraftRest'
  <2>1. draft.revision \in Rev
    BY <1>1 DEF PrepTypeOK
  <2> QED BY <1>1, <1>2, <2>1 DEF DraftRest, PreparingIsWatched, OnePreparation,
    ReadyIsComplete,
             RowsOfReady, AnswersComplete, ScenesNeedGroups, Preparing, Unmatched
<1>3. CASE JobsEnd \/ RolesExpire
  <2>1. Kept
    BY <1>3 DEF JobsEnd, RolesEnd, LinkEnds, SceneEnds, RolesExpire, draftRows, prepRows
  <2> QED BY <1>2, <2>1
<1>4. ASSUME NEW r \in Rev, RepairPrep(r) \/ PublishPrep(r) \/ LosePrep(r) PROVE DraftRest'
  <2>1. Kept
    BY <1>1, <1>4 DEF RepairPrep, PublishPrep, LosePrep, draftRows, prepRows, PrepTypeOK
  <2> QED BY <1>2, <2>1
<1>5. ASSUME NEW r \in Rev, PrepOver(r) PROVE DraftRest'
  <2>1. CASE prep[r] = "PENDING"
    <3>1. r # draft.revision /\ prep' = [prep EXCEPT ![r] = "OBSOLETE"]
      BY <1>5, <2>1 DEF PrepOver, Outdated
    <3>2. Kept
      BY <1>1, <1>5, <3>1 DEF PrepOver, Taken, draftRows, PrepTypeOK
    <3> QED BY <1>2, <3>2
  <2>2. CASE prep[r] # "PENDING"
    <3>1. Kept
      BY <1>5, <2>2 DEF PrepOver, Taken, draftRows
    <3> QED BY <1>2, <3>1
  <2> QED BY <2>1, <2>2
<1>6. ASSUME NEW r \in Rev, PrepFails(r) PROVE DraftRest'
  <2>1. /\ EndsAs(r, "BLOCKED") /\ draft'.status = "BLOCKED" /\ draft'.revision = draft.revision
        /\ UNCHANGED <<line, material>> /\ r = draft.revision
    BY <1>1, <1>6, ActiveIsCurrent DEF PrepFails, PrepTypeOK
  <2>2. OnePreparation'
    BY <1>1, <2>1, TypeOfEnd DEF OnePreparation
  <2> QED BY <1>1, <2>1, <2>2 DEF DraftRest, PreparingIsWatched, ReadyIsComplete,
    RowsOfReady,
             AnswersComplete, ScenesNeedGroups, Preparing
<1> QED BY <1>3, <1>4, <1>5, <1>6

LEMMA DraftStep == DraftInv /\ [PrepNext]_prepVars => DraftInv'
<1> SUFFICES ASSUME DraftInv, [PrepNext]_prepVars PROVE DraftInv'
  OBVIOUS
<1>1. PrepTypeOK'
  BY DraftTypes DEF DraftInv, DraftSafe
<1>2. DraftRest'
  <2>1. CASE UNCHANGED prepVars
    BY <2>1 DEF prepVars, draftRows, prepRows, outside, DraftInv, DraftSafe, DraftRest,
       PreparingIsWatched, OnePreparation, ReadyIsComplete, RowsOfReady, AnswersComplete,
       ScenesNeedGroups, Preparing, Unmatched
  <2>2. CASE Edit
    BY <2>2, RestUpdateDraft, RestEdits, RestPrepareDraft, RestChooseMini DEF Edit
  <2>3. CASE \E r \in Rev : Prepare(r)
    BY <2>3, RestAccountsPage, RestLinksPage, RestMaterialsPage, RestLinksAgain,
       RestScenesPage,
       RestNoScenes DEF Prepare
  <2> QED BY <2>1, <2>2, <2>3, RestOthers DEF PrepNext
<1> QED BY <1>1, <1>2 DEF DraftInv, DraftSafe, DraftRest

----------------------------------------------------------------------------
(* The theorems about drafts.                                               *)

\* A draft in preparation has a message that will be published until it is taken, a READY
\* draft is complete, and one preparation at most works on the draft as it is, however edits,
\* deliveries, lost messages and the jobs of others interleave (drafts.py, draft_tasks.py).
THEOREM DraftIsSafe == PrepSpec => []DraftSafe
<1>1. DraftInv => DraftSafe
  BY DEF DraftInv
<1> QED BY <1>1, DraftInitially, DraftStep, PTL DEF PrepSpec

\* What a READY draft consists of does not change under its revision, so that the many
\* transactions of a preview copy one and the same draft (previews.py compares revisions).
THEOREM ReadyDraftsAreFixed == PrepSpec => ReadyIsFixed
<1>1. ASSUME DraftInv, [PrepNext]_prepVars
      PROVE  [draft.status = "READY" /\ draft'.revision = draft.revision => UNCHANGED draftRows]_draftRows
  <2> SUFFICES ASSUME draft.status = "READY", draft'.revision = draft.revision
               PROVE  UNCHANGED draftRows
    OBVIOUS
  <2>1. PrepTypeOK /\ draft.revision \in Nat
    BY <1>1, BoundsAreNumbers DEF DraftInv, DraftSafe, PrepTypeOK, Rev
  <2>2. \A r \in Rev : ~Active(r)
    BY <1>1, ActiveIsCurrent
  <2>3. CASE UNCHANGED prepVars
    BY <2>3 DEF prepVars
  <2>4. CASE Edit
    <3>1. \A status : ~Bumped(status)
      BY <2>1 DEF Bumped
    <3>2. ~Fresh
      BY DEF Fresh
    <3> QED BY <2>4, <3>1, <3>2 DEF Edit, UpdateDraft, PrepareDraft, ChooseMini,
      EditMaterialGroups,
               SaveManualLink, Regrouped
  <2>5. CASE JobsEnd \/ RolesExpire
    BY <2>5, SMTT(90) DEF JobsEnd, RolesEnd, LinkEnds, SceneEnds, RolesExpire
  <2>6. ASSUME NEW r \in Rev, Prepare(r) \/ PrepFails(r) PROVE FALSE
    BY <2>2, <2>6 DEF Prepare, AccountsPage, LinksPage, MaterialsPage, LinksAgain,
       ScenesPage,
       NoScenes, PrepFails
  <2>7. ASSUME NEW r \in Rev, PrepOver(r) \/ RepairPrep(r) \/ PublishPrep(r) \/ LosePrep(r)
        PROVE  UNCHANGED draftRows
    BY <2>7 DEF PrepOver, RepairPrep, PublishPrep, LosePrep
  <2> QED BY <1>1, <2>3, <2>4, <2>5, <2>6, <2>7 DEF PrepNext
<1> QED BY <1>1, DraftInitially, DraftStep, PTL DEF PrepSpec, ReadyIsFixed

----------------------------------------------------------------------------
(* Previews: what is known of a preview while it is built.                  *)

\* The rows of dramas of a preview or a draft.
IsRows(f) ==
  /\ f = [d \in DOMAIN f |-> f[d]] /\ DOMAIN f \subseteq Drama
  /\ \A d \in DOMAIN f : f[d] \subseteq Group

UnitRow == [ready : {"none", "READY", "BLOCKED"}, groups : SUBSET Group, complete : BOOLEAN]

SheetRow(rows) ==
  [phase : {"inputs", "dramas", "units", "digest"}, kind : {"drama", "account"},
   after : 0 .. Dramas + Accounts, drama : 0 .. Dramas, last : 0 .. Dramas,
   group : 0 .. Groups, account : 0 .. Accounts, unit : BOOLEAN, rows : {rows},
   units : [Cell -> UnitRow], digest : SUBSET (Cell \X {"READY", "BLOCKED"})]

\* The drama at hand comes next after the last one that is done.
Follows(h, drama, last) ==
  drama # 0 =>
    /\ drama \in DOMAIN h.dramas /\ drama > last
    /\ \A d \in DOMAIN h.dramas : d > last => drama <= d

\* The rows of what is done and at hand.
RowsFit(h, drama, last, group, rows) ==
  /\ \A d \in Drama : d \in DOMAIN rows <=> d \in DOMAIN h.dramas /\ (d <= last \/ d = drama)
  /\ \A d \in DOMAIN rows, g \in Group :
       g \in rows[d] <=> g \in h.dramas[d] /\ (d = drama => g <= group)

\* Units that are made, but for the open one, are complete.
Open(p, x) == p.unit /\ x = <<p.drama, p.account>>
MadeSoFar(h, p, x) ==
  /\ x[1] \in DOMAIN h.dramas /\ x[2] \in h.accounts
  /\ \/ p.phase = "digest"
     \/ p.phase = "units" /\ (x[1] <= p.last \/ (x[1] = p.drama /\ x[2] <= p.account))

UnitFits(h, p, x, u) ==
  IF MadeSoFar(h, p, x)
  THEN /\ u.ready # "none" /\ u.complete = ~Open(p, x)
       /\ \A g \in Group : g \in u.groups <=> g \in h.dramas[x[1]] /\ (Open(p, x) => g <= p.group)
       /\ u.complete /\ u.groups = {} => u.ready = "BLOCKED"
  ELSE u = NoUnit

Unique(nm, p) ==
  \A x, y \in Cell :
    /\ x # y /\ x[2] = y[2] /\ nm[x[1]] = nm[y[1]]
    /\ p.units[x].ready # "none" /\ p.units[y].ready # "none"
    => p.units[x].ready = "BLOCKED"

Digested(p) ==
  /\ p.phase # "digest" => p.digest = {}
  /\ \A y \in p.digest : p.units[y[1]].ready = y[2]

SheetOK(h, nm, p) ==
  /\ p \in SheetRow(p.rows) /\ IsRows(p.rows)
  /\ p.phase = "inputs" => p.drama = 0 /\ p.last = 0
  /\ p.phase \in {"dramas", "units"} => Follows(h, p.drama, p.last)
  /\ p.unit => p.phase = "units" /\ p.drama # 0 /\ p.account \in h.accounts
  /\ p.phase \in {"inputs", "dramas"} => RowsFit(h, p.drama, p.last, p.group, p.rows)
  /\ p.phase \in {"units", "digest"} => p.rows = h.dramas
  /\ \A x \in Cell : UnitFits(h, p, x, p.units[x])
  /\ Unique(nm, p) /\ Digested(p)

ViewInv ==
  /\ ViewTypeOK /\ IsRows(plan.has.dramas) /\ OnlyCurrent
  /\ SheetOK(plan.has, name, sheet)
  /\ view[plan.revision] = "FROZEN" => Whole(sheet)

LEMMA LeastIs ==
  ASSUME NEW S \in SUBSET Nat, S # {}
  PROVE  Least(S) \in S /\ \A y \in S : Least(S) <= y
BY LeastOf DEF Least

----------------------------------------------------------------------------

\* What is known of the units is not disturbed.
LEMMA UnitsStay ==
  ASSUME NEW h, NEW nm, NEW p, NEW n, n.units = p.units,
         \A x \in Cell : UnitFits(h, p, x, p.units[x]), Unique(nm, p),
         \A x \in Cell : /\ MadeSoFar(h, n, x) <=> MadeSoFar(h, p, x)
                         /\ MadeSoFar(h, p, x) => /\ Open(n, x) <=> Open(p, x)
                                                  /\ Open(p, x) => n.group = p.group
  PROVE  (\A x \in Cell : UnitFits(h, n, x, n.units[x])) /\ Unique(nm, n)
<1>1. ASSUME NEW x \in Cell, NEW u, UnitFits(h, p, x, u) PROVE UnitFits(h, n, x, u)
  BY <1>1 DEF UnitFits
<1> QED
  BY <1>1 DEF Unique

\* The lines of input are copied page by page, then the dramas are begun.
LEMMA InputKeeps ==
  ASSUME NEW h, NEW nm, NEW p, SheetOK(h, nm, p), p.phase = "inputs", NEW n, n = InputStep(p)
  PROVE  SheetOK(h, nm, n)
<1>1. p \in SheetRow(p.rows) /\ IsRows(p.rows) /\ p.drama = 0 /\ p.last = 0 /\ ~p.unit
  BY DEF SheetOK
<1>2. PICK phase \in {"inputs", "dramas"}, kind \in {"drama", "account"}, pos \in 0 .. Dramas + Accounts :
        n = [p EXCEPT !.phase = phase, !.kind = kind, !.after = pos]
  <2>1. PICK lines \in 0 .. Dramas + Accounts : lines = IF p.kind = "drama" THEN Dramas ELSE Accounts
    BY BoundsAreNumbers
  <2>2. p.after \in 0 .. Dramas + Accounts /\ p.kind \in {"drama", "account"}
    BY <1>1 DEF SheetRow
  <2>3. \/ \E pos \in 0 .. Dramas + Accounts : n = [p EXCEPT !.after = pos]
        \/ n = [p EXCEPT !.kind = "account", !.after = 0]
        \/ n = [p EXCEPT !.phase = "dramas", !.after = 0]
    BY <2>1, <2>2, BoundsAreNumbers DEF InputStep
  <2>4. /\ \A pos : [p EXCEPT !.after = pos] = [p EXCEPT !.phase = p.phase, !.kind = p.kind, !.after = pos]
        /\ [p EXCEPT !.kind = "account", !.after = 0]
             = [p EXCEPT !.phase = p.phase, !.kind = "account", !.after = 0]
        /\ [p EXCEPT !.phase = "dramas", !.after = 0]
             = [p EXCEPT !.phase = "dramas", !.kind = p.kind, !.after = 0]
    BY <1>1 DEF SheetRow
  <2>5. p.phase \in {"inputs", "dramas"} /\ 0 \in 0 .. Dramas + Accounts
    BY BoundsAreNumbers
  <2>6. CASE \E pos \in 0 .. Dramas + Accounts : n = [p EXCEPT !.after = pos]
    BY ZenonT(90), <2>2, <2>4, <2>5, <2>6
  <2>7. CASE n = [p EXCEPT !.kind = "account", !.after = 0]
    BY <2>2, <2>4, <2>5, <2>7
  <2>8. CASE n = [p EXCEPT !.phase = "dramas", !.after = 0]
    BY <2>2, <2>4, <2>5, <2>8
  <2> QED
    BY <2>3, <2>6, <2>7, <2>8
<1>3. /\ n \in SheetRow(n.rows) /\ n.phase = phase
      /\ n.drama = p.drama /\ n.last = p.last /\ n.group = p.group /\ n.account = p.account
      /\ n.unit = p.unit /\ n.rows = p.rows /\ n.units = p.units /\ n.digest = p.digest
  BY ZenonT(90), <1>1, <1>2 DEF SheetRow
<1>4. (\A x \in Cell : UnitFits(h, n, x, n.units[x])) /\ Unique(nm, n)
  BY <1>1, <1>3, UnitsStay DEF SheetOK, MadeSoFar
<1> QED
  BY <1>1, <1>3, <1>4 DEF SheetOK, Follows, Digested

\* While dramas are frozen, the position and the rows say all.
LEMMA DramaMoves ==
  ASSUME NEW h, NEW nm, NEW p, SheetOK(h, nm, p), p.phase = "dramas",
         NEW drama \in 0 .. Dramas, NEW last \in 0 .. Dramas, NEW group \in 0 .. Groups, NEW rows, IsRows(rows),
         NEW n, n = [p EXCEPT !.drama = drama, !.last = last, !.group = group, !.rows = rows],
         Follows(h, drama, last), RowsFit(h, drama, last, group, rows)
  PROVE  SheetOK(h, nm, n)
<1>1. p \in SheetRow(p.rows) /\ ~p.unit /\ p.digest = {}
  BY DEF SheetOK, Digested
<1>2. /\ n \in SheetRow(n.rows) /\ n.phase = "dramas"
      /\ n.drama = drama /\ n.last = last /\ n.group = group /\ n.account = p.account
      /\ n.unit = p.unit /\ n.rows = rows /\ n.units = p.units /\ n.digest = p.digest
  BY <1>1 DEF SheetRow
<1>3. \A x \in Cell : ~MadeSoFar(h, p, x) /\ ~MadeSoFar(h, n, x)
  BY <1>2 DEF MadeSoFar
<1>4. (\A x \in Cell : UnitFits(h, p, x, p.units[x])) /\ Unique(nm, p)
  BY DEF SheetOK
<1>5. (\A x \in Cell : UnitFits(h, n, x, n.units[x])) /\ Unique(nm, n)
  <2>1. n.units = p.units
    BY <1>2
  <2>2. ASSUME NEW x \in Cell, NEW u, UnitFits(h, p, x, u) PROVE UnitFits(h, n, x, u)
    BY <1>3, <2>2 DEF UnitFits
  <2> QED
    BY <1>4, <2>1, <2>2 DEF Unique
<1> QED
  BY <1>1, <1>2, <1>5 DEF SheetOK, Digested

\* A drama is begun, gets its groups one by one, and is done.
LEMMA DramaKeeps ==
  ASSUME NEW h, h = plan.has, IsRows(h.dramas), NEW nm, NEW p, SheetOK(h, nm, p), p.phase = "dramas",
         NEW n, n = DramaStep(p)
  PROVE  SheetOK(h, nm, n)
<1> DEFINE D == DOMAIN h.dramas
<1>1. /\ p \in SheetRow(p.rows) /\ IsRows(p.rows) /\ ~p.unit /\ Follows(h, p.drama, p.last) /\ p.digest = {}
      /\ RowsFit(h, p.drama, p.last, p.group, p.rows)
  BY DEF SheetOK, Digested
<1>2. /\ D \subseteq 1 .. Dramas /\ \A d \in D : h.dramas[d] \subseteq 1 .. Groups
      /\ DOMAIN p.rows \subseteq 1 .. Dramas /\ \A d \in DOMAIN p.rows : p.rows[d] \subseteq 1 .. Groups
  BY <1>1 DEF IsRows, Drama, Group
<1>3. p.drama \in 0 .. Dramas /\ p.last \in 0 .. Dramas /\ p.group \in 0 .. Groups
  BY <1>1 DEF SheetRow
<1>4. /\ \A d \in 1 .. Dramas : d \in DOMAIN p.rows <=> d \in D /\ (d <= p.last \/ d = p.drama)
      /\ \A d \in DOMAIN p.rows, g \in 1 .. Groups :
           g \in p.rows[d] <=> g \in h.dramas[d] /\ (d = p.drama => g <= p.group)
  BY <1>1 DEF RowsFit, Drama, Group
<1>5. CASE p.drama = 0 /\ Beyond(D, p.last) = {}
  <2>1. n = [p EXCEPT !.phase = "units", !.last = 0]
    BY <1>5 DEF DramaStep
  <2>2. /\ n \in SheetRow(n.rows) /\ n.phase = "units"
        /\ n.drama = 0 /\ n.last = 0 /\ n.group = p.group /\ n.account = p.account
        /\ n.unit = p.unit /\ n.rows = p.rows /\ n.units = p.units /\ n.digest = p.digest
    BY ZenonT(90), <1>1, <1>5, <2>1, BoundsAreNumbers DEF SheetRow
  <2>3. n.rows = h.dramas
    <3>1. \A d \in D : d <= p.last /\ d # 0
      BY <1>2, <1>3, <1>5, BoundsAreNumbers DEF Beyond
    <3>2. DOMAIN p.rows = D
      BY <1>2, <1>4, <1>5, <3>1
    <3>3. \A d \in D : p.rows[d] = h.dramas[d]
      BY ZenonT(90), <1>2, <1>4, <1>5, <3>1, <3>2
    <3>4. p.rows = [d \in D |-> p.rows[d]] /\ h.dramas = [d \in D |-> h.dramas[d]]
      BY <1>1, <3>2 DEF IsRows
    <3> QED
      BY <2>2, <3>3, <3>4
  <2>4. \A x \in Cell : ~MadeSoFar(h, p, x) /\ ~MadeSoFar(h, n, x)
    BY <1>2, <2>2, BoundsAreNumbers DEF MadeSoFar
  <2>5. (\A x \in Cell : UnitFits(h, n, x, n.units[x])) /\ Unique(nm, n)
    BY <2>2, <2>4, UnitsStay DEF SheetOK
  <2> QED
    BY <1>1, <2>2, <2>3, <2>5 DEF SheetOK, Follows, Digested
<1>6. CASE p.drama = 0 /\ Beyond(D, p.last) # {}
  <2>1. Beyond(D, p.last) \in SUBSET Nat
    BY <1>2 DEF Beyond
  <2>2. PICK e \in D : /\ e = Least(Beyond(D, p.last)) /\ e > p.last
                       /\ \A d \in D : d > p.last => e <= d
    BY <1>6, <2>1, LeastIs DEF Beyond
  <2>3. PICK rows : rows = [x \in DOMAIN p.rows \cup {e} |-> IF x = e THEN {} ELSE p.rows[x]]
    OBVIOUS
  <2>4. n = [p EXCEPT !.drama = e, !.group = 0, !.rows = rows]
    BY <1>1, <1>6, <2>2, <2>3 DEF DramaStep, SheetRow
  <2>5. n = [p EXCEPT !.drama = e, !.last = p.last, !.group = 0, !.rows = rows]
    BY <1>1, <2>4 DEF SheetRow
  <2>6. RowsFit(h, e, p.last, 0, rows)
    <3>1. \A d \in Drama : d \in DOMAIN rows <=> d \in D /\ (d <= p.last \/ d = e)
      BY <1>2, <1>4, <1>6, <2>2, <2>3, BoundsAreNumbers DEF Drama
    <3>2. ASSUME NEW d \in DOMAIN rows, NEW g \in Group
          PROVE  g \in rows[d] <=> g \in h.dramas[d] /\ (d = e => g <= 0)
      BY SMTT(90), <1>2, <1>4, <1>6, <2>2, <2>3, BoundsAreNumbers DEF Group
    <3> QED
      BY <3>1, <3>2 DEF RowsFit
  <2>7. IsRows(rows)
    BY <1>1, <1>2, <2>2, <2>3 DEF IsRows, Drama, Group
  <2>8. Follows(h, e, p.last)
    BY <2>2 DEF Follows
  <2>9. e \in 0 .. Dramas /\ 0 \in 0 .. Groups
    BY SMTT(90), <1>2, <2>2, BoundsAreNumbers
  <2> QED
    BY <1>3, <2>5, <2>6, <2>7, <2>8, <2>9, DramaMoves
<1>7. CASE p.drama # 0 /\ Beyond(h.dramas[p.drama], p.group) = {}
  <2>1. PICK d \in D : d = p.drama /\ d > p.last /\ \A x \in D : x > p.last => d <= x
    BY <1>1, <1>7 DEF Follows
  <2>2. n = [p EXCEPT !.drama = 0, !.last = d, !.group = 0]
    BY <1>7, <2>1 DEF DramaStep
  <2>3. n = [p EXCEPT !.drama = 0, !.last = d, !.group = 0, !.rows = p.rows]
    BY <1>1, <2>2 DEF SheetRow
  <2>4. RowsFit(h, 0, d, 0, p.rows)
    <3>1. \A x \in Drama : x \in DOMAIN p.rows <=> x \in D /\ (x <= d \/ x = 0)
      BY <1>2, <1>3, <1>4, <2>1, BoundsAreNumbers DEF Drama
    <3>2. \A g \in h.dramas[d] : g <= p.group
      BY <1>2, <1>3, <1>7, <2>1, BoundsAreNumbers DEF Beyond
    <3>3. ASSUME NEW x \in DOMAIN p.rows, NEW g \in Group
          PROVE  g \in p.rows[x] <=> g \in h.dramas[x] /\ (x = 0 => g <= 0)
      BY <1>2, <1>4, <2>1, <3>2, BoundsAreNumbers DEF Group
    <3> QED
      BY <3>1, <3>3 DEF RowsFit
  <2>5. d \in 0 .. Dramas /\ 0 \in 0 .. Dramas /\ 0 \in 0 .. Groups
    BY <1>2, <2>1, BoundsAreNumbers
  <2>6. Follows(h, 0, d)
    BY DEF Follows
  <2> QED
    BY <1>1, <2>3, <2>4, <2>5, <2>6, DramaMoves
<1>8. CASE p.drama # 0 /\ Beyond(h.dramas[p.drama], p.group) # {}
  <2>1. PICK d \in D : d = p.drama /\ d \in DOMAIN p.rows
    BY <1>1, <1>2, <1>4, <1>8 DEF Follows
  <2>2. Beyond(h.dramas[d], p.group) \in SUBSET Nat
    BY <1>2, <2>1 DEF Beyond
  <2>3. PICK g \in h.dramas[d] : /\ g = Least(Beyond(h.dramas[d], p.group)) /\ g > p.group
                                 /\ \A y \in h.dramas[d] : y > p.group => g <= y
    BY SMTT(90), <1>8, <2>1, <2>2, LeastIs DEF Beyond
  <2>4. PICK rows : rows = [p.rows EXCEPT ![d] = p.rows[d] \cup {g}]
    OBVIOUS
  <2>5. n = [p EXCEPT !.group = g, !.rows[d] = @ \cup {g}]
    BY <1>8, <2>1, <2>3 DEF DramaStep
  <2>6. n = [p EXCEPT !.drama = d, !.last = p.last, !.group = g, !.rows = rows]
    BY ZenonT(90), <1>1, <2>1, <2>4, <2>5 DEF SheetRow
  <2>7. /\ DOMAIN rows = DOMAIN p.rows /\ rows[d] = p.rows[d] \cup {g}
        /\ \A x \in DOMAIN rows : x # d => rows[x] = p.rows[x]
    BY <2>1, <2>4
  <2>8. RowsFit(h, d, p.last, g, rows)
    <3>1. \A x \in Drama : x \in DOMAIN rows <=> x \in D /\ (x <= p.last \/ x = d)
      BY SMTT(90), <1>4, <2>1, <2>7 DEF Drama
    <3>2. ASSUME NEW x \in DOMAIN rows, NEW y \in Group
          PROVE  y \in rows[x] <=> y \in h.dramas[x] /\ (x = d => y <= g)
      BY <1>2, <1>3, <1>4, <2>1, <2>3, <2>7, BoundsAreNumbers DEF Group
    <3> QED
      BY <3>1, <3>2 DEF RowsFit
  <2>9. IsRows(rows)
    <3>1. rows = [x \in DOMAIN p.rows |-> rows[x]]
      BY SMTT(90), <2>4
    <3>2. rows = [x \in DOMAIN rows |-> rows[x]] /\ DOMAIN rows \subseteq Drama
      BY <1>2, <2>7, <3>1 DEF Drama
    <3>3. ASSUME NEW x \in DOMAIN rows PROVE rows[x] \subseteq Group
      BY <1>2, <2>1, <2>3, <2>7 DEF Group
    <3> QED
      BY <3>2, <3>3 DEF IsRows
  <2>10. g \in 0 .. Groups /\ d \in 0 .. Dramas
    BY <1>2, <2>1, <2>3, BoundsAreNumbers
  <2> QED
    BY <1>1, <1>3, <2>1, <2>6, <2>8, <2>9, <2>10, DramaMoves
<1> QED
  BY <1>5, <1>6, <1>7, <1>8

----------------------------------------------------------------------------
(* Units.                                                                  *)

LEMMA UniqueStays ==
  ASSUME NEW nm, NEW p, NEW n, Unique(nm, p),
         \A x \in Cell : /\ n.units[x].ready \in {p.units[x].ready, "BLOCKED"}
                         /\ n.units[x].ready # "none" => p.units[x].ready # "none"
  PROVE  Unique(nm, n)
BY DEF Unique

\* What is known of a sheet while its units are made.
LEMMA UnitsKnown ==
  ASSUME NEW h, IsRows(h.dramas), h.accounts \subseteq Account,
         NEW nm, NEW p, SheetOK(h, nm, p), p.phase = "units"
  PROVE  /\ p \in SheetRow(p.rows) /\ IsRows(p.rows) /\ p.rows = h.dramas /\ p.digest = {}
         /\ p.drama \in 0 .. Dramas /\ p.last \in 0 .. Dramas /\ p.group \in 0 .. Groups
         /\ p.account \in 0 .. Accounts /\ p.unit \in BOOLEAN /\ p.units \in [Cell -> UnitRow]
         /\ Follows(h, p.drama, p.last) /\ (p.unit => p.drama # 0 /\ p.account \in h.accounts)
         /\ (\A x \in Cell : UnitFits(h, p, x, p.units[x])) /\ Unique(nm, p)
         /\ DOMAIN h.dramas \subseteq 1 .. Dramas /\ \A d \in DOMAIN h.dramas : h.dramas[d] \subseteq 1 .. Groups
         /\ h.accounts \subseteq 1 .. Accounts
<1>1. /\ p \in SheetRow(p.rows) /\ IsRows(p.rows) /\ p.rows = h.dramas /\ p.digest = {}
      /\ Follows(h, p.drama, p.last) /\ (p.unit => p.drama # 0 /\ p.account \in h.accounts)
      /\ (\A x \in Cell : UnitFits(h, p, x, p.units[x])) /\ Unique(nm, p)
  BY DEF SheetOK, Digested
<1>2. /\ p.drama \in 0 .. Dramas /\ p.last \in 0 .. Dramas /\ p.group \in 0 .. Groups
      /\ p.account \in 0 .. Accounts /\ p.unit \in BOOLEAN /\ p.units \in [Cell -> UnitRow]
  BY <1>1 DEF SheetRow
<1>3. /\ DOMAIN h.dramas \subseteq 1 .. Dramas /\ \A d \in DOMAIN h.dramas : h.dramas[d] \subseteq 1 .. Groups
      /\ h.accounts \subseteq 1 .. Accounts
  BY DEF IsRows, Drama, Group, Account
<1> QED
  BY <1>1, <1>2, <1>3

\* The next drama, and the end of one or of all, leave the units as they are.
LEMMA WalkKeeps ==
  ASSUME NEW h, h = plan.has, IsRows(h.dramas), h.accounts \subseteq Account,
         NEW nm, NEW p, SheetOK(h, nm, p), p.phase = "units", ~p.unit,
         p.drama = 0 \/ Beyond(h.accounts, p.account) = {}, NEW bad, NEW n, n = UnitStep(p, bad)
  PROVE  SheetOK(h, nm, n)
<1> DEFINE D == DOMAIN h.dramas
<1>1. /\ p \in SheetRow(p.rows) /\ IsRows(p.rows) /\ p.rows = h.dramas /\ p.digest = {}
      /\ p.drama \in 0 .. Dramas /\ p.last \in 0 .. Dramas /\ p.account \in 0 .. Accounts
      /\ Follows(h, p.drama, p.last)
      /\ (\A x \in Cell : UnitFits(h, p, x, p.units[x])) /\ Unique(nm, p)
      /\ D \subseteq 1 .. Dramas /\ h.accounts \subseteq 1 .. Accounts
  BY UnitsKnown
<1>5. p \in SheetRow(p.rows) /\ p.phase = "units" /\ p.digest = {} /\ p.unit = FALSE
  BY <1>1 DEF SheetRow
<1>2. CASE p.drama = 0 /\ Beyond(D, p.last) = {}
  <2>1. n = [p EXCEPT !.phase = "digest", !.last = 0]
    BY <1>1, <1>2 DEF UnitStep
  <2>2. /\ n \in SheetRow(n.rows) /\ n.phase = "digest" /\ n.rows = p.rows /\ n.units = p.units
        /\ ~n.unit /\ n.digest = {}
    <3>1. 0 \in 0 .. Dramas
      BY BoundsAreNumbers
    <3> QED
      BY ZenonT(90), <1>5, <2>1, <3>1 DEF SheetRow
  <2>3. \A d \in D : d <= p.last
    BY <1>1, <1>2, BoundsAreNumbers DEF Beyond
  <2>4. \A x \in Cell : (MadeSoFar(h, n, x) <=> MadeSoFar(h, p, x)) /\ ~Open(n, x) /\ ~Open(p, x)
    BY <2>2, <2>3 DEF MadeSoFar, Open
  <2>5. (\A x \in Cell : UnitFits(h, n, x, n.units[x])) /\ Unique(nm, n)
    BY SMTT(90), <1>1, <2>2, <2>4, UnitsStay
  <2> QED
    BY <1>1, <2>2, <2>5 DEF SheetOK, Digested
<1>3. CASE p.drama = 0 /\ Beyond(D, p.last) # {}
  <2>1. Beyond(D, p.last) \in SUBSET Nat
    BY <1>1 DEF Beyond
  <2>2. PICK e \in D : /\ e = Least(Beyond(D, p.last)) /\ e > p.last
                       /\ \A d \in D : d > p.last => e <= d
    BY <1>3, <2>1, LeastIs DEF Beyond
  <2>3. n = [p EXCEPT !.drama = e, !.account = 0]
    BY <1>1, <1>3, <2>2 DEF UnitStep
  <2>4. /\ n \in SheetRow(n.rows) /\ n.phase = "units" /\ n.rows = p.rows /\ n.units = p.units
        /\ ~n.unit /\ n.digest = {} /\ n.drama = e /\ n.last = p.last /\ n.account = 0
    <3>1. e \in 0 .. Dramas /\ 0 \in 0 .. Accounts
      BY <1>1, BoundsAreNumbers
    <3> QED
      BY ZenonT(90), <1>5, <2>3, <3>1 DEF SheetRow
  <2>5. \A x \in Cell : (MadeSoFar(h, n, x) <=> MadeSoFar(h, p, x)) /\ ~Open(n, x) /\ ~Open(p, x)
    <3>1. \A x \in Cell : x[1] # 0 /\ ~(x[2] <= 0)
      BY BoundsAreNumbers DEF Cell, Drama, Account
    <3> QED
      BY <1>3, <2>4, <3>1 DEF MadeSoFar, Open
  <2>6. (\A x \in Cell : UnitFits(h, n, x, n.units[x])) /\ Unique(nm, n)
    BY <1>1, <2>4, <2>5, UnitsStay
  <2>7. Follows(h, n.drama, n.last)
    BY <2>2, <2>4 DEF Follows
  <2> QED
    BY <1>1, <2>4, <2>6, <2>7 DEF SheetOK, Digested
<1>4. CASE p.drama # 0 /\ Beyond(h.accounts, p.account) = {}
  <2>1. PICK d \in D : d = p.drama /\ d > p.last /\ \A x \in D : x > p.last => d <= x
    BY SMTT(90), <1>1, <1>4 DEF Follows
  <2>2. n = [p EXCEPT !.drama = 0, !.last = d, !.account = 0]
    BY <1>4, <2>1 DEF UnitStep
  <2>3. /\ n \in SheetRow(n.rows) /\ n.phase = "units" /\ n.rows = p.rows /\ n.units = p.units
        /\ ~n.unit /\ n.digest = {} /\ n.drama = 0 /\ n.last = d /\ n.account = 0
    <3>1. d \in 0 .. Dramas /\ 0 \in 0 .. Dramas /\ 0 \in 0 .. Accounts
      BY <1>1, BoundsAreNumbers
    <3> QED
      BY ZenonT(90), <1>5, <2>2, <3>1 DEF SheetRow
  <2>4. \A x \in Cell : (MadeSoFar(h, n, x) <=> MadeSoFar(h, p, x)) /\ ~Open(n, x) /\ ~Open(p, x)
    <3>1. ASSUME NEW x \in Cell, x[1] \in D, x[2] \in h.accounts
          PROVE  x[1] <= d \/ x[1] = 0 <=> x[1] <= p.last \/ (x[1] = d /\ x[2] <= p.account)
      BY <1>1, <1>4, <2>1, <3>1, BoundsAreNumbers DEF Beyond
    <3>2. n.phase = "units" /\ p.phase = "units" /\ p.drama = d /\ ~n.unit /\ ~p.unit
          /\ n.drama = 0 /\ n.last = d
      BY <1>5, <2>1, <2>3
    <3>3. \A x \in Cell : ~Open(n, x) /\ ~Open(p, x)
      BY <3>2 DEF Open
    <3>4. ASSUME NEW x \in Cell PROVE MadeSoFar(h, n, x) <=> MadeSoFar(h, p, x)
      <4>1. /\ MadeSoFar(h, n, x) <=> x[1] \in D /\ x[2] \in h.accounts /\ (x[1] <= d \/ (x[1] = 0 /\ x[2] <= n.account))
            /\ MadeSoFar(h, p, x) <=> x[1] \in D /\ x[2] \in h.accounts
                                      /\ (x[1] <= p.last \/ (x[1] = d /\ x[2] <= p.account))
        BY <3>2 DEF MadeSoFar
      <4>2. x[1] # 0
        BY BoundsAreNumbers DEF Cell, Drama
      <4> QED
        BY <3>1, <4>1, <4>2
    <3> QED
      BY <3>3, <3>4
  <2>5. (\A x \in Cell : UnitFits(h, n, x, n.units[x])) /\ Unique(nm, n)
    BY SMTT(90), <1>1, <2>3, <2>4, UnitsStay
  <2>6. Follows(h, n.drama, n.last)
    BY <2>3 DEF Follows
  <2> QED
    BY <1>1, <2>3, <2>5, <2>6 DEF SheetOK, Digested
<1> QED
  BY <1>2, <1>3, <1>4

\* A unit that is open gets a group or is complete.
LEMMA OpenUnitMoves ==
  ASSUME NEW h, IsRows(h.dramas), h.accounts \subseteq Account,
         NEW nm, NEW p, SheetOK(h, nm, p), p.phase = "units", p.unit,
         NEW cell, cell = <<p.drama, p.account>>, NEW u \in UnitRow, NEW unit \in BOOLEAN, NEW group \in 0 .. Groups,
         u.ready \in {p.units[cell].ready, "BLOCKED"},
         NEW n, n = [p EXCEPT !.unit = unit, !.group = group, !.units = [p.units EXCEPT ![cell] = u]],
         u.complete = ~unit, u.complete /\ u.groups = {} => u.ready = "BLOCKED",
         \A g \in Group : g \in u.groups <=> g \in h.dramas[p.drama] /\ (unit => g <= group)
  PROVE  SheetOK(h, nm, n)
<1>1. /\ p \in SheetRow(p.rows) /\ IsRows(p.rows) /\ p.rows = h.dramas /\ p.digest = {}
      /\ p.drama \in 0 .. Dramas /\ p.last \in 0 .. Dramas /\ p.account \in 0 .. Accounts
      /\ Follows(h, p.drama, p.last) /\ p.drama # 0 /\ p.account \in h.accounts
      /\ (\A x \in Cell : UnitFits(h, p, x, p.units[x])) /\ Unique(nm, p)
      /\ p.units \in [Cell -> UnitRow]
  BY UnitsKnown
<1>2. p.drama \in DOMAIN h.dramas /\ cell \in Cell /\ cell[1] = p.drama /\ cell[2] = p.account
  BY <1>1 DEF Follows, Cell, IsRows
<1>3. PICK units \in [Cell -> UnitRow] : units = [p.units EXCEPT ![cell] = u]
  BY <1>1
<1>4. p \in SheetRow(p.rows) /\ p.phase = "units" /\ p.digest = {}
  BY <1>1
<1>5. /\ n \in SheetRow(n.rows) /\ n.phase = "units" /\ n.rows = p.rows /\ n.units = units
      /\ n.unit = unit /\ n.digest = {} /\ n.drama = p.drama /\ n.last = p.last /\ n.account = p.account
      /\ n.group = group
  BY ZenonT(90), <1>3, <1>4 DEF SheetRow
<1>6. \A x \in Cell : MadeSoFar(h, n, x) <=> MadeSoFar(h, p, x)
  BY <1>4, <1>5 DEF MadeSoFar
<1>7. MadeSoFar(h, p, cell) /\ (Open(n, cell) <=> unit)
  BY <1>1, <1>2, <1>4, <1>5 DEF MadeSoFar, Open
<1>8. \A x \in Cell : x # cell => ~Open(n, x) /\ ~Open(p, x)
  BY <1>5 DEF Open
<1>9. p.units[cell].ready # "none" /\ u.ready # "none"
  BY <1>1, <1>2, <1>7 DEF UnitFits
<1>10. ASSUME NEW x \in Cell PROVE UnitFits(h, n, x, n.units[x])
  <2>1. CASE x = cell
    <3>1. n.units[x] = u
      BY <1>1, <1>3, <1>5, <2>1
    <3>2. UnitFits(h, n, cell, u)
      BY <1>2, <1>5, <1>6, <1>7, <1>9 DEF UnitFits
    <3> QED
      BY <2>1, <3>1, <3>2
  <2>2. CASE x # cell
    <3>1. n.units[x] = p.units[x]
      BY <1>1, <1>3, <1>5, <2>2
    <3>2. ASSUME NEW v, UnitFits(h, p, x, v) PROVE UnitFits(h, n, x, v)
      BY <1>6, <1>8, <2>2, <3>2 DEF UnitFits
    <3> QED
      BY <1>1, <3>1, <3>2
  <2> QED
    BY <2>1, <2>2
<1>11. Unique(nm, n)
  <2>1. \A x \in Cell : /\ n.units[x].ready \in {p.units[x].ready, "BLOCKED"}
                        /\ n.units[x].ready # "none" => p.units[x].ready # "none"
    BY <1>1, <1>2, <1>3, <1>5, <1>9
  <2> QED
    BY <1>1, <2>1 DEF Unique
<1> QED
  BY <1>1, <1>4, <1>5, <1>10, <1>11 DEF SheetOK, Digested

LEMMA OpenUnitKeeps ==
  ASSUME NEW h, h = plan.has, IsRows(h.dramas), h.accounts \subseteq Account,
         NEW nm, NEW p, SheetOK(h, nm, p), p.phase = "units", p.unit,
         NEW bad, NEW n, n = UnitStep(p, bad)
  PROVE  SheetOK(h, nm, n)
<1>1. /\ p \in SheetRow(p.rows) /\ p.rows = h.dramas /\ p.group \in 0 .. Groups
      /\ Follows(h, p.drama, p.last) /\ p.drama # 0 /\ p.account \in h.accounts
      /\ (\A x \in Cell : UnitFits(h, p, x, p.units[x])) /\ p.units \in [Cell -> UnitRow]
      /\ \A d \in DOMAIN h.dramas : h.dramas[d] \subseteq 1 .. Groups
  BY UnitsKnown
<1>2. PICK d, a, cell : d = p.drama /\ a = p.account /\ cell = <<d, a>>
  OBVIOUS
<1>3. d \in DOMAIN h.dramas /\ cell \in Cell /\ cell[1] = d /\ cell[2] = a
  BY <1>1, <1>2 DEF Follows, Cell, IsRows
<1>4. PICK old \in UnitRow : old = p.units[cell]
  BY <1>1, <1>3
<1>5. MadeSoFar(h, p, cell) /\ Open(p, cell)
  <2>1. a <= a
    BY <1>1, <1>2 DEF Account
  <2> QED
    BY <1>1, <1>2, <1>3, <2>1 DEF MadeSoFar, Open
<1>6. /\ old.ready # "none" /\ old.complete = FALSE
      /\ \A g \in Group : g \in old.groups <=> g \in h.dramas[d] /\ g <= p.group
  BY <1>1, <1>3, <1>4, <1>5 DEF UnitFits
<1>7. CASE Beyond(h.dramas[d], p.group) # {}
  <2>1. Beyond(h.dramas[d], p.group) \in SUBSET Nat
    BY <1>1, <1>3 DEF Beyond
  <2>2. PICK g \in h.dramas[d] : /\ g = Least(Beyond(h.dramas[d], p.group)) /\ g > p.group
                                 /\ \A y \in h.dramas[d] : y > p.group => g <= y
    BY SMTT(90), <1>7, <2>1, LeastIs DEF Beyond
  <2>3. PICK u : u = [old EXCEPT !.groups = old.groups \cup {g}, !.ready = IF a \in bad THEN "BLOCKED" ELSE old.ready]
    OBVIOUS
  <2>4. g \in Group /\ g \in 0 .. Groups
    BY <1>1, <1>3, <2>2, BoundsAreNumbers DEF Group
  <2>5. u \in UnitRow /\ u.complete = FALSE /\ u.groups = old.groups \cup {g} /\ u.ready \in {old.ready, "BLOCKED"}
    BY <1>6, <2>3, <2>4 DEF UnitRow
  <2>6. n = [p EXCEPT !.group = g, !.units[cell] = u]
    <3>1. n = [p EXCEPT !.group = Least(Beyond(p.rows[d], p.group)),
                        !.units[cell] =
                          [p.units[cell] EXCEPT
                             !.groups = p.units[cell].groups \cup {Least(Beyond(p.rows[d], p.group))},
                             !.ready = IF p.account \in bad THEN "BLOCKED" ELSE p.units[cell].ready]]
      BY <1>1, <1>2, <1>7 DEF UnitStep
    <3> QED
      BY SMTT(90), <1>1, <1>2, <1>4, <2>2, <2>3, <3>1
  <2>7. n = [p EXCEPT !.unit = TRUE, !.group = g, !.units = [p.units EXCEPT ![cell] = u]]
    <3>1. p \in SheetRow(p.rows) /\ p.unit = TRUE
      BY <1>1 DEF SheetRow
    <3> QED
      BY ZenonT(90), <2>6, <3>1 DEF SheetRow
  <2>8. \A y \in Group : y \in u.groups <=> y \in h.dramas[d] /\ (TRUE => y <= g)
    BY <1>1, <1>3, <1>6, <2>2, <2>5 DEF Group
  <2>9. u.complete = ~TRUE /\ TRUE \in BOOLEAN
    BY <2>5
  <2> QED
    BY ZenonT(90), <1>2, <1>4, <2>4, <2>5, <2>7, <2>8, <2>9, OpenUnitMoves
<1>8. CASE Beyond(h.dramas[d], p.group) = {}
  <2>1. PICK u : u = [old EXCEPT !.complete = TRUE, !.ready = IF old.groups = {} THEN "BLOCKED" ELSE old.ready]
    OBVIOUS
  <2>2. /\ u \in UnitRow /\ u.complete = TRUE /\ u.groups = old.groups /\ u.ready \in {old.ready, "BLOCKED"}
        /\ u.groups = {} => u.ready = "BLOCKED"
    BY <2>1 DEF UnitRow
  <2>4. n = [p EXCEPT !.unit = FALSE, !.group = 0, !.units = [p.units EXCEPT ![cell] = u]]
    <3>1. n = [p EXCEPT !.unit = FALSE, !.group = 0,
                        !.units[cell] =
                          [p.units[cell] EXCEPT
                             !.complete = TRUE,
                             !.ready = IF p.units[cell].groups = {} THEN "BLOCKED" ELSE p.units[cell].ready]]
      BY <1>1, <1>2, <1>8 DEF UnitStep
    <3>2. n = [p EXCEPT !.unit = FALSE, !.group = 0, !.units[cell] = u]
      BY <1>2, <1>4, <2>1, <3>1
    <3>3. p \in SheetRow(p.rows)
      BY <1>1
    <3> QED
      BY <3>2, <3>3 DEF SheetRow
  <2>5. \A y \in Group : y \in u.groups <=> y \in h.dramas[d] /\ (FALSE => y <= 0)
    BY <1>1, <1>3, <1>6, <1>8, <2>2 DEF Group, Beyond
  <2>6. 0 \in 0 .. Groups
    BY BoundsAreNumbers
  <2> QED
    <3>1. u.complete = ~FALSE
      BY <2>2
    <3>2. u.complete /\ u.groups = {} => u.ready = "BLOCKED"
      BY <2>2
    <3>3. cell = <<p.drama, p.account>> /\ u.ready \in {p.units[cell].ready, "BLOCKED"} /\ FALSE \in BOOLEAN
      BY <1>2, <1>4, <2>2
    <3>4. \A y \in Group : y \in u.groups <=> y \in h.dramas[p.drama] /\ (FALSE => y <= 0)
      BY <1>2, <2>5
    <3> QED
      BY ZenonT(90), <2>2, <2>4, <2>6, <3>1, <3>2, <3>3, <3>4, OpenUnitMoves
<1> QED
  BY <1>7, <1>8

\* A unit is made for the next account; of units with one name all are blocked.
LEMMA MakeUnitKeeps ==
  ASSUME NEW h, h = plan.has, IsRows(h.dramas), h.accounts \subseteq Account,
         NEW nm, nm = name, NEW p, SheetOK(h, nm, p), p.phase = "units", ~p.unit,
         p.drama # 0, Beyond(h.accounts, p.account) # {},
         NEW bad, NEW n, n = UnitStep(p, bad)
  PROVE  SheetOK(h, nm, n)
<1>1. /\ p \in SheetRow(p.rows) /\ IsRows(p.rows) /\ p.rows = h.dramas /\ p.digest = {}
      /\ p.drama \in 0 .. Dramas /\ p.last \in 0 .. Dramas /\ p.account \in 0 .. Accounts
      /\ Follows(h, p.drama, p.last) /\ p.units \in [Cell -> UnitRow]
      /\ (\A x \in Cell : UnitFits(h, p, x, p.units[x])) /\ Unique(nm, p)
      /\ DOMAIN h.dramas \subseteq 1 .. Dramas /\ h.accounts \subseteq 1 .. Accounts
  BY UnitsKnown
<1>2. Beyond(h.accounts, p.account) \in SUBSET Nat
  BY <1>1 DEF Beyond
<1>3. PICK a \in h.accounts : /\ a = Least(Beyond(h.accounts, p.account)) /\ a > p.account
                              /\ \A y \in h.accounts : y > p.account => a <= y
  BY <1>2, LeastIs DEF Beyond
<1>4. PICK d \in DOMAIN h.dramas : d = p.drama /\ d > p.last
  BY <1>1 DEF Follows
<1>5. PICK cell \in Cell : cell = <<d, a>>
  BY <1>1, <1>3, <1>4 DEF Cell, Drama, Account
<1>6. PICK same \in SUBSET Cell :
        /\ same = Namesakes(p, d, a)
        /\ \A x \in Cell : x \in same <=> x[2] = a /\ p.units[x].ready # "none" /\ nm[x[1]] = nm[d]
  <2>1. Namesakes(p, d, a) \in SUBSET Cell
    BY DEF Namesakes
  <2>2. \A x \in Cell : x \in Namesakes(p, d, a) <=> x[2] = a /\ p.units[x].ready # "none" /\ nm[x[1]] = nm[d]
    BY DEF Namesakes
  <2> QED
    BY <2>1, <2>2
<1>7. PICK ready \in {"READY", "BLOCKED"} :
        ready = (IF a \in bad \/ same # {} THEN "BLOCKED" ELSE "READY")
  OBVIOUS
<1>8. PICK fresh \in UnitRow : /\ fresh = [NoUnit EXCEPT !.ready = ready]
                               /\ fresh.ready = ready /\ fresh.groups = {} /\ fresh.complete = FALSE
  <2>1. /\ [NoUnit EXCEPT !.ready = ready] \in UnitRow
        /\ [NoUnit EXCEPT !.ready = ready].ready = ready
        /\ [NoUnit EXCEPT !.ready = ready].groups = {}
        /\ [NoUnit EXCEPT !.ready = ready].complete = FALSE
    BY DEF NoUnit, UnitRow
  <2> QED
    BY <2>1
<1>9. PICK units : units = [x \in Cell |-> IF x = cell THEN fresh
                              ELSE IF x \in same THEN [p.units[x] EXCEPT !.ready = "BLOCKED"] ELSE p.units[x]]
  OBVIOUS
<1>10. n = [p EXCEPT !.unit = TRUE, !.account = a, !.group = 0, !.units = units]
  <2>1. n = MakeUnit(p, d, a, bad)
    BY <1>1, <1>3, <1>4 DEF UnitStep
  <2>2. MakeUnit(p, d, a, bad) =
          [p EXCEPT !.unit = TRUE, !.account = a, !.group = 0,
                    !.units = [x \in Cell |->
                      IF x = cell THEN fresh
                      ELSE IF x \in same THEN [p.units[x] EXCEPT !.ready = "BLOCKED"] ELSE p.units[x]]]
    BY <1>5, <1>6, <1>7, <1>8 DEF MakeUnit, Blocked
  <2> QED
    BY <1>9, <2>1, <2>2
<1>11. /\ units \in [Cell -> UnitRow] /\ units[cell] = fresh
       /\ \A x \in Cell : x # cell =>
            /\ units[x].groups = p.units[x].groups /\ units[x].complete = p.units[x].complete
            /\ units[x].ready = IF x \in same THEN "BLOCKED" ELSE p.units[x].ready
            /\ x \notin same => units[x] = p.units[x]
  <2>1. ASSUME NEW x \in Cell, NEW v \in UnitRow
        PROVE  LET w == [v EXCEPT !.ready = "BLOCKED"]
               IN  w \in UnitRow /\ w.groups = v.groups /\ w.complete = v.complete /\ w.ready = "BLOCKED"
    BY DEF UnitRow
  <2>2. \A x \in Cell : p.units[x] \in UnitRow
    BY <1>1
  <2> QED
    BY <1>8, <1>9, <2>1, <2>2
<1>12. p \in SheetRow(p.rows) /\ p.phase = "units" /\ p.digest = {}
  BY <1>1
<1>13. a \in 0 .. Accounts /\ 0 \in 0 .. Groups
  BY <1>1, <1>3, BoundsAreNumbers
<1>14. /\ n \in SheetRow(n.rows) /\ n.phase = "units" /\ n.rows = p.rows /\ n.units = units
       /\ n.unit = TRUE /\ n.digest = {} /\ n.drama = d /\ n.last = p.last /\ n.account = a
       /\ n.group = 0
  BY ZenonT(90), <1>4, <1>10, <1>11, <1>12, <1>13 DEF SheetRow
<1>15. /\ ~MadeSoFar(h, p, cell) /\ MadeSoFar(h, n, cell) /\ Open(n, cell)
       /\ cell[1] = d /\ cell[2] = a
  <2>1. cell[1] = d /\ cell[2] = a /\ ~(d <= p.last) /\ ~(a <= p.account) /\ a <= a
    BY <1>1, <1>3, <1>4, <1>5
  <2> QED
    BY <1>3, <1>4, <1>5, <1>12, <1>14, <2>1 DEF MadeSoFar, Open
<1>16. ASSUME NEW x \in Cell, x # cell
       PROVE  (MadeSoFar(h, n, x) <=> MadeSoFar(h, p, x)) /\ ~Open(n, x) /\ ~Open(p, x)
  <2>1. x = <<x[1], x[2]>>
    BY DEF Cell
  <2>2. x[1] = d => x[2] # a
    BY <1>5, <1>16, <2>1
  <2>3. ASSUME x[1] = d, x[2] \in h.accounts PROVE x[2] <= a <=> x[2] <= p.account
    BY <1>1, <1>3, <2>2, <2>3
  <2>4. ~Open(n, x) /\ ~Open(p, x)
    BY <1>5, <1>14, <1>16 DEF Open
  <2> QED
    BY <1>4, <1>12, <1>14, <2>3, <2>4 DEF MadeSoFar
<1>17. ASSUME NEW x \in Cell PROVE UnitFits(h, n, x, n.units[x])
  <2>1. CASE x = cell
    <3>1. UnitFits(h, n, cell, fresh)
      <4>1. \A g \in Group : ~(g <= 0)
        BY BoundsAreNumbers DEF Group
      <4> QED
        <5>1. fresh.ready # "none" /\ fresh.complete = ~Open(n, cell) /\ ~fresh.complete
          BY <1>7, <1>8, <1>15
        <5>2. \A g \in Group : g \in fresh.groups <=> g \in h.dramas[cell[1]] /\ (Open(n, cell) => g <= n.group)
          BY <1>8, <1>14, <1>15, <4>1
        <5> QED
          BY <1>15, <5>1, <5>2 DEF UnitFits
    <3> QED
      BY <1>11, <1>14, <2>1, <3>1
  <2>2. CASE x # cell
    <3>1. /\ MadeSoFar(h, n, x) <=> MadeSoFar(h, p, x)
          /\ ~Open(n, x) /\ ~Open(p, x)
      BY <1>16, <2>2
    <3>2. PICK v : v = p.units[x] /\ UnitFits(h, p, x, v)
      BY <1>1
    <3>3. CASE x \notin same
      <4>1. n.units[x] = v
        BY <1>11, <1>14, <2>2, <3>2, <3>3
      <4>2. UnitFits(h, n, x, v)
        BY <3>1, <3>2 DEF UnitFits
      <4> QED
        BY <4>1, <4>2
    <3>4. CASE x \in same
      <4>1. v.ready # "none"
        BY <1>6, <3>2, <3>4
      <4>2. MadeSoFar(h, p, x)
        BY <3>2, <4>1 DEF UnitFits, NoUnit
      <4>3. PICK w : /\ w = n.units[x] /\ w.groups = v.groups /\ w.complete = v.complete
                     /\ w.ready = "BLOCKED"
        BY <1>11, <1>14, <2>2, <3>2, <3>4
      <4>4. UnitFits(h, n, x, w)
        BY <3>1, <3>2, <4>2, <4>3 DEF UnitFits
      <4> QED
        BY <4>3, <4>4
    <3> QED
      BY <3>3, <3>4
  <2> QED
    BY <2>1, <2>2
<1>18. p.units[cell].ready = "none"
  BY <1>1, <1>15 DEF UnitFits, NoUnit
<1>19. ASSUME NEW x \in Cell, NEW y \in Cell, x # y, x[2] = y[2], nm[x[1]] = nm[y[1]],
              n.units[x].ready # "none", n.units[y].ready # "none"
       PROVE  n.units[x].ready = "BLOCKED"
  <2>1. CASE x = cell
    <3>1. y \in same
      BY <1>6, <1>11, <1>14, <1>15, <1>19, <2>1
    <3> QED
      BY ZenonT(90), <1>7, <1>8, <1>11, <1>14, <2>1, <3>1
  <2>2. CASE y = cell
    <3>1. x \in same /\ x # cell
      BY <1>6, <1>11, <1>14, <1>15, <1>19, <2>2
    <3> QED
      BY <1>11, <1>14, <3>1
  <2>3. CASE x # cell /\ y # cell
    <3>1. /\ x \notin same => n.units[x].ready = p.units[x].ready
          /\ x \in same => n.units[x].ready = "BLOCKED"
          /\ y \notin same => n.units[y].ready = p.units[y].ready
          /\ y \in same => p.units[y].ready # "none"
      BY <1>6, <1>11, <1>14, <2>3
    <3> QED
      BY <1>1, <1>19, <3>1 DEF Unique
  <2> QED
    BY <2>1, <2>2, <2>3
<1>20. Unique(nm, n)
  BY <1>19 DEF Unique
<1>21. Follows(h, n.drama, n.last)
  BY <1>1, <1>4, <1>14
<1> QED
  BY <1>1, <1>3, <1>14, <1>17, <1>20, <1>21, BoundsAreNumbers DEF SheetOK, Digested

\* The digest takes the units one by one.
LEMMA DigestKeeps ==
  ASSUME NEW h, NEW nm, NEW p, SheetOK(h, nm, p), p.phase = "digest", NEW n, n = DigestStep(p)
  PROVE  SheetOK(h, nm, n)
<1>1. CASE Undigested(p) = {}
  BY <1>1 DEF DigestStep
<1>2. CASE Undigested(p) # {}
  <2>1. /\ p \in SheetRow(p.rows) /\ IsRows(p.rows) /\ p.rows = h.dramas /\ ~p.unit
        /\ (\A x \in Cell : UnitFits(h, p, x, p.units[x])) /\ Unique(nm, p)
        /\ \A y \in p.digest : p.units[y[1]].ready = y[2]
    BY DEF SheetOK, Digested
  <2>2. p.units \in [Cell -> UnitRow] /\ p.digest \subseteq Cell \X {"READY", "BLOCKED"}
    BY <2>1 DEF SheetRow
  <2>3. PICK cell \in Undigested(p) : cell = CHOOSE y \in Undigested(p) : TRUE
    BY <1>2
  <2>4. cell \in Cell /\ p.units[cell].ready # "none"
    BY <2>3 DEF Undigested
  <2>5. p.units[cell].ready \in {"READY", "BLOCKED"}
    BY <2>2, <2>4 DEF UnitRow
  <2>6. PICK digest : digest = p.digest \cup {<<cell, p.units[cell].ready>>}
    OBVIOUS
  <2>7. n = [p EXCEPT !.digest = digest]
    BY <1>2, <2>3, <2>6 DEF DigestStep
  <2>8. p \in SheetRow(p.rows) /\ p.phase = "digest"
    BY <2>1
  <2>9. /\ n \in SheetRow(n.rows) /\ n.phase = "digest" /\ n.rows = p.rows /\ n.units = p.units
        /\ n.digest = digest /\ n.unit = p.unit
    <3>1. <<cell, p.units[cell].ready>> \in Cell \X {"READY", "BLOCKED"}
      BY <2>4, <2>5
    <3>2. digest \in SUBSET (Cell \X {"READY", "BLOCKED"})
      BY <2>2, <2>6, <3>1
    <3> QED
      BY <2>7, <2>8, <3>2 DEF SheetRow
  <2>10. \A x \in Cell : (MadeSoFar(h, n, x) <=> MadeSoFar(h, p, x)) /\ ~Open(n, x) /\ ~Open(p, x)
    BY <2>1, <2>8, <2>9 DEF MadeSoFar, Open
  <2>11. (\A x \in Cell : UnitFits(h, n, x, n.units[x])) /\ Unique(nm, n)
    BY <2>1, <2>9, <2>10, UnitsStay
  <2>12. \A y \in digest : n.units[y[1]].ready = y[2]
    BY <2>1, <2>6, <2>9
  <2> QED
    BY <2>1, <2>9, <2>11, <2>12 DEF SheetOK, Digested
<1> QED
  BY <1>1, <1>2

\* Every step of a delivery keeps what is known of the preview.
LEMMA StepKeeps ==
  ASSUME IsRows(plan.has.dramas), plan.has.accounts \subseteq Account,
         NEW p, SheetOK(plan.has, name, p), NEW bad
  PROVE  SheetOK(plan.has, name, StepOf(p, bad))
<1>1. PICK h, nm, n : h = plan.has /\ nm = name /\ n = StepOf(p, bad)
  OBVIOUS
<1>2. p.phase \in {"inputs", "dramas", "units", "digest"} /\ IsRows(h.dramas) /\ h.accounts \subseteq Account
      /\ SheetOK(h, nm, p)
  BY <1>1 DEF SheetOK, SheetRow
<1>3. CASE p.phase = "inputs"
  <2>1. n = InputStep(p)
    BY <1>1, <1>3 DEF StepOf
  <2> QED
    BY <1>1, <1>2, <1>3, <2>1, InputKeeps
<1>4. CASE p.phase = "dramas"
  <2>1. n = DramaStep(p)
    BY <1>1, <1>4 DEF StepOf
  <2> QED
    BY <1>1, <1>2, <1>4, <2>1, DramaKeeps
<1>5. CASE p.phase = "units"
  <2>1. n = UnitStep(p, bad)
    BY <1>1, <1>5 DEF StepOf
  <2>2. CASE p.unit
    BY <1>1, <1>2, <1>5, <2>1, <2>2, OpenUnitKeeps
  <2>3. CASE ~p.unit /\ (p.drama = 0 \/ Beyond(h.accounts, p.account) = {})
    BY <1>1, <1>2, <1>5, <2>1, <2>3, WalkKeeps
  <2>4. CASE ~p.unit /\ p.drama # 0 /\ Beyond(h.accounts, p.account) # {}
    BY <1>1, <1>2, <1>5, <2>1, <2>4, MakeUnitKeeps
  <2> QED
    BY <2>2, <2>3, <2>4
<1>6. CASE p.phase = "digest"
  <2>1. n = DigestStep(p)
    BY <1>1, <1>6 DEF StepOf
  <2> QED
    BY <1>1, <1>2, <1>6, <2>1, DigestKeeps
<1> QED
  BY <1>2, <1>3, <1>4, <1>5, <1>6

\* The steps of a delivery exist.
StepsFrom(s, bad, n, f) == f = [i \in 0 .. n |-> IF i = 0 THEN s ELSE StepOf(f[i - 1], bad)]

LEMMA AfterExists ==
  ASSUME NEW s, NEW bad, NEW n \in Nat
  PROVE  \E f : StepsFrom(s, bad, n, f)
<1> DEFINE Runs(f, m) == StepsFrom(s, bad, m, f)
           Without == {m \in Nat : ~\E f : Runs(f, m)}
<1> USE DEF StepsFrom
<1>1. SUFFICES ASSUME Without # {} PROVE FALSE
  OBVIOUS
<1>2. PICK m \in Without : \A k \in Without : m <= k
  BY <1>1, LeastOf
<1>3. CASE m = 0
  <2>1. PICK f : f = [i \in 0 .. 0 |-> s]
    OBVIOUS
  <2>2. Runs(f, 0)
    BY <2>1
  <2> QED
    BY <1>2, <1>3, <2>2
<1>4. CASE m # 0
  <2>1. m \in Nat /\ m - 1 \in Nat /\ m - 1 \notin Without
    <3>1. m \in Nat /\ \A k \in Without : m <= k
      BY <1>2
    <3>2. m - 1 \in Nat /\ ~(m <= m - 1)
      BY <1>4, <3>1
    <3> HIDE DEF Without
    <3> QED
      BY <3>1, <3>2
  <2>2. PICK g : Runs(g, m - 1)
    BY <2>1
  <2>3. PICK f : f = [i \in 0 .. m |-> IF i = m THEN StepOf(g[m - 1], bad) ELSE g[i]]
    OBVIOUS
  <2>4. \A i \in 0 .. m - 1 : g[i] = IF i = 0 THEN s ELSE StepOf(g[i - 1], bad)
    BY <2>2, <2>1
  <2>5. ASSUME NEW i \in 0 .. m PROVE f[i] = IF i = 0 THEN s ELSE StepOf(f[i - 1], bad)
    <3>1. CASE i = 0
      BY <1>4, <2>1, <2>3, <2>4, <3>1
    <3>2. CASE i # 0 /\ i # m
      BY <2>1, <2>3, <2>4, <3>2
    <3>3. CASE i = m
      <4>1. f[m] = StepOf(g[m - 1], bad) /\ f[m - 1] = g[m - 1]
        BY <1>4, <2>1, <2>3
      <4> QED
        BY <1>4, <3>3, <4>1
    <3> QED
      BY <3>1, <3>2, <3>3
  <2>6. f = [i \in 0 .. m |-> f[i]]
    BY <2>3
  <2>7. Runs(f, m)
    BY SMTT(90), <2>5, <2>6
  <2> QED
    BY <1>2, <2>7
<1> QED
  BY <1>3, <1>4

\* So do all of them.
LEMMA AfterKeeps ==
  ASSUME IsRows(plan.has.dramas), plan.has.accounts \subseteq Account, SheetOK(plan.has, name, sheet),
         NEW bad, NEW n \in Nat, NEW f,
         f = [i \in 0 .. n |-> IF i = 0 THEN sheet ELSE StepOf(f[i - 1], bad)],
         NEW i \in 0 .. n
  PROVE  SheetOK(plan.has, name, f[i])
<1> DEFINE Not == {k \in 0 .. n : ~SheetOK(plan.has, name, f[k])}
<1>1. SUFFICES ASSUME Not # {} PROVE FALSE
  OBVIOUS
<1>2. PICK k \in Not : \A j \in Not : k <= j
  <2>1. Not \in SUBSET Nat
    OBVIOUS
  <2> QED
    BY <1>1, <2>1, LeastOf
<1>3. f[0] = sheet /\ \A j \in 1 .. n : f[j] = StepOf(f[j - 1], bad)
  OBVIOUS
<1>4. k \in 1 .. n /\ k - 1 \in 0 .. n /\ k - 1 \notin Not
  <2>1. k \in 0 .. n /\ ~SheetOK(plan.has, name, f[k])
    OBVIOUS
  <2>2. k # 0
    BY <1>3, <2>1
  <2>3. k \in 1 .. n /\ k - 1 \in 0 .. n /\ ~(k <= k - 1)
    BY <2>1, <2>2
  <2> HIDE DEF Not
  <2> QED
    BY <1>2, <2>3
<1>5. SheetOK(plan.has, name, f[k - 1])
  BY <1>4
<1> QED
  BY <1>2, <1>3, <1>4, <1>5, StepKeeps

----------------------------------------------------------------------------
(* The preview as a whole.                                                 *)

LEMMA ContentsAreRows ==
  ASSUME NEW h \in Contents
  PROVE  IsRows(h.dramas) /\ h.accounts \subseteq Account
<1>1. h.dramas \in UNION {[ds -> SUBSET Group] : ds \in SUBSET Drama} /\ h.accounts \in SUBSET Account
  BY DEF Contents
<1>2. PICK ds \in SUBSET Drama : h.dramas \in [ds -> SUBSET Group]
  BY <1>1
<1> QED
  BY <1>1, <1>2 DEF IsRows

\* A preview that is not begun.
LEMMA BlankFits ==
  ASSUME NEW h, NEW nm
  PROVE  SheetOK(h, nm, Blank)
<1>1. PICK p : p = Blank
  OBVIOUS
<1>2. PICK rows : rows = <<>> /\ IsRows(rows) /\ DOMAIN rows = {}
  <2>1. DOMAIN <<>> = {} /\ <<>> = [d \in DOMAIN <<>> |-> <<>>[d]]
    OBVIOUS
  <2> QED
    BY <2>1 DEF IsRows
<1>3. PICK units \in [Cell -> UnitRow] : units = [x \in Cell |-> NoUnit]
  <2>1. NoUnit \in UnitRow
    BY DEF NoUnit, UnitRow
  <2> QED
    BY <2>1
<1>4. /\ p \in SheetRow(p.rows) /\ p.phase = "inputs" /\ p.drama = 0 /\ p.last = 0 /\ p.group = 0
      /\ p.unit = FALSE /\ p.rows = rows /\ p.units = units /\ p.digest = {}
  <2>1. 0 \in 0 .. Dramas + Accounts /\ 0 \in 0 .. Dramas /\ 0 \in 0 .. Accounts /\ 0 \in 0 .. Groups
    BY BoundsAreNumbers
  <2>2. p = [phase |-> "inputs", kind |-> "drama", after |-> 0, drama |-> 0, last |-> 0,
             group |-> 0, account |-> 0, unit |-> FALSE, rows |-> rows, units |-> units, digest |-> {}]
    BY <1>1, <1>2, <1>3 DEF Blank
  <2> QED
    BY <2>1, <2>2 DEF SheetRow
<1>5. RowsFit(h, 0, 0, 0, rows)
  <2>1. \A d \in Drama : ~(d <= 0) /\ d # 0
    BY BoundsAreNumbers DEF Drama
  <2> QED
    BY <1>2, <2>1 DEF RowsFit
<1>6. \A x \in Cell : units[x] = NoUnit /\ NoUnit.ready = "none"
  BY <1>3 DEF NoUnit
<1>7. \A x \in Cell : UnitFits(h, p, x, p.units[x])
  BY <1>4, <1>6 DEF UnitFits, MadeSoFar
<1>8. Unique(nm, p)
  BY <1>4, <1>6 DEF Unique
<1> QED
  BY <1>1, <1>2, <1>4, <1>5, <1>7, <1>8 DEF SheetOK, Digested

LEMMA SheetTyped ==
  ASSUME NEW h, NEW nm, NEW p, SheetOK(h, nm, p)
  PROVE  /\ p \in [phase : {"inputs", "dramas", "units", "digest"}, kind : {"drama", "account"},
                   after : 0 .. Dramas + Accounts, drama : 0 .. Dramas, last : 0 .. Dramas,
                   group : 0 .. Groups, account : 0 .. Accounts, unit : BOOLEAN, rows : {p.rows},
                   units : [Cell -> [ready : {"none", "READY", "BLOCKED"}, groups : SUBSET Group,
                                     complete : BOOLEAN]],
                   digest : SUBSET (Cell \X {"READY", "BLOCKED"})]
         /\ DOMAIN p.rows \subseteq Drama /\ \A d \in DOMAIN p.rows : p.rows[d] \subseteq Group
<1>1. p \in SheetRow(p.rows) /\ IsRows(p.rows)
  BY DEF SheetOK
<1>2. p \in [phase : {"inputs", "dramas", "units", "digest"}, kind : {"drama", "account"},
             after : 0 .. Dramas + Accounts, drama : 0 .. Dramas, last : 0 .. Dramas,
             group : 0 .. Groups, account : 0 .. Accounts, unit : BOOLEAN, rows : {p.rows},
             units : [Cell -> [ready : {"none", "READY", "BLOCKED"}, groups : SUBSET Group,
                               complete : BOOLEAN]],
             digest : SUBSET (Cell \X {"READY", "BLOCKED"})]
  BY <1>1, Zenon DEF SheetRow, UnitRow
<1> QED
  BY <1>1, <1>2 DEF IsRows

LEMMA ViewInvInit == ViewInit => ViewInv
<1> SUFFICES ASSUME ViewInit PROVE ViewInv
  OBVIOUS
<1>1. PICK has \in Contents : plan = [revision |-> 1, ready |-> TRUE, has |-> has]
  BY DEF ViewInit
<1>2. plan \in [revision : Rev, ready : BOOLEAN, has : Contents] /\ plan.has = has /\ plan.revision \in Rev
  BY <1>1, BoundsAreNumbers DEF Rev
<1>3. /\ view = [r \in Rev |-> "none"] /\ sheet = Blank
      /\ viewDispatch = [r \in Rev |-> "none"] /\ viewWire = {}
      /\ name \in [Drama -> Drama] /\ mishaps \in 0 .. MaxTroubles
  BY BoundsAreNumbers DEF ViewInit
<1>4. SheetOK(plan.has, name, sheet)
  BY <1>3, BlankFits
<1>5. ViewTypeOK
  BY <1>2, <1>3, <1>4, SheetTyped DEF ViewTypeOK
<1>6. IsRows(plan.has.dramas)
  BY <1>2, ContentsAreRows
<1>7. OnlyCurrent /\ view[plan.revision] # "FROZEN"
  BY <1>2, <1>3 DEF OnlyCurrent
<1> QED
  BY <1>4, <1>5, <1>6, <1>7 DEF ViewInv

----------------------------------------------------------------------------
(* The actions.                                                            *)

\* What every action finds.
LEMMA ViewKnown ==
  ASSUME ViewInv
  PROVE  /\ plan \in [revision : Rev, ready : BOOLEAN, has : Contents]
         /\ plan.revision \in Rev /\ plan.has \in Contents
         /\ view \in [Rev -> {"none", "BUILDING", "FROZEN", "OBSOLETE", "FAILED"}]
         /\ viewDispatch \in [Rev -> {"none", "due", "sent"}] /\ viewWire \subseteq Rev
         /\ name \in [Drama -> Drama] /\ mishaps \in 0 .. MaxTroubles
         /\ IsRows(plan.has.dramas) /\ plan.has.accounts \subseteq Account
         /\ SheetOK(plan.has, name, sheet) /\ (view[plan.revision] = "FROZEN" => Whole(sheet))
         /\ \A r \in Rev : view[r] \in {"BUILDING", "FROZEN"} => r = plan.revision
<1>1. /\ plan \in [revision : Rev, ready : BOOLEAN, has : Contents]
      /\ view \in [Rev -> {"none", "BUILDING", "FROZEN", "OBSOLETE", "FAILED"}]
      /\ viewDispatch \in [Rev -> {"none", "due", "sent"}] /\ viewWire \subseteq Rev
      /\ name \in [Drama -> Drama] /\ mishaps \in 0 .. MaxTroubles
  BY DEF ViewInv, ViewTypeOK
<1>2. plan.revision \in Rev /\ plan.has \in Contents
  BY <1>1
<1>3. plan.has.accounts \subseteq Account
  BY <1>2, ContentsAreRows
<1> QED
  BY <1>1, <1>2, <1>3 DEF ViewInv, OnlyCurrent

\* What every action has to show.
LEMMA ViewInvIs ==
  ASSUME plan' \in [revision : Rev, ready : BOOLEAN, has : Contents],
         view' \in [Rev -> {"none", "BUILDING", "FROZEN", "OBSOLETE", "FAILED"}],
         viewDispatch' \in [Rev -> {"none", "due", "sent"}], viewWire' \subseteq Rev,
         name' \in [Drama -> Drama], mishaps' \in 0 .. MaxTroubles,
         SheetOK(plan'.has, name', sheet'), view'[plan'.revision] = "FROZEN" => Whole(sheet'),
         \A r \in Rev : view'[r] \in {"BUILDING", "FROZEN"} => r = plan'.revision
  PROVE  ViewInv'
<1>1. plan'.has \in Contents
  OBVIOUS
<1>2. IsRows(plan'.has.dramas)
  BY <1>1, ContentsAreRows
<1>3. /\ sheet' \in [phase : {"inputs", "dramas", "units", "digest"}, kind : {"drama", "account"},
                     after : 0 .. Dramas + Accounts, drama : 0 .. Dramas, last : 0 .. Dramas,
                     group : 0 .. Groups, account : 0 .. Accounts, unit : BOOLEAN, rows : {sheet'.rows},
                     units : [Cell -> [ready : {"none", "READY", "BLOCKED"}, groups : SUBSET Group,
                                       complete : BOOLEAN]],
                     digest : SUBSET (Cell \X {"READY", "BLOCKED"})]
      /\ DOMAIN sheet'.rows \subseteq Drama /\ \A d \in DOMAIN sheet'.rows : sheet'.rows[d] \subseteq Group
  BY SheetTyped
<1>4. ViewTypeOK'
  BY <1>3 DEF ViewTypeOK, Cell
<1>5. OnlyCurrent'
  BY SMTT(90) DEF OnlyCurrent
<1>6. SheetOK(plan.has, name, sheet)'
  BY DEF SheetOK, IsRows, SheetRow, Follows, RowsFit, UnitFits, MadeSoFar, Open, Unique,
     Digested,
         Cell, NoUnit, UnitRow
<1>7. (view[plan.revision] = "FROZEN" => Whole(sheet))'
  BY DEF Whole, Undigested
<1> QED
  BY <1>2, <1>4, <1>5, <1>6, <1>7 DEF ViewInv, IsRows

\* An edit makes the previews there are obsolete, and a new revision has none.
LEMMA RevisionKeeps ==
  ASSUME ViewInv, NEW ready \in BOOLEAN, NewRevision(ready)
  PROVE  ViewInv'
<1>1. PICK has \in Contents : plan' = [revision |-> plan.revision + 1, ready |-> ready, has |-> has]
  BY DEF NewRevision
<1>2. /\ plan.revision < LastRevision /\ view' = Obsoleted /\ sheet' = Blank
      /\ UNCHANGED <<viewDispatch, viewWire, name, mishaps>>
  BY DEF NewRevision
<1>3. plan.revision + 1 \in Rev
  <2>1. plan.revision \in Rev
    BY ViewKnown
  <2> QED
    BY <1>2, <2>1, BoundsAreNumbers DEF Rev
<1>4. plan' \in [revision : Rev, ready : BOOLEAN, has : Contents]
  BY <1>1, <1>3
<1>5. /\ view' \in [Rev -> {"none", "BUILDING", "FROZEN", "OBSOLETE", "FAILED"}]
      /\ \A r \in Rev : view'[r] \notin {"BUILDING", "FROZEN"}
  <2>1. view \in [Rev -> {"none", "BUILDING", "FROZEN", "OBSOLETE", "FAILED"}]
    BY ViewKnown
  <2> QED
    BY <1>2, <2>1 DEF Obsoleted
<1>6. view'[plan'.revision] # "FROZEN"
  BY <1>4, <1>5
<1>7. SheetOK(plan'.has, name', sheet')
  BY <1>2, BlankFits
<1>8. viewDispatch' \in [Rev -> {"none", "due", "sent"}] /\ viewWire' \subseteq Rev
      /\ name' \in [Drama -> Drama] /\ mishaps' \in 0 .. MaxTroubles
  BY <1>2, ViewKnown
<1> QED
  BY <1>4, <1>5, <1>6, <1>7, <1>8, ViewInvIs

\* The preview of a READY draft is begun.
LEMMA GenerateKeeps ==
  ASSUME ViewInv, GeneratePreview
  PROVE  ViewInv'
<1>1. PICK r \in Rev : r = plan.revision
  BY ViewKnown
<1>2. /\ view' = [view EXCEPT ![r] = "BUILDING"] /\ sheet' = Blank
      /\ viewDispatch' = [viewDispatch EXCEPT ![r] = "due"] /\ view[r] = "none"
      /\ UNCHANGED <<plan, viewWire, name, mishaps>>
  BY <1>1 DEF GeneratePreview
<1>3. /\ plan \in [revision : Rev, ready : BOOLEAN, has : Contents]
      /\ view \in [Rev -> {"none", "BUILDING", "FROZEN", "OBSOLETE", "FAILED"}]
      /\ viewDispatch \in [Rev -> {"none", "due", "sent"}] /\ viewWire \subseteq Rev
      /\ name \in [Drama -> Drama] /\ mishaps \in 0 .. MaxTroubles
      /\ \A x \in Rev : view[x] \in {"BUILDING", "FROZEN"} => x = plan.revision
  BY ViewKnown
<1>4. /\ view' \in [Rev -> {"none", "BUILDING", "FROZEN", "OBSOLETE", "FAILED"}]
      /\ view'[r] = "BUILDING" /\ \A x \in Rev : x # r => view'[x] = view[x]
  BY <1>2, <1>3
<1>5. \A x \in Rev : view'[x] \in {"BUILDING", "FROZEN"} => x = plan'.revision
  BY <1>1, <1>2, <1>3, <1>4
<1>6. view'[plan'.revision] # "FROZEN"
  BY <1>1, <1>2, <1>4
<1>7. SheetOK(plan'.has, name', sheet')
  BY <1>2, BlankFits
<1>8. /\ plan' \in [revision : Rev, ready : BOOLEAN, has : Contents]
      /\ viewDispatch' \in [Rev -> {"none", "due", "sent"}] /\ viewWire' \subseteq Rev
      /\ name' \in [Drama -> Drama] /\ mishaps' \in 0 .. MaxTroubles
  BY <1>2, <1>3
<1> QED
  BY <1>4, <1>5, <1>6, <1>7, <1>8, ViewInvIs

\* A delivery takes its steps, and freezes the preview when the last found it whole.
LEMMA ContinueKeeps ==
  ASSUME ViewInv, NEW r \in Rev, ContinuePreview(r)
  PROVE  ViewInv'
<1>1. /\ plan \in [revision : Rev, ready : BOOLEAN, has : Contents]
      /\ view \in [Rev -> {"none", "BUILDING", "FROZEN", "OBSOLETE", "FAILED"}]
      /\ viewDispatch \in [Rev -> {"none", "due", "sent"}] /\ viewWire \subseteq Rev
      /\ name \in [Drama -> Drama] /\ mishaps \in 0 .. MaxTroubles
      /\ IsRows(plan.has.dramas) /\ plan.has.accounts \subseteq Account
      /\ SheetOK(plan.has, name, sheet)
      /\ \A x \in Rev : view[x] \in {"BUILDING", "FROZEN"} => x = plan.revision
  BY ViewKnown
<1>2. view[r] = "BUILDING" /\ r = plan.revision /\ UNCHANGED <<plan, name>>
  BY <1>1 DEF ContinuePreview
<1>3. PICK n \in 1 .. Steps, bad \in SUBSET plan.has.accounts :
        LET course[i \in 0 .. n] == IF i = 0 THEN sheet ELSE StepOf(course[i - 1], bad)
        IN /\ sheet' = course[n]
           /\ IF Whole(course[n - 1])
              THEN view' = [view EXCEPT ![r] = "FROZEN"] /\ ViewTaken(r)
              ELSE UNCHANGED view /\ Continues(r)
  BY DEF ContinuePreview
<1>4. n \in Nat /\ n \in 0 .. n /\ n - 1 \in 0 .. n /\ n # 0
  BY StepsOK
<1>5. PICK f : /\ f = [i \in 0 .. n |-> IF i = 0 THEN sheet ELSE StepOf(f[i - 1], bad)]
               /\ sheet' = f[n]
               /\ IF Whole(f[n - 1])
                  THEN view' = [view EXCEPT ![r] = "FROZEN"] /\ ViewTaken(r)
                  ELSE UNCHANGED view /\ Continues(r)
  <2> DEFINE course[i \in 0 .. n] == IF i = 0 THEN sheet ELSE StepOf(course[i - 1], bad)
  <2>1. course = [i \in 0 .. n |-> IF i = 0 THEN sheet ELSE StepOf(course[i - 1], bad)]
    <3>1. PICK g : StepsFrom(sheet, bad, n, g)
      BY <1>4, AfterExists
    <3>2. g = [i \in 0 .. n |-> IF i = 0 THEN sheet ELSE StepOf(g[i - 1], bad)]
      BY <3>1 DEF StepsFrom
    <3> QED
      BY <3>2
  <2>2. /\ sheet' = course[n]
        /\ IF Whole(course[n - 1])
           THEN view' = [view EXCEPT ![r] = "FROZEN"] /\ ViewTaken(r)
           ELSE UNCHANGED view /\ Continues(r)
    BY <1>3
  <2> HIDE DEF course
  <2> QED
    BY <2>1, <2>2
<1>6. SheetOK(plan.has, name, f[n])
  BY <1>1, <1>4, <1>5, AfterKeeps
<1>7. SheetOK(plan'.has, name', sheet')
  BY <1>2, <1>5, <1>6
<1>8. f[n] = StepOf(f[n - 1], bad)
  BY <1>4, <1>5
<1>9. /\ view' \in [Rev -> {"none", "BUILDING", "FROZEN", "OBSOLETE", "FAILED"}]
      /\ \A x \in Rev : x # r => view'[x] = view[x]
      /\ view'[r] = "FROZEN" => Whole(f[n - 1])
  BY <1>1, <1>2, <1>5
<1>10. \A x \in Rev : view'[x] \in {"BUILDING", "FROZEN"} => x = plan'.revision
  BY <1>1, <1>2, <1>9
<1>11. view'[plan'.revision] = "FROZEN" => Whole(sheet')
  <2>1. SUFFICES ASSUME Whole(f[n - 1]) PROVE Whole(f[n])
    BY ZenonT(90), <1>2, <1>5, <1>9 DEF Whole, Undigested
  <2>2. StepOf(f[n - 1], bad) = f[n - 1]
    BY <2>1 DEF Whole, StepOf, DigestStep
  <2> QED
    BY SMTT(90), <1>8, <2>1, <2>2
<1>12. /\ viewDispatch' \in [Rev -> {"none", "due", "sent"}] /\ viewWire' \subseteq Rev
       /\ mishaps' \in 0 .. MaxTroubles
  BY <1>1, <1>5 DEF ViewTaken, Continues
<1>13. plan' \in [revision : Rev, ready : BOOLEAN, has : Contents] /\ name' \in [Drama -> Drama]
  BY <1>1, <1>2
<1> QED
  BY <1>7, <1>9, <1>10, <1>11, <1>12, <1>13, ViewInvIs

\* The rest: the draft becomes READY, the preview fails, messages come and go.
LEMMA ViewStays ==
  ASSUME ViewInv, UNCHANGED <<view, sheet, name>>,
         plan' \in [revision : Rev, ready : BOOLEAN, has : Contents],
         plan'.revision = plan.revision, plan'.has = plan.has,
         viewDispatch' \in [Rev -> {"none", "due", "sent"}], viewWire' \subseteq Rev,
         mishaps' \in 0 .. MaxTroubles
  PROVE  ViewInv'
<1>1. /\ view \in [Rev -> {"none", "BUILDING", "FROZEN", "OBSOLETE", "FAILED"}]
      /\ name \in [Drama -> Drama] /\ SheetOK(plan.has, name, sheet)
      /\ view[plan.revision] = "FROZEN" => Whole(sheet)
      /\ \A x \in Rev : view[x] \in {"BUILDING", "FROZEN"} => x = plan.revision
  BY ViewKnown
<1>2. SheetOK(plan'.has, name', sheet')
  BY <1>1
<1>3. view'[plan'.revision] = "FROZEN" => Whole(sheet')
  BY <1>1 DEF Whole, Undigested
<1>4. \A x \in Rev : view'[x] \in {"BUILDING", "FROZEN"} => x = plan'.revision
  BY <1>1
<1> QED
  BY <1>1, <1>2, <1>3, <1>4, ViewInvIs

LEMMA FailsKeeps ==
  ASSUME ViewInv, NEW r \in Rev, PreviewFails(r)
  PROVE  ViewInv'
<1>1. /\ plan \in [revision : Rev, ready : BOOLEAN, has : Contents]
      /\ view \in [Rev -> {"none", "BUILDING", "FROZEN", "OBSOLETE", "FAILED"}]
      /\ viewDispatch \in [Rev -> {"none", "due", "sent"}] /\ viewWire \subseteq Rev
      /\ name \in [Drama -> Drama] /\ mishaps \in 0 .. MaxTroubles
      /\ SheetOK(plan.has, name, sheet) /\ plan.revision \in Rev
      /\ view[plan.revision] = "FROZEN" => Whole(sheet)
      /\ \A x \in Rev : view[x] \in {"BUILDING", "FROZEN"} => x = plan.revision
  BY ViewKnown
<1>2. /\ view' = [view EXCEPT ![r] = "FAILED"] /\ UNCHANGED <<plan, sheet, name>>
      /\ viewWire' = viewWire \ {r} /\ UNCHANGED <<viewDispatch, mishaps>>
  BY DEF PreviewFails, ViewTaken
<1>3. /\ view' \in [Rev -> {"none", "BUILDING", "FROZEN", "OBSOLETE", "FAILED"}]
      /\ \A x \in Rev : view'[x] \in {"BUILDING", "FROZEN"} => view[x] = view'[x]
  BY <1>1, <1>2
<1>4. SheetOK(plan'.has, name', sheet')
  BY <1>1, <1>2
<1>5. view'[plan'.revision] = "FROZEN" => Whole(sheet')
  BY <1>1, <1>2, <1>3 DEF Whole, Undigested
<1>6. \A x \in Rev : view'[x] \in {"BUILDING", "FROZEN"} => x = plan'.revision
  BY <1>1, <1>2, <1>3
<1>7. /\ plan' \in [revision : Rev, ready : BOOLEAN, has : Contents]
      /\ viewDispatch' \in [Rev -> {"none", "due", "sent"}] /\ viewWire' \subseteq Rev
      /\ name' \in [Drama -> Drama] /\ mishaps' \in 0 .. MaxTroubles
  BY <1>1, <1>2
<1> QED
  BY <1>3, <1>4, <1>5, <1>6, <1>7, ViewInvIs

LEMMA ViewInvNext == ViewInv /\ [ViewNext]_viewVars => ViewInv'
<1> SUFFICES ASSUME ViewInv, [ViewNext]_viewVars PROVE ViewInv'
  OBVIOUS
<1>1. /\ plan \in [revision : Rev, ready : BOOLEAN, has : Contents]
      /\ viewDispatch \in [Rev -> {"none", "due", "sent"}] /\ viewWire \subseteq Rev
      /\ mishaps \in 0 .. MaxTroubles
  BY ViewKnown
<1>2. ASSUME NEW ready \in BOOLEAN, NewRevision(ready) PROVE ViewInv'
  BY <1>2, RevisionKeeps
<1>3. CASE PreparationEnds
  <2>1. /\ plan' = [plan EXCEPT !.ready = TRUE] /\ UNCHANGED <<view, sheet, name>>
        /\ UNCHANGED <<viewDispatch, viewWire, mishaps>>
    BY <1>3 DEF PreparationEnds
  <2>2. /\ plan' \in [revision : Rev, ready : BOOLEAN, has : Contents]
        /\ plan'.revision = plan.revision /\ plan'.has = plan.has
    BY <1>1, <2>1
  <2> QED
    BY <1>1, <2>1, <2>2, ViewStays
<1>4. CASE GeneratePreview
  BY <1>4, GenerateKeeps
<1>5. ASSUME NEW r \in Rev, ContinuePreview(r) PROVE ViewInv'
  BY <1>5, ContinueKeeps
<1>6. ASSUME NEW r \in Rev, PreviewFails(r) PROVE ViewInv'
  BY <1>6, FailsKeeps
<1>7. ASSUME NEW r \in Rev, PreviewOver(r) PROVE ViewInv'
  <2>1. UNCHANGED <<plan, view, sheet, name>> /\ viewWire' = viewWire \ {r} /\ UNCHANGED <<viewDispatch, mishaps>>
    BY <1>7 DEF PreviewOver, ViewTaken
  <2> QED
    BY <1>1, <2>1, ViewStays
<1>8. ASSUME NEW r \in Rev, PublishView(r) PROVE ViewInv'
  <2>1. /\ UNCHANGED <<plan, view, sheet, name, mishaps>> /\ viewWire' = viewWire \cup {r}
        /\ viewDispatch' = [viewDispatch EXCEPT ![r] = "sent"]
    BY <1>8 DEF PublishView
  <2> QED
    BY <1>1, <2>1, ViewStays
<1>9. ASSUME NEW r \in Rev, RepairView(r) PROVE ViewInv'
  <2>1. /\ UNCHANGED <<plan, view, sheet, viewWire, name, mishaps>>
        /\ viewDispatch' = [viewDispatch EXCEPT ![r] = "due"]
    BY <1>9 DEF RepairView
  <2> QED
    BY <1>1, <2>1, ViewStays
<1>10. ASSUME NEW r \in Rev, LoseView(r) PROVE ViewInv'
  <2>1. UNCHANGED <<plan, view, sheet, viewDispatch, name>> /\ viewWire' = viewWire \ {r}
    BY <1>10 DEF LoseView
  <2>2. mishaps' \in 0 .. MaxTroubles
    BY <1>1, <1>10, BoundsAreNumbers DEF LoseView, Mishap
  <2> QED
    BY <1>1, <2>1, <2>2, ViewStays
<1>11. CASE UNCHANGED viewVars
  <2>1. UNCHANGED <<plan, view, sheet, viewDispatch, viewWire, name, mishaps>>
    BY <1>11 DEF viewVars
  <2> QED
    BY <1>1, <2>1, ViewStays
<1> QED
  BY <1>2, <1>3, <1>4, <1>5, <1>6, <1>7, <1>8, <1>9, <1>10, <1>11 DEF ViewNext

\* What the invariant says of a frozen preview: the units are complete and stay as they
\* are, and the digest has them as they are.
LEMMA FrozenFits ==
  ASSUME ViewInv
  PROVE  FrozenIsWhole
<1> SUFFICES ASSUME view[plan.revision] = "FROZEN"
             PROVE  /\ sheet.rows = plan.has.dramas
                    /\ \A x \in Cell :
                         IF x[1] \in DOMAIN sheet.rows /\ x[2] \in plan.has.accounts
                         THEN /\ sheet.units[x].complete /\ sheet.units[x].groups = sheet.rows[x[1]]
                              /\ sheet.units[x].groups = {} => sheet.units[x].ready = "BLOCKED"
                         ELSE sheet.units[x] = NoUnit
                    /\ sheet.digest = {<<x, sheet.units[x].ready>> : x \in {y \in Cell : sheet.units[y].complete}}
  BY DEF FrozenIsWhole
<1>1. PICK h, p : h = plan.has /\ p = sheet
  OBVIOUS
<1>2. SheetOK(h, name, p) /\ p.phase = "digest" /\ Undigested(p) = {} /\ IsRows(h.dramas)
  BY <1>1, ViewKnown DEF Whole
<1>3. /\ p \in SheetRow(p.rows) /\ p.rows = h.dramas /\ p.unit = FALSE
      /\ \A x \in Cell : UnitFits(h, p, x, p.units[x])
      /\ \A y \in p.digest : p.units[y[1]].ready = y[2]
  BY <1>2 DEF SheetOK, Digested, SheetRow
<1>4. p.units \in [Cell -> UnitRow] /\ p.digest \subseteq Cell \X {"READY", "BLOCKED"}
  BY <1>3 DEF SheetRow
<1>5. ASSUME NEW x \in Cell
      PROVE  IF x[1] \in DOMAIN p.rows /\ x[2] \in h.accounts
             THEN /\ p.units[x].complete /\ p.units[x].ready # "none"
                  /\ \A g \in Group : g \in p.units[x].groups <=> g \in p.rows[x[1]]
                  /\ p.units[x].groups = {} => p.units[x].ready = "BLOCKED"
             ELSE p.units[x] = NoUnit
  <2>1. PICK u : u = p.units[x] /\ UnitFits(h, p, x, u)
    BY <1>3
  <2>2. ~Open(p, x) /\ (MadeSoFar(h, p, x) <=> x[1] \in DOMAIN p.rows /\ x[2] \in h.accounts)
    BY <1>2, <1>3 DEF Open, MadeSoFar
  <2> QED
    BY <1>3, <2>1, <2>2 DEF UnitFits
<1>6. ASSUME NEW x \in Cell, x[1] \in DOMAIN p.rows, x[2] \in h.accounts
      PROVE  p.units[x].groups = p.rows[x[1]]
  <2>1. p.units[x].groups \subseteq Group /\ p.rows[x[1]] \subseteq Group
    <3>1. p.units[x] \in UnitRow
      BY <1>4
    <3> QED
      BY <1>2, <1>3, <1>6, <3>1 DEF UnitRow, IsRows
  <2> QED
    BY <1>5, <1>6, <2>1
<1>7. \A x \in Cell : p.units[x].complete <=> p.units[x].ready # "none"
  BY <1>5 DEF NoUnit
<1>8. p.digest = {<<x, p.units[x].ready>> : x \in {y \in Cell : p.units[y].complete}}
  <2>1. ASSUME NEW y \in p.digest
        PROVE  y \in {<<x, p.units[x].ready>> : x \in {z \in Cell : p.units[z].complete}}
    <3>1. y = <<y[1], y[2]>> /\ y[1] \in Cell /\ y[2] \in {"READY", "BLOCKED"}
      BY <1>4
    <3>2. p.units[y[1]].ready = y[2] /\ p.units[y[1]].complete
      BY <1>3, <1>7, <3>1
    <3> QED
      BY <3>1, <3>2
  <2>2. ASSUME NEW x \in Cell, p.units[x].complete PROVE <<x, p.units[x].ready>> \in p.digest
    <3>1. x \notin Undigested(p) /\ p.units[x].ready # "none"
      BY <1>2, <1>7, <2>2
    <3>2. PICK y \in p.digest : y[1] = x
      BY <3>1 DEF Undigested
    <3>3. y = <<y[1], y[2]>> /\ y[2] = p.units[x].ready
      BY <1>3, <1>4, <3>2
    <3> QED
      BY <3>2, <3>3
  <2> QED
    BY <2>1, <2>2
<1> QED
  BY <1>1, <1>3, <1>5, <1>6, <1>8

\* Previews: every preview that can be submitted is one of the draft as it is; a frozen
\* one has every drama and group of the draft, a complete unit of every drama and
\* account and no other, blocked where it has no groups, and a digest of the units as
\* they are stored; and of units of an account with one name of campaign none is built.
THEOREM ViewIsSafe == ViewSpec => []ViewSafe
<1>1. ViewInv => ViewSafe
  <2> SUFFICES ASSUME ViewInv PROVE ViewSafe
    OBVIOUS
  <2>1. ViewTypeOK /\ OnlyCurrent /\ SheetOK(plan.has, name, sheet)
    BY DEF ViewInv
  <2>2. Unique(name, sheet)
    BY <2>1 DEF SheetOK
  <2>3. NamesAreUnique
    BY <2>2 DEF NamesAreUnique, Unique
  <2> QED
    BY <2>1, <2>3, FrozenFits DEF ViewSafe
<1> QED
  BY <1>1, ViewInvInit, ViewInvNext, PTL DEF ViewSpec
=============================================================================

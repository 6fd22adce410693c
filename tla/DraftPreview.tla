---------------------------- MODULE DraftPreview ----------------------------
(***************************************************************************)
(* Previews: what a READY draft will build, frozen.  A preview of a        *)
(* revision copies the draft's lines and dramas with their groups, makes a *)
(* unit of every drama and account, and seals them with a digest; it takes *)
(* many deliveries, each a transaction of some steps under the lock of the *)
(* draft, and keeps in its row how far it came.                            *)
(*                                                                         *)
(* The draft here is what a preview sees of it: an edit makes a revision   *)
(* and the end of its preparation makes it READY (DraftPrep has what is in *)
(* between, and that READY contents do not change).  Of previews of other  *)
(* revisions only the status is kept.  Left out: the texts drawn for a     *)
(* group, and the measures of names and texts, except that a campaign's    *)
(* name is unique on its account.                                          *)
(***************************************************************************)
EXTENDS DraftPrep

CONSTANT Steps       \* STEP_LIMIT (200), which the 20 seconds of a delivery may cut short

ASSUME StepsOK == Steps \in Nat \ {0}

VARIABLES
  plan,          \* the draft: revision, whether READY, its dramas with their groups, accounts
  view,          \* build_preview: its status, by revision
  sheet,         \* of the preview of the draft as it is: progress and rows
  viewDispatch, viewWire,
  name,          \* what the names of a drama's campaigns are made of
  mishaps        \* messages lost

viewVars == <<plan, view, sheet, viewDispatch, viewWire, name, mishaps>>

Cell == Drama \X Account
NoUnit == [ready |-> "none", groups |-> {}, complete |-> FALSE]
Blank == [phase |-> "inputs", kind |-> "drama", after |-> 0, drama |-> 0, last |-> 0,
          group |-> 0, account |-> 0, unit |-> FALSE,
          rows |-> <<>>, units |-> [x \in Cell |-> NoUnit], digest |-> {}]

Contents == [dramas : UNION {[ds -> SUBSET Group] : ds \in SUBSET Drama},
             accounts : SUBSET Account]
NoContents == [dramas |-> <<>>, accounts |-> {}]

ViewTypeOK ==
  /\ plan \in [revision : Rev, ready : BOOLEAN, has : Contents]
  /\ view \in [Rev -> {"none", "BUILDING", "FROZEN", "OBSOLETE", "FAILED"}]
  /\ sheet \in [phase : {"inputs", "dramas", "units", "digest"}, kind : {"drama", "account"},
                after : 0 .. Dramas + Accounts, drama : 0 .. Dramas, last : 0 .. Dramas,
                group : 0 .. Groups, account : 0 .. Accounts, unit : BOOLEAN,
                rows : {sheet.rows},
                units : [Cell -> [ready : {"none", "READY", "BLOCKED"}, groups : SUBSET Group,
                                  complete : BOOLEAN]],
                digest : SUBSET (Cell \X {"READY", "BLOCKED"})]
  /\ DOMAIN sheet.rows \subseteq Drama /\ \A d \in DOMAIN sheet.rows : sheet.rows[d] \subseteq Group
  /\ viewDispatch \in [Rev -> {"none", "due", "sent"}]
  /\ viewWire \subseteq Rev
  /\ name \in [Drama -> Drama] /\ mishaps \in 0 .. MaxTroubles

ViewInit ==
  /\ \E has \in Contents : plan = [revision |-> 1, ready |-> TRUE, has |-> has]
  /\ view = [r \in Rev |-> "none"] /\ sheet = Blank
  /\ viewDispatch = [r \in Rev |-> "none"] /\ viewWire = {}
  /\ name \in {f \in [Drama -> Drama] : \A d \in Drama : f[d] <= d} /\ mishaps = 0

-----------------------------------------------------------------------------
(* The draft.                                                              *)

\* Mutant: previews of old revisions stay.
Obsoleted_Never == view
\* The trigger draft_preview_revision, in the transaction that makes a revision.
Obsoleted == [r \in Rev |-> IF view[r] \in {"BUILDING", "FROZEN"} THEN "OBSOLETE" ELSE view[r]]

NewRevision(ready) ==
  /\ plan.revision < LastRevision
  /\ \E has \in Contents : plan' = [revision |-> plan.revision + 1, ready |-> ready, has |-> has]
  /\ view' = Obsoleted /\ sheet' = Blank
  /\ UNCHANGED <<viewDispatch, viewWire, name, mishaps>>

PreparationEnds ==
  /\ ~plan.ready /\ plan' = [plan EXCEPT !.ready = TRUE]
  /\ UNCHANGED <<view, sheet, viewDispatch, viewWire, name, mishaps>>

GeneratePreview ==
  /\ plan.ready /\ view[plan.revision] = "none"
  /\ view' = [view EXCEPT ![plan.revision] = "BUILDING"] /\ sheet' = Blank
  /\ viewDispatch' = [viewDispatch EXCEPT ![plan.revision] = "due"]
  /\ UNCHANGED <<plan, viewWire, name, mishaps>>

-----------------------------------------------------------------------------
(* The steps of a delivery: what is done next, from the progress p alone.  *)

Least(S) == CHOOSE x \in S : \A y \in S : x <= y
Beyond(S, n) == {x \in S : x > n}

InputStep(p) ==
  LET lines == IF p.kind = "drama" THEN Dramas ELSE Accounts IN
    IF p.after < lines
    THEN [p EXCEPT !.after = IF p.after + DraftPage < lines THEN p.after + DraftPage ELSE lines]
    ELSE IF p.kind = "drama" THEN [p EXCEPT !.kind = "account", !.after = 0]
    ELSE [p EXCEPT !.phase = "dramas", !.after = 0]

\* A drama is frozen, then its groups one by one (with the materials of each).
DramaStep(p) ==
  LET dramas == plan.has.dramas
      d      == p.drama
  IN IF d = 0
     THEN IF Beyond(DOMAIN dramas, p.last) = {}
          THEN [p EXCEPT !.phase = "units", !.last = 0]
          ELSE LET e == Least(Beyond(DOMAIN dramas, p.last)) IN
                 [p EXCEPT !.drama = e, !.group = 0,
                           !.rows = [x \in DOMAIN @ \cup {e} |-> IF x = e THEN {} ELSE @[x]]]
     ELSE IF Beyond(dramas[d], p.group) = {}
          THEN [p EXCEPT !.drama = 0, !.last = d, !.group = 0]
          ELSE LET g == Least(Beyond(dramas[d], p.group)) IN
                 [p EXCEPT !.group = g, !.rows[d] = @ \cup {g}]

\* Units of the account with the same name of campaign.
Namesakes(p, d, a) ==
  {x \in Cell : x[2] = a /\ p.units[x].ready # "none" /\ name[x[1]] = name[d]}

\* Mutant: only the unit that comes second is blocked.
Blocked_Second(p, d, a) == {}
Blocked(p, d, a) == Namesakes(p, d, a)

\* A unit is made, blocked where its account cannot be used now (bad), or where
\* another unit of the account has its name, which is blocked too.
MakeUnit(p, d, a, bad) ==
  [p EXCEPT !.unit = TRUE, !.account = a, !.group = 0,
            !.units = [x \in Cell |->
              IF x = <<d, a>>
              THEN [NoUnit EXCEPT !.ready = IF a \in bad \/ Namesakes(p, d, a) # {}
                                            THEN "BLOCKED" ELSE "READY"]
              ELSE IF x \in Blocked(p, d, a) THEN [@[x] EXCEPT !.ready = "BLOCKED"]
              ELSE @[x]]]

\* A unit gets its groups one by one, and is blocked by one that cannot be used;
\* without any it is blocked.  PREPARING counts as READY.
UnitStep(p, bad) ==
  LET d    == p.drama
      cell == <<d, p.account>>
      u    == p.units[cell]
      left == Beyond(p.rows[d], p.group)
      more == Beyond(plan.has.accounts, p.account)
  IN CASE d = 0 /\ Beyond(DOMAIN p.rows, p.last) = {} -> [p EXCEPT !.phase = "digest", !.last = 0]
       [] d = 0 /\ Beyond(DOMAIN p.rows, p.last) # {} ->
            [p EXCEPT !.drama = Least(Beyond(DOMAIN p.rows, p.last)), !.account = 0]
       [] d # 0 /\ ~p.unit /\ more = {} -> [p EXCEPT !.drama = 0, !.last = d, !.account = 0]
       [] d # 0 /\ ~p.unit /\ more # {} -> MakeUnit(p, d, Least(more), bad)
       [] d # 0 /\ p.unit /\ left # {} ->
            [p EXCEPT !.group = Least(left),
                      !.units[cell] = [u EXCEPT
                        !.groups = u.groups \cup {Least(left)},
                        !.ready = IF p.account \in bad THEN "BLOCKED" ELSE u.ready]]
       [] d # 0 /\ p.unit /\ left = {} ->
            [p EXCEPT !.unit = FALSE, !.group = 0,
                      !.units[cell] = [u EXCEPT
                        !.complete = TRUE, !.ready = IF u.groups = {} THEN "BLOCKED" ELSE u.ready]]

Undigested(p) == {x \in Cell : p.units[x].ready # "none" /\ \A y \in p.digest : y[1] # x}

DigestStep(p) ==
  IF Undigested(p) = {} THEN p
  ELSE LET cell == CHOOSE y \in Undigested(p) : TRUE IN
         [p EXCEPT !.digest = @ \cup {<<cell, p.units[cell].ready>>}]

\* The preview is complete: the next step freezes it.
Whole(p) == p.phase = "digest" /\ Undigested(p) = {}

StepOf(p, bad) ==
  CASE p.phase = "inputs" -> InputStep(p)
    [] p.phase = "dramas" -> DramaStep(p)
    [] p.phase = "units"  -> UnitStep(p, bad)
    [] p.phase = "digest" -> DigestStep(p)

-----------------------------------------------------------------------------
(* Deliveries: process_preview and continue_preview.                       *)

Mishap == mishaps < MaxTroubles /\ mishaps' = mishaps + 1

ViewTaken(r) == viewWire' = viewWire \ {r} /\ UNCHANGED <<viewDispatch, mishaps>>

Continues(r) ==
  /\ viewWire' = viewWire \ {r} /\ viewDispatch' = [viewDispatch EXCEPT ![r] = "due"]
  /\ UNCHANGED mishaps

\* A number of steps is taken, in one transaction.
ContinuePreview(r) ==
  /\ r \in viewWire /\ view[r] = "BUILDING"
  /\ \E n \in 1 .. Steps, bad \in SUBSET plan.has.accounts :
       LET after[i \in 0 .. n] == IF i = 0 THEN sheet ELSE StepOf(after[i - 1], bad)
       IN /\ sheet' = after[n]
          /\ IF Whole(after[n - 1])
             THEN view' = [view EXCEPT ![r] = "FROZEN"] /\ ViewTaken(r)
             ELSE UNCHANGED view /\ Continues(r)
  /\ UNCHANGED <<plan, name>>

\* An error of a step rolls all steps of the delivery back.
PreviewFails(r) ==
  /\ r \in viewWire /\ view[r] = "BUILDING"
  /\ view' = [view EXCEPT ![r] = "FAILED"] /\ ViewTaken(r)
  /\ UNCHANGED <<plan, sheet, name>>

\* Too late: the trigger has made it OBSOLETE, or it is frozen or failed.
PreviewOver(r) ==
  /\ r \in viewWire /\ view[r] # "BUILDING"
  /\ ViewTaken(r) /\ UNCHANGED <<plan, view, sheet, name>>

PublishView(r) ==
  /\ viewDispatch[r] = "due" /\ viewDispatch' = [viewDispatch EXCEPT ![r] = "sent"]
  /\ viewWire' = viewWire \cup {r}
  /\ UNCHANGED <<plan, view, sheet, name, mishaps>>

LoseView(r) ==
  /\ r \in viewWire /\ Mishap /\ viewWire' = viewWire \ {r}
  /\ UNCHANGED <<plan, view, sheet, viewDispatch, name>>

\* Mutant: the repair forgets previews whose message was published.
Repairable_Due(r) == viewDispatch[r] = "due"
Repairable(r) == viewDispatch[r] = "sent"

RepairView(r) ==
  /\ view[r] = "BUILDING" /\ Repairable(r)
  /\ viewDispatch' = [viewDispatch EXCEPT ![r] = "due"]
  /\ UNCHANGED <<plan, view, sheet, viewWire, name, mishaps>>

ViewNext ==
  \/ NewRevision(TRUE) \/ NewRevision(FALSE) \/ PreparationEnds \/ GeneratePreview
  \/ \E r \in Rev : \/ ContinuePreview(r) \/ PreviewFails(r) \/ PreviewOver(r)
                     \/ PublishView(r) \/ RepairView(r) \/ LoseView(r)

ViewSpec == ViewInit /\ [][ViewNext]_viewVars

ViewFairness ==
  /\ WF_viewVars(\E r \in Rev : PublishView(r) \/ RepairView(r))
  /\ WF_viewVars(\E r \in Rev : ContinuePreview(r))

-----------------------------------------------------------------------------
(* What must hold.                                                         *)

\* What can still be submitted is a preview of the draft as it is.
OnlyCurrent == \A r \in Rev : view[r] \in {"BUILDING", "FROZEN"} => r = plan.revision

\* A frozen preview has every drama of the draft with its groups, a complete unit for
\* every drama and account, and nothing else; its digest covers the units as they are
\* stored, though a later unit may have blocked an earlier one.
FrozenIsWhole ==
  view[plan.revision] = "FROZEN" =>
    /\ sheet.rows = plan.has.dramas
    /\ \A x \in Cell :
         IF x[1] \in DOMAIN sheet.rows /\ x[2] \in plan.has.accounts
         THEN /\ sheet.units[x].complete /\ sheet.units[x].groups = sheet.rows[x[1]]
              /\ sheet.units[x].groups = {} => sheet.units[x].ready = "BLOCKED"
         ELSE sheet.units[x] = NoUnit
    /\ sheet.digest = {<<x, sheet.units[x].ready>> : x \in {y \in Cell : sheet.units[y].complete}}

\* Of campaigns that have one name none is built on an account, the first no more than
\* those that were found to collide with it (comment at previews.py:562).
NamesAreUnique ==
  \A x, y \in Cell :
    /\ x # y /\ x[2] = y[2] /\ name[x[1]] = name[y[1]]
    /\ sheet.units[x].ready # "none" /\ sheet.units[y].ready # "none"
    => sheet.units[x].ready = "BLOCKED"

ViewSafe == ViewTypeOK /\ OnlyCurrent /\ FrozenIsWhole /\ NamesAreUnique

\* A preview is frozen, fails, or is overtaken by an edit.
PreviewEnds == \A r \in Rev : view[r] = "BUILDING" ~> view[r] # "BUILDING"
=============================================================================

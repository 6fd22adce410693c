------------------------------ MODULE DraftPrep ------------------------------
(***************************************************************************)
(* A draft and its preparations.  An operator edits the draft, and every   *)
(* edit makes a new revision; a preparation of a revision finds, page by   *)
(* page, its accounts, the links of its dramas, their materials and what   *)
(* the accounts may promote (their scenes), one delivery and transaction   *)
(* each, under the lock of the draft.  It waits for jobs of others by      *)
(* being delivered again.                                                  *)
(*                                                                         *)
(* Lines of input are numbers, dramas are known by their line and groups   *)
(* of materials by their number.  Left out: messages of a generation that  *)
(* has passed, which do nothing; lines that are empty, repeated or         *)
(* ambiguous; requests that repeat an edit (mutations.py); rows of other   *)
(* tenants; the choice of the connection.                                  *)
(***************************************************************************)
EXTENDS Naturals, FiniteSets

CONSTANTS Dramas, Accounts,  \* lines of input of each kind
          Groups,            \* groups of materials that a drama may have
          DraftPage,         \* PAGE_SIZE (100)
          LastRevision,      \* bound: revisions of the draft
          MaxTroubles        \* bound: messages lost, evidence that expires

ASSUME DraftOK ==
  /\ Dramas \in Nat /\ Accounts \in Nat /\ Groups \in Nat
  /\ DraftPage \in Nat \ {0} /\ LastRevision \in Nat \ {0} /\ MaxTroubles \in Nat

Drama   == 1 .. Dramas
Account == 1 .. Accounts
Group   == 1 .. Groups
Rev     == 1 .. LastRevision

VARIABLES
  \* build_draft and its rows
  draft,       \* revision and status
  line,        \* draft_input of kind drama: its status
  manual,      \* and whether its link was given by hand
  material,    \* draft_drama.material_state, "none": no row
  groups,      \* draft_group_material
  accounts,    \* draft_account
  prep,        \* draft_preparation: its status, by revision
  progress,    \* of the last preparation, until the draft changes: where it is, and
               \* its dependencies
  \* messages
  prepDispatch,\* the row of a preparation's current generation
  prepWire,    \* revisions with a published message of that generation
  \* the jobs it waits for
  roles,       \* evidence of the accounts' roles (capability_job)
  link,        \* the provider's answer for a line (link_preparation_item)
  sceneEnded,  \* accounts whose scene job is not under way
  troubles

draftRows == <<draft, line, manual, material, groups, accounts>>
outside   == <<roles, link, sceneEnded>>
prepRows  == <<prep, progress>>
prepVars  == <<draftRows, prepRows, prepDispatch, prepWire, outside, troubles>>

Beginning == [phase |-> "accounts", account |-> 0, cursor |-> 0,
              pendingLinks |-> FALSE, dep |-> "none", queued |-> FALSE, at |-> 0,
              scene |-> [a \in Account |-> "none"]]

Dependency == {"none", "PENDING", "COMPLETE", "BLOCKED"}

PrepTypeOK ==
  /\ draft \in [revision : Rev, status : {"DRAFT", "PREPARING", "READY", "BLOCKED"}]
  /\ line \in [Drama -> {"pending", "ready", "failed"}] /\ manual \subseteq Drama
  /\ material \in [Drama -> {"none", "pending", "matching", "ready", "manual"}]
  /\ groups \in [Drama -> SUBSET Group] /\ accounts \subseteq Account
  /\ prep \in [Rev -> {"none", "PENDING", "READY", "BLOCKED", "OBSOLETE"}]
  /\ progress \in [phase : {"accounts", "links", "materials"}, account : 0 .. Accounts,
                   cursor : 0 .. Dramas, pendingLinks : BOOLEAN, dep : Dependency,
                   queued : BOOLEAN, at : 0 .. Accounts, scene : [Account -> Dependency]]
  /\ prepDispatch \in [Rev -> {"none", "due", "sent"}]
  /\ prepWire \subseteq Rev
  /\ roles \in {"none", "running", "granted", "denied", "stale"}
  /\ link \in [Drama -> {"pending", "ready", "failed"}]
  /\ sceneEnded \subseteq Account
  /\ troubles \in 0 .. MaxTroubles

PrepInit ==
  /\ draft = [revision |-> 1, status |-> "DRAFT"]
  /\ line = [d \in Drama |-> "pending"] /\ manual = {}
  /\ material = [d \in Drama |-> "none"] /\ groups = [d \in Drama |-> {}] /\ accounts = {}
  /\ prep = [r \in Rev |-> "none"] /\ progress = Beginning
  /\ prepDispatch = [r \in Rev |-> "none"] /\ prepWire = {}
  /\ roles = "none" /\ link = [d \in Drama |-> "pending"] /\ sceneEnded = Account
  /\ troubles = 0

-----------------------------------------------------------------------------
(* Messages.                                                               *)

Trouble == troubles < MaxTroubles /\ troubles' = troubles + 1

PublishPrep(r) ==
  /\ prepDispatch[r] = "due"
  /\ prepDispatch' = [prepDispatch EXCEPT ![r] = "sent"]
  /\ prepWire' = prepWire \cup {r}
  /\ UNCHANGED <<draftRows, prepRows, outside, troubles>>

LosePrep(r) ==
  /\ r \in prepWire /\ Trouble /\ prepWire' = prepWire \ {r}
  /\ UNCHANGED <<draftRows, prepRows, prepDispatch, outside>>

\* A delivery ends, perhaps with a message of the next generation.
Taken(r) == prepWire' = prepWire \ {r} /\ UNCHANGED <<prepDispatch, troubles>>

QueuedAfter(r) ==
  /\ prepWire' = prepWire \ {r} /\ prepDispatch' = [prepDispatch EXCEPT ![r] = "due"]
  /\ UNCHANGED troubles

-----------------------------------------------------------------------------
(* Edits: each holds the lock of the draft and is refused unless it names  *)
(* the current revision.                                                   *)

Bumped(status) ==
  /\ draft.revision < LastRevision
  /\ draft' = [revision |-> draft.revision + 1, status |-> status]

UpdateDraft ==
  /\ Bumped("DRAFT")
  /\ line' = [d \in Drama |-> "pending"] /\ manual' \in {{}, manual}
  /\ material' = [d \in Drama |-> "none"] /\ groups' = [d \in Drama |-> {}] /\ accounts' = {}
  /\ link' = [d \in Drama |-> "pending"] /\ progress' = Beginning
  /\ UNCHANGED <<prep, prepDispatch, prepWire, roles, sceneEnded, troubles>>

\* Mutant: the edit makes no new revision.
Regrouped_InPlace == UNCHANGED draft
Regrouped == Bumped("READY")

EditMaterialGroups(d) ==
  /\ draft.status = "READY" /\ material[d] \in {"ready", "manual"}
  /\ Regrouped
  /\ \E gs \in SUBSET Group : groups' = [groups EXCEPT ![d] = gs]
  /\ material' = [material EXCEPT ![d] = "manual"]
  /\ UNCHANGED <<line, manual, accounts, prepRows, prepDispatch, prepWire, outside, troubles>>

SaveManualLink(d) ==
  /\ draft.status # "PREPARING" /\ Bumped("DRAFT")
  /\ manual' = manual \cup {d} /\ line' = [line EXCEPT ![d] = "pending"]
  /\ material' = [material EXCEPT ![d] = "none"] /\ groups' = [groups EXCEPT ![d] = {}]
  /\ progress' = Beginning
  /\ UNCHANGED <<accounts, prep, prepDispatch, prepWire, outside, troubles>>

-----------------------------------------------------------------------------
(* A preparation begins.                                                   *)

\* _enqueue_draft_preparation, at the revision that the draft has then.
Begins(phase) ==
  /\ prep' = [prep EXCEPT ![draft'.revision] = "PENDING"]
  /\ progress' = [Beginning EXCEPT !.phase = phase]
  /\ prepDispatch' = [prepDispatch EXCEPT ![draft'.revision] = "due"]

\* A draft that changed since it was prepared last keeps its revision.
Fresh == prep[draft.revision] = "none" /\ draft.status = "DRAFT"

\* Accounts are found anew, and the groups of the dramas that nobody edited;
\* links given by hand are taken at once (materialize).
PrepareDraft ==
  /\ prep[draft.revision] # "PENDING"
  /\ IF Fresh THEN draft' = [draft EXCEPT !.status = "PREPARING"] ELSE Bumped("PREPARING")
  /\ accounts' = {}
  /\ groups' = [d \in Drama |-> IF material[d] = "manual" THEN groups[d] ELSE {}]
  /\ material' = [d \in Drama |-> IF material[d] = "manual" THEN "manual"
                                  ELSE IF material[d] # "none" \/ d \in manual THEN "pending"
                                  ELSE "none"]
  /\ line' = [d \in Drama |-> IF d \in manual THEN "ready" ELSE line[d]]
  /\ Begins("accounts")
  /\ UNCHANGED <<manual, prepWire, outside, troubles>>

\* choose_mini and prepare_selected_mini: only the scenes are read again.
ChooseMini ==
  /\ draft.status = "READY" /\ accounts # {} /\ \E d \in Drama : material[d] # "none"
  /\ Bumped("PREPARING") /\ Begins("materials")
  /\ UNCHANGED <<line, manual, material, groups, accounts, prepWire, outside, troubles>>

-----------------------------------------------------------------------------
(* A delivery of a preparation: process_preparation and continue_draft.    *)

\* What a page makes of the preparation.
Becomes(r, p) == progress' = p /\ UNCHANGED prep /\ QueuedAfter(r)

EndsAs(r, status) == prep' = [prep EXCEPT ![r] = status] /\ Taken(r)

Stays == UNCHANGED draft

Outdated(r) == r # draft.revision

\* The delivery of a preparation that is still the draft's.
Active(r) == r \in prepWire /\ prep[r] = "PENDING" /\ ~Outdated(r)

PrepOver(r) ==
  /\ r \in prepWire /\ (prep[r] # "PENDING" \/ Outdated(r))
  /\ prep' = IF prep[r] = "PENDING" THEN [prep EXCEPT ![r] = "OBSOLETE"] ELSE prep
  /\ Taken(r) /\ UNCHANGED <<draftRows, progress, outside>>

\* The page could not be taken, its effects are rolled back.
PrepFails(r) ==
  /\ Active(r) /\ EndsAs(r, "BLOCKED") /\ UNCHANGED progress
  /\ draft' = [draft EXCEPT !.status = "BLOCKED"]
  /\ UNCHANGED <<line, manual, material, groups, accounts, outside>>

\* start_capability_refresh: complete evidence and a job under way are shared.
Asked == IF roles \in {"granted", "denied", "running"} THEN roles ELSE "running"

\* The state of the dependency after _capabilities_page, given the job's.
DepOf(evidence) == CASE evidence = "granted" -> "COMPLETE"
                     [] evidence = "denied"  -> "BLOCKED"
                     [] OTHER                -> "PENDING"

\* The evidence has expired that the dependency was settled with.
Unproved(dep) == dep = "COMPLETE" /\ roles \notin {"granted", "denied"}

\* _accounts_page, once the dependency is settled: a page is stored as a
\* whole, or, when the evidence of its accounts has expired since, not at all.
AccountRows(p, dep, r) ==
  LET rows == {a \in Account : a > p.account /\ a <= p.account + DraftPage} IN
    \/ /\ rows = {} /\ UNCHANGED <<accounts, roles>>
       /\ Becomes(r, [p EXCEPT !.dep = dep, !.phase = "links"])
    \/ \E matched \in SUBSET rows :
         /\ rows # {} /\ ~(matched # {} /\ Unproved(dep))
         /\ accounts' = accounts \cup (IF roles = "granted" THEN matched ELSE {})
         /\ UNCHANGED roles
         /\ Becomes(r, [p EXCEPT !.dep = dep,
                                 !.account = CHOOSE a \in rows : \A b \in rows : b <= a])
    \/ /\ rows # {} /\ Unproved(dep) /\ roles' = Asked
       /\ UNCHANGED accounts /\ Becomes(r, [p EXCEPT !.dep = "PENDING"])

AccountsPage(r) ==
  LET p   == progress
      dep == IF p.dep \in {"COMPLETE", "BLOCKED"} THEN p.dep ELSE DepOf(Asked)
  IN /\ Active(r) /\ p.phase = "accounts"
     /\ \/ /\ dep = "PENDING" /\ roles' = Asked /\ UNCHANGED accounts
           /\ Becomes(r, [p EXCEPT !.dep = "PENDING"])
        \/ dep # "PENDING" /\ AccountRows(p, dep, r)
     /\ Stays /\ UNCHANGED <<line, manual, material, groups, link, sceneEnded>>

\* Mutant: a line that the provider still works on is not looked at again.
StillPending_Never(rows) == FALSE
StillPending(rows) == \E d \in rows : link[d] = "pending"

LinksPage(r) ==
  LET p    == progress
      rows == {d \in Drama \ manual : d > p.cursor /\ d <= p.cursor + DraftPage}
      last == p.cursor + DraftPage >= Dramas \/ Drama = manual
  IN /\ Active(r) /\ p.phase = "links"
     /\ line' = [d \in Drama |-> IF d \in rows THEN link[d] ELSE line[d]]
     /\ material' = [d \in Drama |-> IF d \in rows /\ link[d] = "ready" /\ material[d] = "none"
                                     THEN "pending" ELSE material[d]]
     /\ Becomes(r, [p EXCEPT !.pendingLinks = @ \/ StillPending(rows),
                             !.cursor = IF last THEN 0 ELSE p.cursor + DraftPage,
                             !.phase = IF last THEN "materials" ELSE "links"])
     /\ Stays /\ UNCHANGED <<manual, groups, accounts, outside>>

Unmatched == {d \in Drama : material[d] \in {"pending", "matching"}}

\* One page of the materials of the first drama that has not got them all.
MaterialsPage(r) ==
  /\ Active(r) /\ progress.phase = "materials" /\ Unmatched # {}
  /\ LET d == CHOOSE e \in Unmatched : \A f \in Unmatched : e <= f IN
       /\ \E gs \in SUBSET Group : groups' = [groups EXCEPT ![d] = @ \cup gs]
       /\ \E state \in {"matching", "ready"} :
            /\ material[d] = "matching" => state = "ready"
            /\ material' = [material EXCEPT ![d] = state]
  /\ Becomes(r, progress) /\ Stays
  /\ UNCHANGED <<line, manual, accounts, outside>>

LinksAgain(r) ==
  /\ Active(r) /\ progress.phase = "materials" /\ Unmatched = {}
  /\ progress.pendingLinks
  /\ Becomes(r, [progress EXCEPT !.pendingLinks = FALSE, !.phase = "links"]) /\ Stays
  /\ UNCHANGED <<line, manual, material, groups, accounts, outside>>

\* What ensure_scene_preparation finds or begins for an account; a job that went
\* stale and is begun anew is one that has not ended.
SceneAnswer == {"COMPLETE", "PENDING", "BLOCKED"}

\* Mutant: the accounts of a full page are not waited for.
Waits_LastPage(p) == p.queued /\ p.at = Accounts /\ p.scene[Accounts] = "PENDING"
Waits(p) == \E a \in Account : p.scene[a] = "PENDING"

\* _scenes_page: ensures a page of accounts; then looks at the dependencies whose
\* job has ended, where the evidence of the roles may have to be renewed first.
ScenesPage(r) ==
  LET p     == progress
      rows  == {a \in accounts : a > p.at /\ Cardinality({b \in accounts : b > p.at /\ b <= a})
                                             <= DraftPage}
      all   == p.queued \/ Cardinality(rows) < DraftPage
      ended == {a \in Account : p.scene[a] = "PENDING"} \cap sceneEnded
  IN /\ Active(r) /\ p.phase = "materials" /\ Unmatched = {} /\ ~p.pendingLinks
     /\ \E d \in Drama : groups[d] # {}
     /\ \E answer \in [Account -> SceneAnswer] :
          LET fresh == IF p.queued THEN {} ELSE rows
              asked == fresh \cup (IF all THEN ended ELSE {})
              scene == [a \in Account |-> IF a \in asked THEN answer[a] ELSE p.scene[a]]
              next  == [p EXCEPT !.queued = all, !.scene = scene,
                                 !.at = IF ~p.queued /\ rows # {}
                                        THEN CHOOSE a \in rows : \A b \in rows : b <= a ELSE @]
              ready == all /\ ~Waits(next)
          IN /\ \A a \in Account \ asked : answer[a] = "COMPLETE"
             /\ sceneEnded' = sceneEnded \ {a \in fresh : answer[a] = "PENDING"}
             /\ IF \A a \in ended : answer[a] # "PENDING" THEN UNCHANGED roles
                ELSE Unproved("COMPLETE") /\ roles' = Asked
             /\ IF ready THEN EndsAs(r, "READY") /\ progress' = next ELSE Becomes(r, next)
             /\ draft' = IF ready THEN [draft EXCEPT !.status = "READY"] ELSE draft
  /\ UNCHANGED <<line, manual, material, groups, accounts, link>>

\* No drama has a material: there is nothing to read.
NoScenes(r) ==
  /\ Active(r) /\ progress.phase = "materials" /\ Unmatched = {}
  /\ ~progress.pendingLinks /\ \A d \in Drama : groups[d] = {}
  /\ EndsAs(r, "READY") /\ UNCHANGED progress
  /\ draft' = [draft EXCEPT !.status = "READY"]
  /\ UNCHANGED <<line, manual, material, groups, accounts, outside>>

\* Mutant: only rows that wait are published.
PrepRepublished_Due(r) == prepDispatch[r] = "due"
PrepRepublished(r) == prepDispatch[r] = "sent"

\* repair_preparations: the row is published once more.
RepairPrep(r) ==
  /\ prep[r] = "PENDING" /\ PrepRepublished(r)
  /\ prepDispatch' = [prepDispatch EXCEPT ![r] = "due"]
  /\ UNCHANGED <<draftRows, prepRows, prepWire, outside, troubles>>

-----------------------------------------------------------------------------
(* The jobs that a preparation waits for.  What they do while it does not  *)
(* look at them is the same as if they did it when it looks next.          *)

Preparing == draft.status = "PREPARING"
Looks(phase) ==
  Preparing /\ progress.phase = phase /\ (phase = "materials" => Unmatched = {})

RolesEnd ==
  /\ Looks("accounts") \/ Looks("materials")
  /\ roles = "running"
  /\ \/ roles' \in {"granted", "denied"} /\ UNCHANGED troubles
     \/ roles' = "stale" /\ Trouble
  /\ UNCHANGED <<draftRows, prepRows, prepDispatch, prepWire, link, sceneEnded>>

RolesExpire ==
  /\ Looks("accounts") \/ Looks("materials")
  /\ roles \in {"granted", "denied"} /\ roles' = "none" /\ Trouble
  /\ UNCHANGED <<draftRows, prepRows, prepDispatch, prepWire, link, sceneEnded>>

LinkEnds(d) ==
  /\ Preparing /\ progress.phase # "accounts" /\ link[d] = "pending"
  /\ \E answer \in {"ready", "failed"} : link' = [link EXCEPT ![d] = answer]
  /\ UNCHANGED <<draftRows, prepRows, prepDispatch, prepWire, roles, sceneEnded, troubles>>

SceneEnds(a) ==
  /\ Looks("materials") /\ a \notin sceneEnded /\ sceneEnded' = sceneEnded \cup {a}
  /\ UNCHANGED <<draftRows, prepRows, prepDispatch, prepWire, roles, link, troubles>>

-----------------------------------------------------------------------------
Edit ==
  \/ UpdateDraft \/ PrepareDraft \/ ChooseMini
  \/ \E d \in Drama : EditMaterialGroups(d) \/ SaveManualLink(d)

\* A delivery does one of these, or is too late.
Prepare(r) ==
  \/ AccountsPage(r) \/ LinksPage(r) \/ MaterialsPage(r) \/ LinksAgain(r)
  \/ ScenesPage(r) \/ NoScenes(r)

JobsEnd == RolesEnd \/ (\E d \in Drama : LinkEnds(d)) \/ (\E a \in Account : SceneEnds(a))

PrepNext ==
  \/ Edit \/ JobsEnd \/ RolesExpire
  \/ \E r \in Rev : \/ Prepare(r) \/ PrepOver(r) \/ PrepFails(r)
                     \/ RepairPrep(r) \/ PublishPrep(r) \/ LosePrep(r)

PrepSpec == PrepInit /\ [][PrepNext]_prepVars

PrepFairness ==
  /\ WF_prepVars(JobsEnd)
  /\ WF_prepVars(\E r \in Rev : RepairPrep(r) \/ PublishPrep(r))
  /\ WF_prepVars(\E r \in Rev : Prepare(r) \/ PrepOver(r))

-----------------------------------------------------------------------------
(* What must hold.                                                         *)

\* A draft that is being prepared has a preparation under way, and a message of it
\* waits, travels, or will be published again.
PreparingIsWatched ==
  Preparing => /\ prep[draft.revision] = "PENDING"
               /\ prepDispatch[draft.revision] # "none"

\* Only the draft's own revision makes it READY, and nothing of it is missing then: every
\* line was answered, every drama has its materials, every account its scenes.
ReadyIsComplete ==
  draft.status = "READY" =>
    /\ \A d \in Drama : line[d] # "pending" /\ (line[d] = "ready" => material[d] # "none")
    /\ Unmatched = {}
    /\ \A a \in Account : progress.scene[a] # "PENDING"

\* One preparation at most is under way for the draft as it is; the others stop at their
\* next delivery.
OnePreparation ==
  \A r \in Rev : prep[r] = "PENDING" => r <= draft.revision /\ (r = draft.revision => Preparing)

DraftSafe == PrepTypeOK /\ PreparingIsWatched /\ ReadyIsComplete /\ OnePreparation

\* What a READY draft consists of does not change under its revision: a preview that is
\* made of it over several deliveries is made of one and the same draft (previews.py
\* compares the revision only).
ReadyIsFixed ==
  [][draft.status = "READY" /\ draft'.revision = draft.revision => UNCHANGED draftRows]_draftRows

\* A preparation does not go on for ever.
PrepEnds == \A r \in Rev : prep[r] = "PENDING" ~> prep[r] # "PENDING"
=============================================================================

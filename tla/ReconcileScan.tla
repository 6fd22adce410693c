--------------------------- MODULE ReconcileScan ---------------------------
(***************************************************************************)
(* The scan that looks for an object on the platform whose id is not       *)
(* known: the listing is read page by page, each page by a claim of its    *)
(* own, and the object is taken for the step's if it is the only match of  *)
(* a complete scan.  The listing goes on changing between the pages, and a *)
(* page that could not be read is read again, however much later.          *)
(*                                                                         *)
(* Left out: the second stage, which reads the status of the one match,    *)
(* and the fields that are compared; claims and leases are in BuildStep.   *)
(***************************************************************************)
EXTENDS Naturals, Sequences, SequencesExt

CONSTANTS Object,        \* objects the platform may list
          Alike,         \* those with the name of the step's object
          RowsPerPage,
          MaxChanges     \* bound: changes of the listing during one scan

ASSUME ScanOK ==
  /\ IsFiniteSet(Object) /\ Alike \subseteq Object
  /\ RowsPerPage \in Nat \ {0} /\ MaxChanges \in Nat

VARIABLES
  listing,   \* what the platform lists, in its order
  scan,      \* resolved["reconciliation"]: page, total, seen, matches, candidate, done
  result,    \* what the last page of the scan made of it
  evidence,  \* the ids in the scan's READBACK_PAGE evidence
  reply,     \* a page on its way to the claim that asked for it
  \* observation
  steady,    \* listed all through the scan
  changes

scanVars == <<listing, scan, result, evidence, reply, steady, changes>>

Rows == UNION {[1 .. n -> Object] : n \in 0 .. Cardinality(Object)}

ScanTypeOK ==
  /\ listing \in Rows /\ IsInjective(listing)
  /\ scan \in [page : Nat, total : Nat, seen : Nat, matches : 0 .. 2,
               candidate : SUBSET Object, done : BOOLEAN]
  /\ result \in {"MORE", "UNKNOWN", "COMPLETE"}
  /\ evidence \subseteq Object
  /\ reply \in {<<>>} \cup [rows : Rows, total : Nat]
  /\ steady \subseteq Object /\ changes \in 0 .. MaxChanges

NewScan == [page |-> 1, total |-> 0, seen |-> 0, matches |-> 0, candidate |-> {}, done |-> FALSE]

ScanInit ==
  /\ listing \in Rows /\ IsInjective(listing)
  /\ scan = [NewScan EXCEPT !.done = TRUE] /\ result = "UNKNOWN"
  /\ evidence = {} /\ reply = <<>> /\ steady = {} /\ changes = 0

-----------------------------------------------------------------------------
\* _claim: a scan that is done, or none at all, begins anew.
StartScan ==
  /\ scan.done /\ result # "COMPLETE"
  /\ scan' = NewScan /\ result' = "MORE" /\ evidence' = {} /\ reply' = <<>>
  /\ steady' = ToSet(listing) /\ changes' = 0
  /\ UNCHANGED listing

Page(rows, n) == SubSeq(rows, (n - 1) * RowsPerPage + 1,
                        IF n * RowsPerPage < Len(rows) THEN n * RowsPerPage ELSE Len(rows))

\* gateway.builds.read_page, by the claim that will store it or by one that is lost.
ReadRows ==
  /\ ~scan.done
  /\ reply' = [rows |-> Page(listing, scan.page), total |-> Len(listing)]
  /\ UNCHANGED <<listing, scan, result, evidence, steady, changes>>

Pages(total) == (total + RowsPerPage - 1) \div RowsPerPage

\* Mutant: only repeated rows are noticed.
Agrees_Rows == scan.page > 1 => ToSet(reply.rows) \cap evidence = {}

\* A later page agrees with the ones before.
Agrees == scan.page > 1 =>
            ToSet(reply.rows) \cap evidence = {} /\ scan.total = reply.total

\* _finish and advance, for a page that has arrived.
FinishRows ==
  LET alike   == ToSet(reply.rows) \cap Alike
      many    == scan.matches + Cardinality(alike)
      matches == IF many < 2 THEN many ELSE 2
      next    == [scan EXCEPT !.total = reply.total, !.seen = @ + Len(reply.rows),
                              !.matches = matches,
                              !.candidate = IF scan.matches = 0 /\ alike # {}
                                            THEN {CHOOSE o \in alike : TRUE} ELSE @]
  IN
  /\ reply # <<>>
  /\ evidence' = evidence \cup ToSet(reply.rows)
  /\ reply' = <<>>
  /\ IF ~Agrees
     THEN scan' = [scan EXCEPT !.done = TRUE] /\ result' = "UNKNOWN"
     ELSE IF scan.page < Pages(reply.total)
     THEN scan' = [next EXCEPT !.page = @ + 1] /\ result' = "MORE"
     ELSE /\ scan' = [next EXCEPT !.done = TRUE]
          /\ result' = IF next.seen = reply.total /\ matches = 1 THEN "COMPLETE" ELSE "UNKNOWN"
  /\ UNCHANGED <<listing, steady, changes>>

\* Somebody else's objects, or a create whose answer was lost, come and go.
ListingGrows(o) ==
  /\ changes < MaxChanges /\ o \notin ToSet(listing)
  /\ \E i \in 1 .. Len(listing) + 1 : listing' = InsertAt(listing, i, o)
  /\ changes' = changes + 1
  /\ UNCHANGED <<scan, result, evidence, reply, steady>>

ListingShrinks(o) ==
  /\ changes < MaxChanges
  /\ \E i \in 1 .. Len(listing) : listing[i] = o /\ listing' = RemoveAt(listing, i)
  /\ steady' = steady \ {o} /\ changes' = changes + 1
  /\ UNCHANGED <<scan, result, evidence, reply>>

ScanNext ==
  \/ StartScan \/ ReadRows \/ FinishRows
  \/ \E o \in Object : ListingGrows(o) \/ ListingShrinks(o)

ScanSpec == ScanInit /\ [][ScanNext]_scanVars

-----------------------------------------------------------------------------
(* What must hold.                                                         *)

\* A scan that concludes has read every object that was listed from its beginning to its
\* end, and found one of its name, if the listing changed once at most meanwhile:
\* neither a row that moved to a page already read nor one that was read twice gets
\* past the totals and the evidence (advance).
OneChangeIsNoticed ==
  result = "COMPLETE" /\ changes <= 1 =>
    /\ steady \subseteq evidence
    /\ evidence \cap Alike = scan.candidate

ScanSafe == ScanTypeOK /\ OneChangeIsNoticed
=============================================================================

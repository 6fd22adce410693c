---------------------------- MODULE MCBuildStep ----------------------------
(* Instances for TLC of the two machines that send a write at most once,    *)
(* the create step (BuildStep) and the unit of a promotion link             *)
(* (LinkSteps), side by side: one of them is chosen at the beginning and    *)
(* runs, the other rests.  Links run in one of three instances: "links" is  *)
(* of all tasks and lines and one fault; "deliveries" is of one task at a   *)
(* time and MaxCrashes faults; "takeover" is of all tasks and one line.     *)
EXTENDS BuildStep, LinkSteps, TLC

CONSTANTS Components,  \* those that a run chooses from
          Staff        \* bound: the tasks of "deliveries"

VARIABLE component

allVars == <<component, vars, linkVars>>

\* Configurations are interchangeable: one of them is asked for.
FirstIsAsked == LET e == CHOOSE e \in Episode : TRUE IN \E i \in Line : config[i] = e

FirstLine == CHOOSE i \in Line : TRUE
Links == {"links", "deliveries", "takeover"}
Busy == {t \in Task : linkRun'[t].at # "idle"}
LinkBound ==
  \/ component = "links" /\ linkFaults' <= 1
  \/ component = "deliveries" /\ Busy \subseteq Staff /\ Cardinality(Busy) <= 1
  \/ component = "takeover" /\ \A i \in Line \ {FirstLine} : line'[i].status = "none"

AllInit ==
  /\ component \in Components
  /\ Init
  /\ LinkInit /\ FirstIsAsked
  /\ component \in Links \/ (provider = "wangyan" /\ shelf[None] = 0)

AllNext ==
  /\ UNCHANGED component
  /\ \/ component = "step"  /\ Next /\ UNCHANGED linkVars
     \/ component \in Links /\ LinkNext /\ LinkBound /\ UNCHANGED vars

AllSpec == AllInit /\ [][AllNext]_allVars
FairAll == AllSpec /\ Fairness /\ LinkFairness

\* Tasks (claims of the executor), lines and bodies are interchangeable; used by
\* safety runs only.
Symmetry == Permutations(Worker) \cup Permutations(Line) \cup Permutations(Body)
=============================================================================

---------------------------- MODULE CreateOnce ----------------------------
(***************************************************************************)
(* What one creation step of a submission promises to the advertiser,      *)
(* whatever happens to workers, leases, deliveries and answers:            *)
(*   - the platform is asked for the object at most once;                  *)
(*   - a step reported as failed has never asked, and may then be retried; *)
(*   - once it may have asked without knowing the answer, it is "unknown"  *)
(*     and only learning the object's identity can change that;            *)
(*   - a known object stays known.                                         *)
(* BuildStep is shown to implement this specification.                     *)
(***************************************************************************)
VARIABLES asked,    \* TRUE when a create request has reached the platform
          verdict   \* what the step reports

onceVars == <<asked, verdict>>

Verdict == {"open", "failed", "unknown", "known"}

OnceTypeOK == asked \in BOOLEAN /\ verdict \in Verdict

OnceInit == asked = FALSE /\ verdict = "open"

Ask == /\ ~asked
       /\ verdict \in {"open", "unknown"}
       /\ asked' = TRUE
       /\ UNCHANGED verdict

Fail == /\ ~asked
        /\ verdict = "open"
        /\ verdict' = "failed"
        /\ UNCHANGED asked

Retry == /\ verdict = "failed"
         /\ verdict' = "open"
         /\ UNCHANGED asked

Doubt == /\ verdict = "open"
         /\ verdict' = "unknown"
         /\ UNCHANGED asked

Confirm == /\ asked
           /\ verdict # "failed"
           /\ verdict' = "known"
           /\ UNCHANGED asked

OnceNext == Ask \/ Fail \/ Retry \/ Doubt \/ Confirm

OnceSpec == OnceInit /\ [][OnceNext]_onceVars
===========================================================================

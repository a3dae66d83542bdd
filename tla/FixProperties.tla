----------------------------- MODULE FixProperties -----------------------------
(***************************************************************************)
(* What fix verification promises: what holds for clients that wait        *)
(* for a finding's runs to end before they act on it, whatever is retried  *)
(* or interrupted.                                                         *)
(***************************************************************************)
EXTENDS FixVerification

\* The verification run that vouches for the fix now on record: it was about
\* this commit, its source check passed, and a finding ever confirmed at
\* runtime was replayed against it without success.
VouchedBy(f, r) ==
  /\ r \in FixRuns
  /\ verifies[r] = f
  /\ Head[r] = remediation[f].fix
  /\ remediation[f].source = "passed"
  /\ RuntimeConfirmed(f) =>
       \E v \in validations : v.finding = f /\ v.run = r /\ v.verdict = "not_reproduced"

\* determine-verification-outcome.ts: a finding is verified_fixed only when the
\* fix on record passed the source revalidation and, if the finding was ever
\* confirmed at runtime, the exploit failed against the build of that fix.  A
\* client's word is never enough, nor is the verdict on another commit.
FixedIsVouchedFor ==
  \A f \in Findings : findingStatus[f] = "verified_fixed" => \E r \in FixRuns : VouchedBy(f, r)

\* No write of a finding's status is lost: every change, by the review, the
\* client or the verification, is one the finding state machine allows from
\* the status it replaces (submitFix takes two edges at once).
FindingStepsLegal ==
  [][\A f \in Findings : findingStatus'[f] # findingStatus[f] =>
       \/ findingStatus[f] = "absent"
       \/ CanTransitionFinding(findingStatus[f], findingStatus'[f])
       \/ /\ CanTransitionFinding(findingStatus[f], "fix_pending")
          /\ findingStatus'[f] = "fix_submitted"]_allVars

\* A finding that stays at retesting although no job and no call about it is
\* left has one of three causes: the process died before the run's first job
\* was queued; a job of a verification run of it is in the dead letters (a
\* replay without a target, a retry of a stage); or the verification failed
\* operationally, which leaves no job to retry.
RetestingHasACause ==
  \A f \in Findings :
    (/\ findingStatus[f] = "retesting"
     /\ \A r \in FixRuns : verifies[r] = f =>
          r \notin creating /\ \A j \in JobsOf(r) : jobState[j] \notin {"waiting", "active"})
    => \E r \in FixRuns :
         /\ verifies[r] = f
         /\ \/ \A j \in JobsOf(r) : jobState[j] = "none"
            \/ \E j \in JobsOf(r) : jobState[j] = "dead"
            \/ remediation[f].source = "inconclusive"
            \/ \E v \in validations : v.run = r /\ v.finding = f /\ v.verdict = "failed"

\* Only a finding that was confirmed at runtime is replayed: the replay is never
\* sent for a source-only finding, and a runtime-confirmed one is never judged
\* by its source alone.
ReplayedIffConfirmed ==
  \A j \in Jobs :
    /\ (j.type = "run_strix_retest" /\ jobState[j] # "none") => RuntimeConfirmed(j.finding)
    /\ (j.type = "run_deepsec_revalidation" /\ frame[j].at \in {"complete_read", "complete_write"})
         => ~RuntimeConfirmed(j.finding)

=============================================================================

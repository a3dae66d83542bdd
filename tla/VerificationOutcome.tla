-------------------------- MODULE VerificationOutcome --------------------------
(***************************************************************************)
(* determineVerificationOutcome and outcomeToFindingStatus: what the two   *)
(* checks of a fix decide.  A check's verdict is "passed", "failed" or, for *)
(* the code's null, "inconclusive".                                        *)
(***************************************************************************)

CheckVerdicts == {"passed", "failed", "inconclusive"}

VerificationOutcomes ==
  {"verified_fixed", "still_exploitable", "partially_fixed", "inconclusive", "verification_failed"}

\* A fix of a finding that was never confirmed at runtime: the source
\* revalidation is the whole verification.
SourceOutcome(source) ==
  CASE source = "passed"       -> "verified_fixed"
    [] source = "failed"       -> "still_exploitable"
    [] source = "inconclusive" -> "verification_failed"

\* A fix of a runtime-confirmed finding: the source revalidation, the replay
\* of the exploit and the build it was replayed against.
ReplayOutcome(source, replay, buildMatches) ==
  IF source = "inconclusive" THEN "verification_failed"
  ELSE IF ~buildMatches \/ replay = "inconclusive" THEN "inconclusive"
  ELSE IF source # replay THEN "partially_fixed"
  ELSE IF source = "passed" THEN "verified_fixed" ELSE "still_exploitable"

\* The status an outcome moves the finding to; "retesting" is to leave it.
FindingStatusOf(outcome) ==
  CASE outcome \in {"verified_fixed", "still_exploitable"}  -> outcome
    [] outcome \in {"partially_fixed", "inconclusive"}      -> "inconclusive"
    [] outcome = "verification_failed"                      -> "retesting"

=============================================================================

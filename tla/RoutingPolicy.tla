---------------------------- MODULE RoutingPolicy ----------------------------
(***************************************************************************)
(* evaluateRoutingPolicy: the pure decision whether a source-confirmed     *)
(* finding is escalated to runtime validation.  Reasons and policy         *)
(* versions are wording and left out; the cost comparison is the Boolean   *)
(* `affordable`; a category matters only by whether it is one of           *)
(* AUTO_ESCALATE_CATEGORIES.                                               *)
(***************************************************************************)

Severities == {"critical", "high", "medium", "low", "info"}
Confidences == {"high", "medium", "low"}

RoutingInputs ==
  [ severity : Severities, confidence : Confidences, autoCategory : BOOLEAN,
    codeQuality : BOOLEAN, runtimeRequired : BOOLEAN,
    authorized : BOOLEAN, production : BOOLEAN, dynamic : BOOLEAN,
    tested : BOOLEAN, affordable : BOOLEAN ]

\* The hard gates, in the order the code tests them.  Their order only picks
\* the reason shown, so they are a conjunction here.
GatesOpen(i) ==
  /\ i.authorized
  /\ ~i.production
  /\ i.dynamic
  /\ i.severity \notin {"low", "info"}
  /\ ~i.codeQuality
  /\ ~i.tested
  /\ i.affordable

EscalationSignal(i) ==
  \/ i.severity = "critical"
  \/ i.severity = "high" /\ i.confidence = "high"
  \/ i.autoCategory
  \/ i.runtimeRequired

Escalates(i) == GatesOpen(i) /\ EscalationSignal(i)

=============================================================================

------------------------------- MODULE Admission -------------------------------
(***************************************************************************)
(* How security runs are asked for: API requests under an Idempotency-Key, *)
(* GitHub pull_request deliveries under their delivery id, the count that  *)
(* keeps an agent within maxConcurrentRuns, and the run key that makes a   *)
(* request for the same change find the run it already has, whatever else  *)
(* its body asks for.  A step is one query, or a read of rows that only    *)
(* the rest of the world writes with the query after it; what becomes of a *)
(* run is the pipeline's matter.                                           *)
(***************************************************************************)
EXTENDS Naturals, FiniteSets

CONSTANTS
  ApiClients,     \* connections of API clients, each one request at a time
  GithubClients,  \* connections GitHub delivers on
  AgentOf,        \* AgentOf[c]: the agent identity an API client authenticates as
  Keys,           \* Idempotency-Key headers of one organization, POST /v1/security/reviews
  NoKey,          \* a request without the header
  Deliveries,     \* GitHub delivery ids
  Bodies,         \* request bodies: a change, and the target and pull request it names
  NoBody,         \* a delivery makes its request without one
  ChangeIn,       \* ChangeIn[b]: the change of body b, all that its run key takes from it
  Changes,        \* repository, base and head commit, and run type
  NoChange,       \* the event is not tracked, or not of a connected repository
  ChangeOf,       \* ChangeOf[k]: what delivery k is about
  Policies,       \* policy versions the repository may be configured with
  NoRun,
  MaxRuns,        \* permissions.maxConcurrentRuns
  MaxRequests     \* bound: requests made

ASSUME ClientsAssumption ==
  /\ IsFiniteSet(ApiClients) /\ IsFiniteSet(GithubClients)
  /\ ApiClients \cap GithubClients = {}
  /\ {AgentOf[c] : c \in ApiClients} \cap GithubClients = {}
ASSUME ChangeAssumption ==
  /\ ChangeOf \in [Deliveries -> Changes \cup {NoChange}]
  /\ ChangeIn \in [Bodies -> Changes]
ASSUME NoneAssumption ==
  /\ NoKey \notin Keys
  /\ NoChange \notin Changes
  /\ Keys \cap Deliveries = {}
ASSUME MaxRunsAssumption == MaxRuns \in Nat \ {0} /\ MaxRequests \in Nat

Clients == ApiClients \cup GithubClients

\* The run key: change and policy version.  Bodies that differ in the target
\* environment or the pull request number have the same one.
RunKeys == Changes \X Policies

\* The identity of type github is created lazily; whoever creates one names it.
Agents == {AgentOf[c] : c \in ApiClients} \cup GithubClients

ASSUME NoRunAssumption == NoRun \notin Agents \cup RunKeys \cup [body : Bodies, run : RunKeys]

VARIABLES
  policy,         \* RepositoryPolicyConfig.policyVersion
  status,         \* status[r]: "absent", "active" (not in TERMINAL_RUN_STATUSES) or "ended"
  started,        \* runs whose prepare_repository job was queued
  orphaned,       \* history: runs whose request was lost before it queued the job
  owner,          \* SecurityRun.requestedByAgentId, NoRun before the row exists
  records,        \* IdempotencyRecord: the body (its hash) and the run, NoRun before it exists
  delivered,      \* InboundGithubEvent rows
  identities,     \* AgentIdentity rows of type github
  call,           \* the request each client has in progress
  answers,        \* history: successful responses to requests with a key
  requests        \* requests made, at most MaxRequests

runs == <<status, owner, started, orphaned>>
rows == <<policy, runs, records, delivered, identities>>
vars == <<rows, call, answers, requests>>

Labels == {"idle", "begin", "identity", "new_identity", "count", "find", "create", "enqueue", "record"}
NoCall == [at |-> "idle", key |-> NoKey, body |-> NoBody, change |-> NoChange,
           agent |-> NoRun, run |-> NoRun]

Calls ==
  [at : Labels, key : Keys \cup Deliveries \cup {NoKey},
   body : Bodies \cup {NoBody}, change : Changes \cup {NoChange},
   agent : Agents \cup {NoRun}, run : RunKeys \cup {NoRun}]

Init ==
  /\ policy \in Policies
  /\ status = [r \in RunKeys |-> "absent"]
  /\ started = {} /\ orphaned = {}
  /\ owner = [r \in RunKeys |-> NoRun]
  /\ records = [k \in Keys |-> NoRun]
  /\ delivered = {}
  /\ identities = {}
  /\ call = [c \in Clients |-> NoCall]
  /\ answers = {}
  /\ requests = 0

-----------------------------------------------------------------------------
Asks == requests < MaxRequests /\ requests' = requests + 1
Goto(c, label) == call' = [call EXCEPT ![c].at = label]
Ends(c) == call' = [call EXCEPT ![c] = NoCall]

Answer(c, run) ==
  answers' = IF call[c].key \in Keys
               THEN answers \cup {[key |-> call[c].key, body |-> call[c].body, run |-> run]}
               ELSE answers

ApiRequest(c) ==
  /\ c \in ApiClients /\ call[c] = NoCall /\ Asks
  /\ \E k \in Keys \cup {NoKey}, b \in Bodies :
       call' = [call EXCEPT ![c] = [at |-> "begin", key |-> k, body |-> b, change |-> ChangeIn[b],
                                    agent |-> AgentOf[c], run |-> NoRun]]
  /\ UNCHANGED <<rows, answers>>

GithubRequest(c) ==
  /\ c \in GithubClients /\ call[c] = NoCall /\ Asks
  /\ \E k \in Deliveries :
       call' = [call EXCEPT ![c] = [at |-> "begin", key |-> k, body |-> NoBody, change |-> ChangeOf[k],
                                    agent |-> NoRun, run |-> NoRun]]
  /\ UNCHANGED <<rows, answers>>

OnRecord(k) == k \in Keys /\ (k \in Keys => records[k] # NoRun)

\* Broken variant: the request hash is not compared.
LookupKeyOnly(c) ==
  /\ c \in ApiClients /\ call[c].at = "begin"
  /\ IF ~OnRecord(call[c].key)
       THEN Goto(c, "count") /\ UNCHANGED answers
       ELSE Ends(c) /\ Answer(c, records[call[c].key].run)
  /\ UNCHANGED <<rows, requests>>

\* withIdempotency: a key that is on record is answered from the record, unless
\* it was used with another body.
LookupRecord(c) ==
  /\ c \in ApiClients /\ call[c].at = "begin"
  /\ IF ~OnRecord(call[c].key)
       THEN Goto(c, "count") /\ UNCHANGED answers
       ELSE LET record == records[call[c].key] IN
            /\ Ends(c)
            /\ IF record.body = call[c].body THEN Answer(c, record.run) ELSE UNCHANGED answers
  /\ UNCHANGED <<rows, requests>>

\* Broken variant: a delivery is recorded before it is processed.
LookupDeliveryRecords(c) ==
  /\ c \in GithubClients /\ call[c].at = "begin"
  /\ delivered' = delivered \cup {call[c].key}
  /\ IF call[c].key \in delivered \/ call[c].change = NoChange
       THEN Ends(c)
       ELSE Goto(c, "identity")
  /\ UNCHANGED <<policy, runs, records, identities, answers, requests>>

\* processPullRequestEvent: a recorded delivery is skipped; one that asks for
\* nothing is recorded at once.
LookupDelivery(c) ==
  /\ c \in GithubClients /\ call[c].at = "begin"
  /\ CASE call[c].key \in delivered   -> Ends(c)
       [] call[c].change = NoChange   -> Goto(c, "record")
       [] OTHER                       -> Goto(c, "identity")
  /\ UNCHANGED <<rows, answers, requests>>

\* getOrCreateGithubAgentIdentity: findFirst, in no order ...
FindIdentity(c) ==
  /\ call[c].at = "identity"
  /\ IF identities = {}
       THEN Goto(c, "new_identity")
       ELSE \E a \in identities : call' = [call EXCEPT ![c].at = "count", ![c].agent = a]
  /\ UNCHANGED <<rows, answers, requests>>

\* ... and create, with nothing that forbids a second one.
CreateIdentity(c) ==
  /\ call[c].at = "new_identity"
  /\ identities' = identities \cup {c}
  /\ call' = [call EXCEPT ![c].at = "count", ![c].agent = c]
  /\ UNCHANGED <<policy, runs, records, delivered, answers, requests>>

-----------------------------------------------------------------------------
(* createSecurityReview.                                                   *)

ActiveRuns(a) == {r \in RunKeys : status[r] = "active" /\ owner[r] = a}

\* Broken variant: off by one.
CountRunsAtLimit(c) ==
  /\ call[c].at = "count"
  /\ IF Cardinality(ActiveRuns(call[c].agent)) > MaxRuns THEN Ends(c) ELSE Goto(c, "find")
  /\ UNCHANGED <<rows, answers, requests>>

\* The count of the agent's runs that are not terminal; at the limit the
\* request fails, and a delivery is not recorded.
CountRuns(c) ==
  /\ call[c].at = "count"
  /\ IF Cardinality(ActiveRuns(call[c].agent)) >= MaxRuns THEN Ends(c) ELSE Goto(c, "find")
  /\ UNCHANGED <<rows, answers, requests>>

\* The policy is read, the run key computed and looked up; the run may have been
\* made for a body that names another target or pull request.
FindRun(c) ==
  /\ call[c].at = "find"
  /\ LET r == <<call[c].change, policy>> IN
     call' = [call EXCEPT ![c].run = r,
                          ![c].at = IF status[r] = "absent" THEN "create" ELSE "record"]
  /\ UNCHANGED <<rows, answers, requests>>

\* Broken variant: the row does not name who asked for it.
CreateRunUnowned(c) ==
  /\ call[c].at = "create"
  /\ LET r == call[c].run IN
     IF status[r] = "absent"
       THEN status' = [status EXCEPT ![r] = "active"] /\ Goto(c, "enqueue")
       ELSE Ends(c) /\ UNCHANGED status
  /\ UNCHANGED <<policy, owner, started, orphaned, records, delivered, identities, answers, requests>>

\* The insert fails on a key that exists by now.
CreateRun(c) ==
  /\ call[c].at = "create"
  /\ LET r == call[c].run IN
     IF status[r] = "absent"
       THEN /\ status' = [status EXCEPT ![r] = "active"]
            /\ owner' = [owner EXCEPT ![r] = call[c].agent]
            /\ Goto(c, "enqueue")
       ELSE Ends(c) /\ UNCHANGED <<status, owner>>
  /\ UNCHANGED <<policy, started, orphaned, records, delivered, identities, answers, requests>>

\* The run's first job is queued by whoever inserted the row, and by nobody else.
EnqueuePrepare(c) ==
  /\ call[c].at = "enqueue"
  /\ started' = started \cup {call[c].run}
  /\ Goto(c, "record")
  /\ UNCHANGED <<policy, status, owner, orphaned, records, delivered, identities, answers, requests>>

-----------------------------------------------------------------------------
(* The record of the request.                                              *)

\* Broken variant: an upsert, the last writer wins.
RecordAnswerUpsert(c) ==
  /\ c \in ApiClients /\ call[c].at = "record"
  /\ records' = IF call[c].key = NoKey THEN records
                  ELSE [records EXCEPT ![call[c].key] =
                          [body |-> call[c].body, run |-> call[c].run]]
  /\ Answer(c, call[c].run)
  /\ Ends(c)
  /\ UNCHANGED <<policy, runs, delivered, identities, requests>>

\* The insert fails if another request with the key was recorded meanwhile, and
\* with it the request.
RecordAnswer(c) ==
  /\ c \in ApiClients /\ call[c].at = "record"
  /\ LET k == call[c].key IN
     IF k = NoKey THEN Answer(c, call[c].run) /\ UNCHANGED records
     ELSE IF records[k] = NoRun
       THEN /\ records' = [records EXCEPT ![k] = [body |-> call[c].body, run |-> call[c].run]]
            /\ Answer(c, call[c].run)
       ELSE UNCHANGED <<records, answers>>
  /\ Ends(c)
  /\ UNCHANGED <<policy, runs, delivered, identities, requests>>

RecordDelivery(c) ==
  /\ c \in GithubClients /\ call[c].at = "record"
  /\ delivered' = delivered \cup {call[c].key}
  /\ Ends(c)
  /\ UNCHANGED <<policy, runs, records, identities, answers, requests>>

-----------------------------------------------------------------------------
(* The rest of the world.                                                  *)

\* The process stops, or a query fails: the client gets an error, or nothing.
RequestLost(c) ==
  /\ call[c] # NoCall
  /\ Ends(c)
  /\ orphaned' = IF call[c].at = "enqueue" THEN orphaned \cup {call[c].run} ELSE orphaned
  /\ UNCHANGED <<policy, status, owner, started, records, delivered, identities, answers, requests>>

RunEnds(r) ==
  /\ status[r] = "active"
  /\ status' = [status EXCEPT ![r] = "ended"]
  /\ UNCHANGED <<policy, owner, started, orphaned, records, delivered, identities, call, answers, requests>>

PolicyChanges ==
  /\ \E p \in Policies \ {policy} : policy' = p
  /\ UNCHANGED <<runs, records, delivered, identities, call, answers, requests>>

ApiStep(c) == ApiRequest(c) \/ LookupRecord(c) \/ RecordAnswer(c)
GithubStep(c) ==
  GithubRequest(c) \/ LookupDelivery(c) \/ FindIdentity(c) \/ CreateIdentity(c) \/ RecordDelivery(c)
ReviewStep(c) == CountRuns(c) \/ FindRun(c) \/ CreateRun(c) \/ EnqueuePrepare(c)

Next ==
  \/ \E c \in Clients : ApiStep(c) \/ GithubStep(c) \/ ReviewStep(c) \/ RequestLost(c)
  \/ \E r \in RunKeys : RunEnds(r)
  \/ PolicyChanges

Spec == Init /\ [][Next]_vars

-----------------------------------------------------------------------------
(* Properties.                                                             *)

AdmissionTypeOK ==
  /\ policy \in Policies
  /\ status \in [RunKeys -> {"absent", "active", "ended"}]
  /\ owner \in [RunKeys -> Agents \cup {NoRun}]
  /\ \A r \in RunKeys : status[r] = "absent" <=> owner[r] = NoRun
  /\ started \subseteq RunKeys /\ orphaned \subseteq RunKeys
  /\ records \in [Keys -> [body : Bodies, run : RunKeys] \cup {NoRun}]
  /\ delivered \subseteq Deliveries
  /\ identities \subseteq GithubClients
  /\ call \in [Clients -> Calls]
  /\ requests \in 0..MaxRequests
  /\ answers \subseteq [key : Keys, body : Bodies, run : RunKeys]

\* "A repeated call with the same Idempotency-Key returns the original
\* response", also when the policy was changed in between, the first call was
\* cut short or the two overlap.
SameAnswer == \A x, y \in answers : x.key = y.key => x.run = y.run

\* "A repeated key with a different request body is ... rejected rather than
\* silently returning a mismatched response": whatever overlapped or was lost,
\* successful responses under one key were all to the same body.  The run they
\* name is of the body's change, and may have been made for another target.
OneBodyPerKey == \A x, y \in answers : x.key = y.key => x.body = y.body

\* The count and the insert are two queries, so an agent can exceed
\* maxConcurrentRuns, but only by requests that passed the count together.
Actors(a) == IF a \in GithubClients THEN GithubClients ELSE {c \in ApiClients : AgentOf[c] = a}
BudgetBounded ==
  \A a \in Agents : Cardinality(ActiveRuns(a)) <= MaxRuns + Cardinality(Actors(a)) - 1

\* A delivery is on record, and its repetitions are skipped, only when the run
\* it asked for exists and is started, or its inserter is about to start it: a
\* delivery that failed half way is done again.  What a repetition cannot repair
\* is a run whose inserter was lost between the row and the job: the row is
\* found, and nobody queues the job.
Served(r) ==
  /\ status[r] # "absent"
  /\ \/ r \in started \cup orphaned
     \/ \E c \in Clients : call[c].at = "enqueue" /\ call[c].run = r
RecordedDeliveryIsServed ==
  \A k \in delivered : ChangeOf[k] # NoChange => \E p \in Policies : Served(<<ChangeOf[k], p>>)
=============================================================================

---------------------------- MODULE AdmissionSafety ----------------------------
(***************************************************************************)
(* Admission for any clients, keys, bodies, policies and requests: one key *)
(* has one body and one answer; a recorded delivery has its run; the       *)
(* budget is exceeded only by requests that overlap.                       *)
(***************************************************************************)
EXTENDS Admission, FiniteSetTheorems, TLAPS

\* What a request carries at each place, and that the run it is about to queue
\* or to answer with exists and is about the change it asked for.
Fits(c, p) ==
  /\ c \in ApiClients /\ p.at # "idle" =>
       /\ p.key \in Keys \cup {NoKey} /\ p.agent = AgentOf[c]
       /\ p.body \in Bodies /\ p.change \in Changes /\ p.change = ChangeIn[p.body]
  /\ c \in GithubClients /\ p.at # "idle" => p.key \in Deliveries /\ p.change = ChangeOf[p.key]
  /\ p.at \in {"identity", "new_identity"} => c \in GithubClients /\ p.change \in Changes
  /\ p.at \in {"count", "find", "create", "enqueue"} =>
       p.change \in Changes /\ p.agent \in Agents /\ (c \in GithubClients => p.agent \in GithubClients)
  /\ p.at \in {"create", "enqueue", "record"} /\ p.change \in Changes =>
       p.run \in RunKeys /\ p.run[1] = p.change
  /\ p.at \in {"enqueue", "record"} /\ p.change \in Changes => status[p.run] # "absent"

CallsOK == \A c \in Clients : Fits(c, call[c])

\* No run is left without somebody to start it but by a lost request.
RunsServed == \A r \in RunKeys : status[r] # "absent" => Served(r)

\* A record holds the answer to its own request, a run of the change in its
\* body, and answers are the records'.
RecordsOwn == \A k \in Keys : records[k] # NoRun => records[k].run[1] = ChangeIn[records[k].body]
AnswersRecorded ==
  \A x \in answers : /\ records[x.key] # NoRun
                     /\ records[x.key].run = x.run
                     /\ records[x.key].body = x.body

DeliveriesRecorded ==
  \A k \in delivered : ChangeOf[k] # NoChange =>
     \E p \in Policies : status[<<ChangeOf[k], p>>] # "absent"

AdmissionInv ==
  /\ AdmissionTypeOK
  /\ CallsOK
  /\ RunsServed
  /\ RecordsOwn
  /\ AnswersRecorded
  /\ DeliveriesRecorded

-----------------------------------------------------------------------------

\* A request that moves and writes no row keeps the invariant, unless it is the
\* one that owes a run its first job.
LEMMA CallMoves ==
  ASSUME AdmissionInv, NEW c \in Clients, NEW new \in Calls,
         call' = [call EXCEPT ![c] = new], Fits(c, new), call[c].at # "enqueue",
         UNCHANGED <<rows, answers>>, requests' \in 0 .. MaxRequests
  PROVE  AdmissionInv'
<1>. USE DEF AdmissionInv, rows, runs
<1>1. AdmissionTypeOK'
  BY DEF AdmissionTypeOK
<1>2. CallsOK'
  BY DEF AdmissionTypeOK, CallsOK, Fits
<1>3. RunsServed'
  <2>. SUFFICES ASSUME NEW r \in RunKeys, status[r] # "absent" PROVE Served(r)'
    BY DEF RunsServed
  <2>1. Served(r)
    BY DEF RunsServed
  <2>2. CASE r \in started \cup orphaned
    BY <2>2 DEF Served
  <2>3. CASE r \notin started \cup orphaned
    <3>1. PICK d \in Clients : call[d].at = "enqueue" /\ call[d].run = r
      BY <2>1, <2>3 DEF Served
    <3>2. call'[d] = call[d]
      BY <3>1 DEF AdmissionTypeOK
    <3>. QED BY <3>1, <3>2 DEF Served
  <2>. QED BY <2>2, <2>3
<1>4. RecordsOwn' /\ AnswersRecorded' /\ DeliveriesRecorded'
  BY DEF RecordsOwn, AnswersRecorded, DeliveriesRecorded
<1>. QED BY <1>1, <1>2, <1>3, <1>4

\* Moving to another place changes nothing else of a request.
LEMMA GotoMoves ==
  ASSUME AdmissionTypeOK, NEW c \in Clients, NEW label \in Labels, Goto(c, label)
  PROVE  \E new \in Calls :
           /\ call' = [call EXCEPT ![c] = new]
           /\ new = [call[c] EXCEPT !.at = label]
           /\ new.at = label /\ new.key = call[c].key /\ new.body = call[c].body /\ new.change = call[c].change
           /\ new.agent = call[c].agent /\ new.run = call[c].run
<1>. DEFINE new == [call[c] EXCEPT !.at = label]
<1>1. call[c] \in Calls
  BY DEF AdmissionTypeOK
<1>2. new \in Calls /\ new.at = label /\ new.key = call[c].key /\ new.body = call[c].body /\ new.change = call[c].change
      /\ new.agent = call[c].agent /\ new.run = call[c].run
  BY <1>1 DEF Calls
<1>3. call' = [call EXCEPT ![c] = new]
  BY DEF Goto
<1>. QED BY <1>2, <1>3

\* A client with no request has nothing to answer for.
LEMMA EndFits ==
  ASSUME NEW c \in Clients
  PROVE  NoCall \in Calls /\ Fits(c, NoCall)
BY NoneAssumption DEF NoCall, Calls, Labels, Fits

\* A request that ends, and owes nobody a job, keeps the invariant.
LEMMA EndMoves ==
  ASSUME AdmissionInv, NEW c \in Clients, Ends(c), call[c].at # "enqueue",
         UNCHANGED <<rows, answers, requests>>
  PROVE  AdmissionInv'
BY CallMoves, EndFits DEF Ends, AdmissionInv, AdmissionTypeOK

-----------------------------------------------------------------------------
(* The steps of a request that write no row.                               *)

\* A new request carries what its client and its delivery say.
LEMMA RequestSteps ==
  ASSUME AdmissionInv, NEW c \in Clients, ApiRequest(c) \/ GithubRequest(c)
  PROVE  AdmissionInv'
<1>1. requests' \in 0 .. MaxRequests
  BY MaxRunsAssumption DEF AdmissionInv, AdmissionTypeOK, ApiRequest, GithubRequest, Asks
<1>2. call[c].at # "enqueue"
  BY DEF ApiRequest, GithubRequest, NoCall
<1>3. CASE ApiRequest(c)
  <2>1. PICK k \in Keys \cup {NoKey}, b \in Bodies :
          call' = [call EXCEPT ![c] = [at |-> "begin", key |-> k, body |-> b, change |-> ChangeIn[b],
                                       agent |-> AgentOf[c], run |-> NoRun]]
    BY <1>3 DEF ApiRequest
  <2>. DEFINE new == [at |-> "begin", key |-> k, body |-> b, change |-> ChangeIn[b],
                      agent |-> AgentOf[c], run |-> NoRun]
  <2>2. c \in ApiClients /\ c \notin GithubClients
    BY <1>3, ClientsAssumption DEF ApiRequest
  <2>3. new \in Calls
    BY <2>2, ChangeAssumption DEF Calls, Labels, Agents
  <2>4. Fits(c, new)
    BY <2>2, ChangeAssumption DEF Fits
  <2>. QED BY <1>1, <1>2, <1>3, <2>1, <2>3, <2>4, CallMoves DEF ApiRequest
<1>4. CASE GithubRequest(c)
  <2>1. PICK k \in Deliveries :
          call' = [call EXCEPT ![c] = [at |-> "begin", key |-> k, body |-> NoBody,
                                       change |-> ChangeOf[k], agent |-> NoRun, run |-> NoRun]]
    BY <1>4 DEF GithubRequest
  <2>. DEFINE new == [at |-> "begin", key |-> k, body |-> NoBody, change |-> ChangeOf[k],
                      agent |-> NoRun, run |-> NoRun]
  <2>2. c \in GithubClients /\ c \notin ApiClients
    BY <1>4, ClientsAssumption DEF GithubRequest
  <2>3. new \in Calls
    BY ChangeAssumption DEF Calls, Labels
  <2>4. Fits(c, new)
    BY <2>2 DEF Fits
  <2>. QED BY <1>1, <1>2, <1>4, <2>1, <2>3, <2>4, CallMoves DEF GithubRequest
<1>. QED BY <1>3, <1>4

\* A place where a request has only read: the rest of it stays as it is.
LEMMA GotoStep ==
  ASSUME AdmissionInv, NEW c \in Clients, NEW label \in Labels, Goto(c, label),
         call[c].at # "enqueue", UNCHANGED <<rows, answers, requests>>,
         \A new \in Calls :
           (/\ new.at = label /\ new.key = call[c].key /\ new.body = call[c].body /\ new.change = call[c].change
            /\ new.agent = call[c].agent /\ new.run = call[c].run) => Fits(c, new)
  PROVE  AdmissionInv'
<1>1. AdmissionTypeOK
  BY DEF AdmissionInv
<1>2. PICK new \in Calls :
         /\ call' = [call EXCEPT ![c] = new]
         /\ new.at = label /\ new.key = call[c].key /\ new.body = call[c].body /\ new.change = call[c].change
         /\ new.agent = call[c].agent /\ new.run = call[c].run
  BY <1>1, GotoMoves
<1>3. requests' \in 0 .. MaxRequests
  BY <1>1 DEF AdmissionTypeOK
<1>. QED BY <1>2, <1>3, CallMoves

\* Each query that only reads keeps the invariant.
LEMMA ReadSteps ==
  ASSUME AdmissionInv, NEW c \in Clients,
         LookupDelivery(c) \/ FindIdentity(c) \/ CountRuns(c) \/ FindRun(c)
  PROVE  AdmissionInv'
<1>. USE DEF AdmissionInv
<1>1. call[c] \in Calls /\ Fits(c, call[c])
  BY DEF AdmissionTypeOK, CallsOK
<1>2. call[c].at # "enqueue" /\ UNCHANGED <<rows, answers, requests>>
  BY DEF LookupDelivery, FindIdentity, CountRuns, FindRun
<1>3. CASE LookupDelivery(c)
  <2>1. c \in GithubClients /\ c \notin ApiClients /\ call[c].at = "begin"
    BY <1>3, ClientsAssumption DEF LookupDelivery
  <2>2. CASE Ends(c)
    BY <1>2, <2>2, EndMoves
  <2>3. CASE Goto(c, "record") /\ call[c].change = NoChange
    BY <1>1, <1>2, <2>1, <2>3, NoneAssumption, GotoStep DEF Labels, Fits
  <2>4. CASE Goto(c, "identity") /\ call[c].change # NoChange
    BY <1>1, <1>2, <2>1, <2>4, GotoStep DEF Labels, Fits, Calls
  <2>. QED BY <1>3, <2>2, <2>3, <2>4 DEF LookupDelivery
<1>4. CASE FindIdentity(c)
  <2>1. c \in GithubClients /\ c \notin ApiClients
    BY <1>1, <1>4, ClientsAssumption DEF FindIdentity, Fits
  <2>2. CASE Goto(c, "new_identity")
    BY <1>1, <1>2, <1>4, <2>1, <2>2, GotoStep DEF FindIdentity, Labels, Fits
  <2>3. CASE \E a \in identities : call' = [call EXCEPT ![c].at = "count", ![c].agent = a]
    <3>1. PICK a \in identities : call' = [call EXCEPT ![c].at = "count", ![c].agent = a]
      BY <2>3
    <3>. DEFINE new == [call[c] EXCEPT !.at = "count", !.agent = a]
    <3>2. a \in GithubClients
      BY DEF AdmissionTypeOK
    <3>3. new \in Calls /\ new.at = "count" /\ new.agent = a
          /\ new.key = call[c].key /\ new.body = call[c].body /\ new.change = call[c].change
      BY <1>1, <3>2 DEF Calls, Labels, Agents
    <3>4. Fits(c, new)
      BY <1>1, <1>4, <2>1, <3>2, <3>3 DEF Fits, FindIdentity, Agents
    <3>5. call' = [call EXCEPT ![c] = new]
      BY <3>1
    <3>6. requests' \in 0 .. MaxRequests
      BY <1>2 DEF AdmissionTypeOK
    <3>. HIDE DEF new
    <3>. QED BY <1>2, <3>3, <3>4, <3>5, <3>6, CallMoves
  <2>. QED BY <1>4, <2>2, <2>3 DEF FindIdentity
<1>5. CASE CountRuns(c)
  <2>1. CASE Ends(c)
    BY <1>2, <2>1, EndMoves
  <2>2. CASE Goto(c, "find")
    BY <1>1, <1>2, <1>5, <2>2, GotoStep DEF CountRuns, Labels, Fits
  <2>. QED BY <1>5, <2>1, <2>2 DEF CountRuns
<1>6. CASE FindRun(c)
  <2>. DEFINE r == <<call[c].change, policy>>
              label == IF status[r] = "absent" THEN "create" ELSE "record"
              new == [call[c] EXCEPT !.run = r, !.at = label]
  <2>1. call[c].change \in Changes /\ call[c].agent \in Agents
        /\ (c \in GithubClients => call[c].agent \in GithubClients)
    BY <1>1, <1>6 DEF FindRun, Fits
  <2>2. r \in RunKeys /\ r[1] = call[c].change
    BY <2>1 DEF AdmissionTypeOK, RunKeys
  <2>3. new \in Calls /\ new.at = label /\ new.run = r /\ new.agent = call[c].agent
        /\ new.key = call[c].key /\ new.body = call[c].body /\ new.change = call[c].change
    BY <1>1, <2>2 DEF Calls, Labels
  <2>4. Fits(c, new)
    BY <1>1, <1>6, <2>1, <2>2, <2>3 DEF Fits, FindRun
  <2>5. call' = [call EXCEPT ![c] = new]
    BY <1>6 DEF FindRun
  <2>6. requests' \in 0 .. MaxRequests
    BY <1>2 DEF AdmissionTypeOK
  <2>. HIDE DEF new
  <2>. QED BY <1>2, <2>3, <2>4, <2>5, <2>6, CallMoves
<1>. QED BY <1>3, <1>4, <1>5, <1>6

-----------------------------------------------------------------------------
(* The steps that write a row.                                             *)

\* The delivery goes on under the identity it has created.
LEMMA CreateIdentityStep ==
  ASSUME AdmissionInv, NEW c \in Clients, CreateIdentity(c)
  PROVE  AdmissionInv'
<1>. USE DEF AdmissionInv
<1>1. call[c] \in Calls /\ Fits(c, call[c]) /\ call[c].at = "new_identity"
  BY DEF AdmissionTypeOK, CallsOK, CreateIdentity
<1>2. c \in GithubClients /\ c \notin ApiClients /\ call[c].change \in Changes
  BY <1>1, ClientsAssumption DEF Fits
<1>. DEFINE new == [call[c] EXCEPT !.at = "count", !.agent = c]
<1>3. new \in Calls /\ new.at = "count" /\ new.agent = c
      /\ new.key = call[c].key /\ new.body = call[c].body /\ new.change = call[c].change
  BY <1>1, <1>2 DEF Calls, Labels, Agents
<1>4. Fits(c, new)
  BY <1>1, <1>2, <1>3 DEF Fits, Agents
<1>5. /\ call' = [call EXCEPT ![c] = new] /\ identities' = identities \cup {c}
      /\ UNCHANGED <<policy, status, started, orphaned, owner, records, delivered, answers, requests>>
  BY DEF CreateIdentity, runs
<1>. HIDE DEF new
<1>6. AdmissionTypeOK'
  BY <1>2, <1>3, <1>5 DEF AdmissionTypeOK
<1>7. CallsOK'
  BY <1>4, <1>5 DEF AdmissionTypeOK, CallsOK, Fits
<1>8. RunsServed'
  BY <1>1, <1>5 DEF AdmissionTypeOK, RunsServed, Served
<1>9. RecordsOwn' /\ AnswersRecorded' /\ DeliveriesRecorded'
  BY <1>5 DEF RecordsOwn, AnswersRecorded, DeliveriesRecorded
<1>. QED BY <1>6, <1>7, <1>8, <1>9

\* The row and its owner; until the job is queued the run is its inserter's.
LEMMA CreateRunStep ==
  ASSUME AdmissionInv, NEW c \in Clients, CreateRun(c)
  PROVE  AdmissionInv'
<1>. USE DEF AdmissionInv
<1>. DEFINE r == call[c].run
<1>1. call[c] \in Calls /\ Fits(c, call[c]) /\ call[c].at = "create"
  BY DEF AdmissionTypeOK, CallsOK, CreateRun
<1>2. call[c].change \in Changes /\ call[c].agent \in Agents /\ r \in RunKeys /\ r[1] = call[c].change
  BY <1>1 DEF Fits
<1>3. CASE status[r] # "absent"
  <2>1. Ends(c) /\ UNCHANGED <<rows, answers, requests>>
    BY <1>3 DEF CreateRun, rows, runs
  <2>. QED BY <1>1, <2>1, EndMoves
<1>4. CASE status[r] = "absent"
  <2>1. /\ status' = [status EXCEPT ![r] = "active"]
        /\ owner' = [owner EXCEPT ![r] = call[c].agent]
        /\ Goto(c, "enqueue")
        /\ UNCHANGED <<policy, started, orphaned, records, delivered, identities, answers, requests>>
    BY <1>4 DEF CreateRun
  <2>2. PICK new \in Calls :
          /\ call' = [call EXCEPT ![c] = new]
          /\ new.at = "enqueue" /\ new.key = call[c].key /\ new.body = call[c].body /\ new.change = call[c].change
          /\ new.agent = call[c].agent /\ new.run = call[c].run
    BY <2>1, GotoMoves DEF Labels
  <2>3. \A k \in RunKeys : status[k] # "absent" => status'[k] # "absent"
    BY <2>1 DEF AdmissionTypeOK
  <2>4. AdmissionTypeOK'
    <3>1. \A k \in RunKeys : status'[k] = "absent" <=> owner'[k] = NoRun
      BY <1>2, <2>1, NoRunAssumption DEF AdmissionTypeOK
    <3>. QED BY <1>2, <2>1, <2>2, <3>1 DEF AdmissionTypeOK
  <2>5. CallsOK'
    <3>. SUFFICES ASSUME NEW d \in Clients PROVE Fits(d, call[d])'
      BY DEF CallsOK
    <3>1. CASE d = c
      BY <1>1, <1>2, <2>1, <2>2, <3>1 DEF AdmissionTypeOK, Fits
    <3>2. CASE d # c
      <4>1. call'[d] = call[d] /\ Fits(d, call[d])
        BY <2>2, <3>2 DEF AdmissionTypeOK, CallsOK
      <4>. QED BY <2>3, <4>1 DEF Fits
    <3>. QED BY <3>1, <3>2
  <2>6. RunsServed'
    <3>. SUFFICES ASSUME NEW k \in RunKeys, status'[k] # "absent" PROVE Served(k)'
      BY DEF RunsServed
    <3>1. CASE k = r
      BY <2>2, <3>1 DEF AdmissionTypeOK, Served
    <3>2. CASE k # r
      <4>1. status[k] # "absent"
        BY <2>1, <3>2 DEF AdmissionTypeOK
      <4>2. \A d \in Clients : call[d].at = "enqueue" => call'[d] = call[d]
        BY <1>1, <2>2 DEF AdmissionTypeOK
      <4>. QED BY <2>1, <4>1, <4>2 DEF RunsServed, Served
    <3>. QED BY <3>1, <3>2
  <2>7. RecordsOwn' /\ AnswersRecorded'
    BY <2>1 DEF RecordsOwn, AnswersRecorded
  <2>8. DeliveriesRecorded'
    <3>. SUFFICES ASSUME NEW k \in delivered, ChangeOf[k] # NoChange
                  PROVE  \E p \in Policies : status'[<<ChangeOf[k], p>>] # "absent"
      BY <2>1 DEF DeliveriesRecorded
    <3>1. PICK p \in Policies : status[<<ChangeOf[k], p>>] # "absent"
      BY DEF DeliveriesRecorded
    <3>2. <<ChangeOf[k], p>> \in RunKeys
      BY ChangeAssumption DEF AdmissionTypeOK, RunKeys
    <3>. QED BY <2>3, <3>1, <3>2
  <2>. QED BY <2>4, <2>5, <2>6, <2>7, <2>8
<1>. QED BY <1>3, <1>4

\* The job is queued: what the inserter owed is done.
LEMMA EnqueuePrepareStep ==
  ASSUME AdmissionInv, NEW c \in Clients, EnqueuePrepare(c)
  PROVE  AdmissionInv'
<1>. USE DEF AdmissionInv
<1>1. call[c] \in Calls /\ Fits(c, call[c]) /\ call[c].at = "enqueue"
  BY DEF AdmissionTypeOK, CallsOK, EnqueuePrepare
<1>2. call[c].change \in Changes /\ call[c].run \in RunKeys
  BY <1>1 DEF Fits
<1>3. /\ started' = started \cup {call[c].run} /\ Goto(c, "record")
      /\ UNCHANGED <<policy, status, owner, orphaned, records, delivered, identities, answers, requests>>
  BY DEF EnqueuePrepare
<1>4. PICK new \in Calls :
        /\ call' = [call EXCEPT ![c] = new]
        /\ new.at = "record" /\ new.key = call[c].key /\ new.body = call[c].body /\ new.change = call[c].change
        /\ new.agent = call[c].agent /\ new.run = call[c].run
  BY <1>3, GotoMoves DEF Labels
<1>5. AdmissionTypeOK'
  BY <1>2, <1>3, <1>4 DEF AdmissionTypeOK
<1>6. CallsOK'
  BY <1>1, <1>3, <1>4 DEF AdmissionTypeOK, CallsOK, Fits
<1>7. RunsServed'
  <2>. SUFFICES ASSUME NEW k \in RunKeys, status[k] # "absent" PROVE Served(k)'
    BY <1>3 DEF RunsServed
  <2>1. CASE k = call[c].run
    BY <1>3, <2>1 DEF Served
  <2>2. CASE k # call[c].run
    <3>1. \A d \in Clients : call[d].run = k => call'[d] = call[d]
      BY <1>4, <2>2 DEF AdmissionTypeOK
    <3>. QED BY <1>3, <3>1 DEF RunsServed, Served
  <2>. QED BY <2>1, <2>2
<1>8. RecordsOwn' /\ AnswersRecorded' /\ DeliveriesRecorded'
  BY <1>3 DEF RecordsOwn, AnswersRecorded, DeliveriesRecorded
<1>. QED BY <1>5, <1>6, <1>7, <1>8

\* The request that owed a run its job is lost: the run is orphaned.
LEMMA RequestLostStep ==
  ASSUME AdmissionInv, NEW c \in Clients, RequestLost(c)
  PROVE  AdmissionInv'
<1>. USE DEF AdmissionInv
<1>1. CASE call[c].at # "enqueue"
  <2>1. Ends(c) /\ UNCHANGED <<rows, answers, requests>>
    BY <1>1 DEF RequestLost, rows, runs
  <2>. QED BY <1>1, <2>1, EndMoves
<1>2. CASE call[c].at = "enqueue"
  <2>1. /\ orphaned' = orphaned \cup {call[c].run} /\ call' = [call EXCEPT ![c] = NoCall]
        /\ UNCHANGED <<policy, status, owner, started, records, delivered, identities, answers, requests>>
    BY <1>2 DEF RequestLost, Ends
  <2>2. call[c].run \in RunKeys
    BY <1>2 DEF CallsOK, Fits
  <2>3. AdmissionTypeOK'
    BY <2>1, <2>2, EndFits DEF AdmissionTypeOK
  <2>4. CallsOK'
    BY <2>1, EndFits DEF AdmissionTypeOK, CallsOK, Fits
  <2>5. RunsServed'
    <3>. SUFFICES ASSUME NEW k \in RunKeys, status[k] # "absent" PROVE Served(k)'
      BY <2>1 DEF RunsServed
    <3>1. CASE k = call[c].run
      BY <2>1, <3>1 DEF Served
    <3>2. CASE k # call[c].run
      <4>1. \A d \in Clients : call[d].run = k => call'[d] = call[d]
        BY <2>1, <3>2 DEF AdmissionTypeOK
      <4>. QED BY <2>1, <4>1 DEF RunsServed, Served
    <3>. QED BY <3>1, <3>2
  <2>6. RecordsOwn' /\ AnswersRecorded' /\ DeliveriesRecorded'
    BY <2>1 DEF RecordsOwn, AnswersRecorded, DeliveriesRecorded
  <2>. QED BY <2>3, <2>4, <2>5, <2>6
<1>. QED BY <1>1, <1>2

\* A key on record is answered as it was, another body is refused, and a key that
\* is not on record goes on to the count.
LEMMA LookupRecordStep ==
  ASSUME AdmissionInv, NEW c \in Clients, LookupRecord(c)
  PROVE  AdmissionInv'
<1>. USE DEF AdmissionInv
<1>1. /\ call[c] \in Calls /\ Fits(c, call[c]) /\ call[c].at = "begin"
      /\ c \in ApiClients /\ c \notin GithubClients /\ UNCHANGED <<rows, requests>>
  BY ClientsAssumption DEF AdmissionTypeOK, CallsOK, LookupRecord
<1>2. /\ call[c].body \in Bodies /\ call[c].change \in Changes
      /\ call[c].key \in Keys \cup {NoKey} /\ call[c].agent = AgentOf[c]
  BY <1>1 DEF Fits
<1>3. CASE Goto(c, "count") /\ UNCHANGED answers
  <2>1. AgentOf[c] \in Agents
    BY <1>1 DEF Agents
  <2>. QED BY <1>1, <1>2, <1>3, <2>1, GotoStep DEF Labels, Fits
<1>4. CASE Ends(c) /\ UNCHANGED answers
  BY <1>1, <1>4, EndMoves
<1>5. CASE /\ call[c].key \in Keys /\ records[call[c].key] # NoRun /\ Ends(c)
           /\ records[call[c].key].body = call[c].body
           /\ Answer(c, records[call[c].key].run)
  <2>. DEFINE record == records[call[c].key]
              x == [key |-> call[c].key, body |-> call[c].body, run |-> record.run]
  <2>1. answers' = answers \cup {x}
    BY <1>5 DEF Answer
  <2>2. record \in [body : Bodies, run : RunKeys]
    BY <1>5 DEF AdmissionTypeOK
  <2>3. x \in [key : Keys, body : Bodies, run : RunKeys]
    BY <1>2, <1>5, <2>2
  <2>4. call' = [call EXCEPT ![c] = NoCall] /\ UNCHANGED <<policy, status, owner, started, orphaned>>
        /\ UNCHANGED <<records, delivered, identities, requests>>
    BY <1>1, <1>5 DEF Ends, rows, runs
  <2>5. AdmissionTypeOK'
    BY <2>1, <2>3, <2>4, EndFits DEF AdmissionTypeOK
  <2>6. CallsOK'
    BY <2>4, EndFits DEF AdmissionTypeOK, CallsOK, Fits
  <2>7. RunsServed'
    BY <1>1, <2>4 DEF AdmissionTypeOK, RunsServed, Served
  <2>8. AnswersRecorded'
    BY <1>5, <2>1, <2>2, <2>4 DEF AnswersRecorded
  <2>9. RecordsOwn' /\ DeliveriesRecorded'
    BY <2>4 DEF RecordsOwn, DeliveriesRecorded
  <2>. QED BY <2>5, <2>6, <2>7, <2>8, <2>9
<1>. QED BY <1>3, <1>4, <1>5 DEF LookupRecord, OnRecord

\* A record is written once, with the answer that is given.
LEMMA RecordAnswerStep ==
  ASSUME AdmissionInv, NEW c \in Clients, RecordAnswer(c)
  PROVE  AdmissionInv'
<1>. USE DEF AdmissionInv
<1>1. /\ call[c] \in Calls /\ Fits(c, call[c]) /\ call[c].at = "record" /\ Ends(c)
      /\ c \in ApiClients /\ UNCHANGED <<policy, runs, delivered, identities, requests>>
  BY DEF AdmissionTypeOK, CallsOK, RecordAnswer
<1>2. /\ call[c].body \in Bodies /\ call[c].run \in RunKeys
      /\ call[c].run[1] = ChangeIn[call[c].body]
      /\ call[c].key \in Keys \cup {NoKey}
  BY <1>1 DEF Fits
<1>3. CASE UNCHANGED <<records, answers>>
  BY <1>1, <1>3, EndMoves DEF rows
<1>4. CASE call[c].key = NoKey
  BY <1>3, <1>4, NoneAssumption DEF RecordAnswer, Answer
<1>5. CASE call[c].key # NoKey /\ records[call[c].key] = NoRun
  <2>. DEFINE k == call[c].key
              record == [body |-> call[c].body, run |-> call[c].run]
              x == [key |-> k, body |-> call[c].body, run |-> call[c].run]
  <2>1. k \in Keys /\ answers' = answers \cup {x} /\ records' = [records EXCEPT ![k] = record]
    BY <1>2, <1>5 DEF RecordAnswer, Answer
  <2>2. call' = [call EXCEPT ![c] = NoCall] /\ UNCHANGED <<policy, status, owner, started, orphaned>>
        /\ UNCHANGED <<delivered, identities, requests>>
    BY <1>1 DEF Ends, runs
  <2>3. record \in [body : Bodies, run : RunKeys] /\ record # NoRun
    BY <1>2, NoRunAssumption
  <2>4. x \in [key : Keys, body : Bodies, run : RunKeys]
    BY <1>2, <2>1
  <2>5. AdmissionTypeOK'
    BY <2>1, <2>2, <2>3, <2>4, EndFits DEF AdmissionTypeOK
  <2>6. CallsOK'
    BY <2>2, EndFits DEF AdmissionTypeOK, CallsOK, Fits
  <2>7. RunsServed'
    BY <1>1, <2>2 DEF AdmissionTypeOK, RunsServed, Served
  <2>8. AnswersRecorded'
    BY <1>2, <1>5, <2>1, <2>3 DEF AdmissionTypeOK, AnswersRecorded
  <2>9. RecordsOwn' /\ DeliveriesRecorded'
    BY <1>2, <2>1, <2>2 DEF AdmissionTypeOK, RecordsOwn, DeliveriesRecorded
  <2>. QED BY <2>5, <2>6, <2>7, <2>8, <2>9
<1>. QED BY <1>3, <1>4, <1>5 DEF RecordAnswer

\* A delivery is recorded when its request has come to an existing run.
LEMMA RecordDeliveryStep ==
  ASSUME AdmissionInv, NEW c \in Clients, RecordDelivery(c)
  PROVE  AdmissionInv'
<1>. USE DEF AdmissionInv
<1>1. /\ call[c] \in Calls /\ Fits(c, call[c]) /\ call[c].at = "record"
      /\ c \in GithubClients /\ delivered' = delivered \cup {call[c].key}
      /\ call' = [call EXCEPT ![c] = NoCall]
      /\ UNCHANGED <<policy, status, owner, started, orphaned, records, identities, answers, requests>>
  BY DEF AdmissionTypeOK, CallsOK, RecordDelivery, Ends, runs
<1>2. call[c].key \in Deliveries /\ call[c].change = ChangeOf[call[c].key]
  BY <1>1 DEF Fits
<1>3. AdmissionTypeOK'
  BY <1>1, <1>2, EndFits DEF AdmissionTypeOK
<1>4. CallsOK'
  BY <1>1, EndFits DEF AdmissionTypeOK, CallsOK, Fits
<1>5. RunsServed'
  BY <1>1 DEF AdmissionTypeOK, RunsServed, Served
<1>6. DeliveriesRecorded'
  <2>1. ASSUME ChangeOf[call[c].key] # NoChange
        PROVE  \E p \in Policies : status[<<ChangeOf[call[c].key], p>>] # "absent"
    <3>1. call[c].change \in Changes
      BY <1>1, <1>2, <2>1 DEF Calls
    <3>2. call[c].run \in RunKeys /\ call[c].run[1] = call[c].change /\ status[call[c].run] # "absent"
      BY <1>1, <3>1 DEF Fits
    <3>3. PICK p \in Policies : call[c].run = <<call[c].change, p>>
      BY <3>2 DEF RunKeys
    <3>. QED BY <1>2, <3>2, <3>3
  <2>. QED BY <1>1, <2>1 DEF DeliveriesRecorded
<1>7. RecordsOwn' /\ AnswersRecorded'
  BY <1>1 DEF RecordsOwn, AnswersRecorded
<1>. QED BY <1>3, <1>4, <1>5, <1>6, <1>7

\* What the pipeline and the operators do: a run ends, the policy changes.
LEMMA WorldSteps ==
  ASSUME AdmissionInv, (\E r \in RunKeys : RunEnds(r)) \/ PolicyChanges
  PROVE  AdmissionInv'
<1>. USE DEF AdmissionInv
<1>1. CASE \E r \in RunKeys : RunEnds(r)
  <2>1. PICK r \in RunKeys : RunEnds(r)
    BY <1>1
  <2>2. /\ status[r] = "active" /\ status' = [status EXCEPT ![r] = "ended"]
        /\ UNCHANGED <<policy, owner, started, orphaned, records, delivered, identities, call, answers, requests>>
    BY <2>1 DEF RunEnds
  <2>3. \A k \in RunKeys : status'[k] = "absent" <=> status[k] = "absent"
    BY <2>2 DEF AdmissionTypeOK
  <2>4. AdmissionTypeOK'
    BY <2>2, <2>3 DEF AdmissionTypeOK
  <2>5. CallsOK'
    BY <2>2, <2>3 DEF CallsOK, Fits
  <2>6. RunsServed'
    BY <2>2, <2>3 DEF RunsServed, Served
  <2>7. DeliveriesRecorded'
    BY <2>2, <2>3, ChangeAssumption DEF DeliveriesRecorded, AdmissionTypeOK, RunKeys
  <2>8. RecordsOwn' /\ AnswersRecorded'
    BY <2>2 DEF RecordsOwn, AnswersRecorded
  <2>. QED BY <2>4, <2>5, <2>6, <2>7, <2>8
<1>2. CASE PolicyChanges
  <2>1. policy' \in Policies
        /\ UNCHANGED <<status, owner, started, orphaned, records, delivered, identities, call, answers, requests>>
    BY <1>2 DEF PolicyChanges, runs
  <2>. QED
    BY <2>1 DEF AdmissionTypeOK, CallsOK, Fits, RunsServed, Served, RecordsOwn, AnswersRecorded,
                DeliveriesRecorded
<1>. QED BY <1>1, <1>2

-----------------------------------------------------------------------------
(* The theorems.                                                           *)

\* Nothing has been asked for.
LEMMA InitEstablishesInv == Init => AdmissionInv
<1>. SUFFICES ASSUME Init PROVE AdmissionInv
  OBVIOUS
<1>. USE DEF Init
<1>1. AdmissionTypeOK
  BY EndFits, MaxRunsAssumption DEF AdmissionTypeOK
<1>2. CallsOK
  BY EndFits DEF CallsOK
<1>3. RunsServed /\ RecordsOwn /\ AnswersRecorded /\ DeliveriesRecorded
  BY DEF RunsServed, RecordsOwn, AnswersRecorded, DeliveriesRecorded
<1>. QED BY <1>1, <1>2, <1>3 DEF AdmissionInv

\* One step per action.
LEMMA NextKeepsInv == AdmissionInv /\ [Next]_vars => AdmissionInv'
<1>. SUFFICES ASSUME AdmissionInv, [Next]_vars PROVE AdmissionInv'
  OBVIOUS
<1>1. ASSUME NEW c \in Clients, ApiStep(c) PROVE AdmissionInv'
  BY <1>1, RequestSteps, LookupRecordStep, RecordAnswerStep DEF ApiStep
<1>2. ASSUME NEW c \in Clients, GithubStep(c) PROVE AdmissionInv'
  BY <1>2, RequestSteps, ReadSteps, CreateIdentityStep, RecordDeliveryStep DEF GithubStep
<1>3. ASSUME NEW c \in Clients, ReviewStep(c) PROVE AdmissionInv'
  BY <1>3, ReadSteps, CreateRunStep, EnqueuePrepareStep DEF ReviewStep
<1>4. ASSUME NEW c \in Clients, RequestLost(c) PROVE AdmissionInv'
  BY <1>4, RequestLostStep
<1>5. CASE UNCHANGED vars
  BY <1>5 DEF vars, rows, runs, AdmissionInv, AdmissionTypeOK, CallsOK, Fits, RunsServed, Served,
              RecordsOwn, AnswersRecorded, DeliveriesRecorded
<1>. QED BY <1>1, <1>2, <1>3, <1>4, <1>5, WorldSteps DEF Next

\* The inductive invariant of admission.
THEOREM AdmissionInvariant == Spec => []AdmissionInv
BY InitEstablishesInv, NextKeepsInv, PTL DEF Spec

\* Rows, requests and answers keep their types, and a run has an owner exactly
\* when its row exists.
THEOREM AdmissionTypeCorrect == Spec => []AdmissionTypeOK
BY AdmissionInvariant, PTL DEF AdmissionInv

\* One Idempotency-Key has one answer, whatever overlapped, was lost or changed
\* in between.
THEOREM OneAnswerPerKey == Spec => []SameAnswer
<1>1. AdmissionInv => SameAnswer
  BY DEF AdmissionInv, AnswersRecorded, SameAnswer
<1>. QED BY <1>1, AdmissionInvariant, PTL

\* Answers under one key were all to the same body, and each names a run of the
\* change in that body, also one given from the record; not, the run key being
\* coarser than the body, a run of the body's own target.
THEOREM OneBodyPerKeyHolds ==
  Spec => [](OneBodyPerKey /\ \A x \in answers : x.run[1] = ChangeIn[x.body])
<1>1. AdmissionInv => OneBodyPerKey /\ \A x \in answers : x.run[1] = ChangeIn[x.body]
  BY DEF AdmissionInv, AdmissionTypeOK, RecordsOwn, AnswersRecorded, OneBodyPerKey
<1>. QED BY <1>1, AdmissionInvariant, PTL

\* A delivery on record has a run that is started, or about to be, unless the
\* request that inserted the run was lost.
THEOREM RecordedDeliveriesServed == Spec => []RecordedDeliveryIsServed
<1>1. AdmissionInv => RecordedDeliveryIsServed
  BY ChangeAssumption DEF AdmissionInv, AdmissionTypeOK, DeliveriesRecorded, RunsServed,
                          RecordedDeliveryIsServed, RunKeys
<1>. QED BY <1>1, AdmissionInvariant, PTL

-----------------------------------------------------------------------------
(* The budget.  A request that passed the count holds a place until its    *)
(* insert; the runs and the places together stay within the limit and one  *)
(* place for each other client of the agent.                               *)

Passed(a) == {c \in Clients : call[c].at \in {"find", "create"} /\ call[c].agent = a}

BudgetInv ==
  \A a \in Agents :
     /\ IsFiniteSet(ActiveRuns(a))
     /\ Cardinality(ActiveRuns(a)) + Cardinality(Passed(a)) <= MaxRuns + Cardinality(Actors(a)) - 1

\* Only an agent's own clients hold its places.
LEMMA PassedAreActors ==
  ASSUME AdmissionInv, NEW a \in Agents
  PROVE  /\ Passed(a) \subseteq Actors(a) /\ IsFiniteSet(Actors(a)) /\ IsFiniteSet(Passed(a))
         /\ Cardinality(Passed(a)) \in Nat /\ Cardinality(Actors(a)) \in Nat
         /\ Cardinality(Passed(a)) <= Cardinality(Actors(a))
<1>1. Passed(a) \subseteq Actors(a)
  BY ClientsAssumption DEF Passed, Actors, AdmissionInv, CallsOK, Fits, Clients
<1>2. IsFiniteSet(Actors(a))
  BY ClientsAssumption, FS_Subset DEF Actors
<1>. QED BY <1>1, <1>2, FS_Subset, FS_CardinalityType

\* No new run and no new place: the budget holds as before.
LEMMA BudgetShrinks ==
  ASSUME AdmissionInv, BudgetInv, NEW a \in Agents,
         ActiveRuns(a)' \subseteq ActiveRuns(a), Passed(a)' \subseteq Passed(a)
  PROVE  /\ IsFiniteSet(ActiveRuns(a)')
         /\ Cardinality(ActiveRuns(a)') + Cardinality(Passed(a)')
              <= MaxRuns + Cardinality(Actors(a)) - 1
<1>1. IsFiniteSet(ActiveRuns(a)) /\ IsFiniteSet(Passed(a)) /\ Cardinality(Actors(a)) \in Nat
  BY PassedAreActors DEF BudgetInv
<1>2. /\ IsFiniteSet(ActiveRuns(a)') /\ Cardinality(ActiveRuns(a)') <= Cardinality(ActiveRuns(a))
      /\ IsFiniteSet(Passed(a)') /\ Cardinality(Passed(a)') <= Cardinality(Passed(a))
  BY <1>1, FS_Subset
<1>3. /\ Cardinality(ActiveRuns(a)') \in Nat /\ Cardinality(ActiveRuns(a)) \in Nat
      /\ Cardinality(Passed(a)') \in Nat /\ Cardinality(Passed(a)) \in Nat
  BY <1>1, <1>2, FS_CardinalityType
<1>4. Cardinality(ActiveRuns(a)) + Cardinality(Passed(a)) <= MaxRuns + Cardinality(Actors(a)) - 1
  BY DEF BudgetInv
<1>. QED BY <1>1, <1>2, <1>3, <1>4, MaxRunsAssumption

\* The count is below the limit when a request passes it, whoever else has.
LEMMA CountKeepsBudget ==
  ASSUME AdmissionInv, AdmissionInv', BudgetInv, NEW c \in Clients, CountRuns(c)
  PROVE  BudgetInv'
<1>. SUFFICES ASSUME NEW a \in Agents
              PROVE  /\ IsFiniteSet(ActiveRuns(a)')
                     /\ Cardinality(ActiveRuns(a)') + Cardinality(Passed(a)')
                          <= MaxRuns + Cardinality(Actors(a)) - 1
  BY DEF BudgetInv, Actors
<1>1. ActiveRuns(a)' = ActiveRuns(a)
  BY DEF CountRuns, rows, runs, ActiveRuns
<1>2. CASE Passed(a)' \subseteq Passed(a)
  BY <1>1, <1>2, BudgetShrinks
<1>3. CASE ~(Passed(a)' \subseteq Passed(a))
  <2>1. call[c].agent = a /\ Goto(c, "find")
    BY <1>3 DEF CountRuns, Passed, Ends, Goto, NoCall, AdmissionInv, AdmissionTypeOK, Calls
  <2>2. IsFiniteSet(ActiveRuns(a)) /\ Cardinality(ActiveRuns(a)) \in Nat
    BY FS_CardinalityType DEF BudgetInv
  <2>3. ~(Cardinality(ActiveRuns(a)) >= MaxRuns)
    <3>1. CASE Ends(c)
      BY <1>3, <3>1 DEF Passed, Ends, NoCall, AdmissionInv, AdmissionTypeOK
    <3>. QED BY <2>1, <3>1 DEF CountRuns
  <2>4. /\ Cardinality(Passed(a)') \in Nat /\ Cardinality(Actors(a)) \in Nat
        /\ Cardinality(Passed(a)') <= Cardinality(Actors(a))
    <3>1. Passed(a)' \subseteq Actors(a)
      BY ClientsAssumption DEF Passed, Actors, AdmissionInv, CallsOK, Fits, Clients
    <3>. QED BY <3>1, PassedAreActors, FS_Subset, FS_CardinalityType
  <2>. QED BY <1>1, <2>2, <2>3, <2>4, MaxRunsAssumption
<1>. QED BY <1>2, <1>3

\* A run takes the place its request held.
LEMMA CreateKeepsBudget ==
  ASSUME AdmissionInv, BudgetInv, NEW c \in Clients, CreateRun(c)
  PROVE  BudgetInv'
<1>. SUFFICES ASSUME NEW a \in Agents
              PROVE  /\ IsFiniteSet(ActiveRuns(a)')
                     /\ Cardinality(ActiveRuns(a)') + Cardinality(Passed(a)')
                          <= MaxRuns + Cardinality(Actors(a)) - 1
  BY DEF BudgetInv, Actors
<1>. DEFINE r == call[c].run
<1>1. call[c] \in Calls /\ call[c].at = "create"
  BY DEF CreateRun, AdmissionInv, AdmissionTypeOK
<1>2. r \in RunKeys
  BY <1>1 DEF AdmissionInv, CallsOK, Fits
<1>3. CASE Passed(a)' \subseteq Passed(a) /\ ActiveRuns(a)' \subseteq ActiveRuns(a)
  BY <1>3, BudgetShrinks
<1>4. Passed(a)' \subseteq Passed(a) \ {c}
  BY <1>1 DEF CreateRun, Ends, Goto, Passed, NoCall, AdmissionInv, AdmissionTypeOK, Calls
<1>5. CASE call[c].agent = a /\ status[r] = "absent"
  <2>1. ActiveRuns(a)' \subseteq ActiveRuns(a) \cup {r}
    BY <1>5 DEF CreateRun, ActiveRuns, AdmissionInv, AdmissionTypeOK
  <2>2. c \in Passed(a)
    BY <1>1, <1>5 DEF Passed
  <2>3. /\ IsFiniteSet(ActiveRuns(a)) /\ Cardinality(ActiveRuns(a)) \in Nat
        /\ IsFiniteSet(Passed(a)) /\ Cardinality(Passed(a)) \in Nat /\ Cardinality(Actors(a)) \in Nat
    BY PassedAreActors, FS_CardinalityType DEF BudgetInv
  <2>4. /\ IsFiniteSet(ActiveRuns(a) \cup {r})
        /\ Cardinality(ActiveRuns(a) \cup {r}) <= Cardinality(ActiveRuns(a)) + 1
        /\ Cardinality(ActiveRuns(a) \cup {r}) \in Nat
    <3>1. /\ IsFiniteSet(ActiveRuns(a) \cup {r})
          /\ Cardinality(ActiveRuns(a) \cup {r}) =
               IF r \in ActiveRuns(a) THEN Cardinality(ActiveRuns(a)) ELSE Cardinality(ActiveRuns(a)) + 1
      BY <2>3, FS_AddElement, Zenon
    <3>. QED BY <2>3, <3>1
  <2>5. /\ IsFiniteSet(ActiveRuns(a)') /\ Cardinality(ActiveRuns(a)') \in Nat
        /\ Cardinality(ActiveRuns(a)') <= Cardinality(ActiveRuns(a)) + 1
    <3>1. /\ IsFiniteSet(ActiveRuns(a)')
          /\ Cardinality(ActiveRuns(a)') <= Cardinality(ActiveRuns(a) \cup {r})
      BY <2>1, <2>4, FS_Subset
    <3>. QED BY <2>3, <2>4, <3>1, FS_CardinalityType
  <2>6. /\ IsFiniteSet(Passed(a) \ {c}) /\ Cardinality(Passed(a) \ {c}) = Cardinality(Passed(a)) - 1
    BY <2>2, <2>3, FS_RemoveElement
  <2>7. /\ Cardinality(Passed(a)') \in Nat
        /\ Cardinality(Passed(a)') <= Cardinality(Passed(a)) - 1
    BY <1>4, <2>6, FS_Subset, FS_CardinalityType
  <2>8. Cardinality(ActiveRuns(a)) + Cardinality(Passed(a)) <= MaxRuns + Cardinality(Actors(a)) - 1
    BY DEF BudgetInv
  <2>. QED BY <2>3, <2>5, <2>7, <2>8, MaxRunsAssumption
<1>6. CASE ~(call[c].agent = a /\ status[r] = "absent")
  <2>1. ActiveRuns(a)' \subseteq ActiveRuns(a)
    BY <1>2, <1>6 DEF CreateRun, ActiveRuns, AdmissionInv, AdmissionTypeOK
  <2>. QED BY <1>3, <1>4, <2>1
<1>. QED BY <1>5, <1>6

\* Every other step starts no run and takes no place.
LEMMA NextKeepsBudget == AdmissionInv /\ BudgetInv /\ [Next]_vars => BudgetInv'
<1>. SUFFICES ASSUME AdmissionInv, BudgetInv, [Next]_vars PROVE BudgetInv'
  OBVIOUS
<1>1. AdmissionInv'
  BY NextKeepsInv
<1>. DEFINE Shrinks(a) == Passed(a)' \subseteq Passed(a) /\ ActiveRuns(a)' \subseteq ActiveRuns(a)
<1>2. ASSUME \A a \in Agents : Shrinks(a) PROVE BudgetInv'
  <2>. SUFFICES ASSUME NEW a \in Agents
                PROVE  /\ IsFiniteSet(ActiveRuns(a)')
                       /\ Cardinality(ActiveRuns(a)') + Cardinality(Passed(a)')
                            <= MaxRuns + Cardinality(Actors(a)) - 1
    BY DEF BudgetInv, Actors
  <2>. QED BY <1>2, BudgetShrinks
<1>3. ASSUME NEW c \in Clients, ApiStep(c) PROVE \A a \in Agents : Shrinks(a)
  <2>1. UNCHANGED <<status, owner>>
    BY <1>3 DEF ApiStep, ApiRequest, LookupRecord, RecordAnswer, rows, runs
  <2>2. \A d \in Clients : call'[d] # call[d] => d = c /\ call'[d].at \notin {"find", "create"}
    BY <1>3 DEF ApiStep, ApiRequest, LookupRecord, RecordAnswer, Ends, Goto, NoCall, AdmissionInv,
                AdmissionTypeOK, Calls
  <2>. QED BY <2>1, <2>2 DEF Passed, ActiveRuns
<1>4. ASSUME NEW c \in Clients, GithubStep(c) PROVE \A a \in Agents : Shrinks(a)
  <2>1. UNCHANGED <<status, owner>>
    BY <1>4 DEF GithubStep, GithubRequest, LookupDelivery, FindIdentity, CreateIdentity, RecordDelivery,
                rows, runs
  <2>2. \A d \in Clients : call'[d] # call[d] => d = c /\ call'[d].at \notin {"find", "create"}
    BY <1>4 DEF GithubStep, GithubRequest, LookupDelivery, FindIdentity, CreateIdentity, RecordDelivery,
                Ends, Goto, NoCall, AdmissionInv, AdmissionTypeOK, Calls
  <2>. QED BY <2>1, <2>2 DEF Passed, ActiveRuns
<1>5. ASSUME NEW c \in Clients, FindRun(c) \/ EnqueuePrepare(c) \/ RequestLost(c)
      PROVE  \A a \in Agents : Shrinks(a)
  <2>1. UNCHANGED <<status, owner>>
    BY <1>5 DEF FindRun, EnqueuePrepare, RequestLost, rows, runs
  <2>2. \A d \in Clients : d # c => call'[d] = call[d]
    BY <1>5 DEF FindRun, EnqueuePrepare, RequestLost, Ends, Goto, AdmissionInv, AdmissionTypeOK
  <2>3. call'[c].at \in {"find", "create"} => call[c].at = "find" /\ call'[c].agent = call[c].agent
    BY <1>5 DEF FindRun, EnqueuePrepare, RequestLost, Ends, Goto, NoCall, AdmissionInv, AdmissionTypeOK,
                Calls
  <2>. QED BY <2>1, <2>2, <2>3 DEF Passed, ActiveRuns
<1>6. ASSUME (\E r \in RunKeys : RunEnds(r)) \/ PolicyChanges PROVE \A a \in Agents : Shrinks(a)
  BY <1>6 DEF RunEnds, PolicyChanges, runs, Passed, ActiveRuns, AdmissionInv, AdmissionTypeOK
<1>7. ASSUME UNCHANGED vars PROVE \A a \in Agents : Shrinks(a)
  BY <1>7 DEF vars, rows, runs, Passed, ActiveRuns
<1>. HIDE DEF Shrinks
<1>8. ASSUME NEW c \in Clients, ReviewStep(c) PROVE BudgetInv'
  BY <1>1, <1>2, <1>5, <1>8, CountKeepsBudget, CreateKeepsBudget DEF ReviewStep
<1>. QED BY <1>2, <1>3, <1>4, <1>5, <1>6, <1>7, <1>8 DEF Next

\* An agent exceeds maxConcurrentRuns by less than its clients are many, however
\* the counts and the inserts overlap and whatever ends meanwhile.
THEOREM BudgetIsBounded == Spec => []BudgetBounded
<1>1. Init => BudgetInv
  <2>. SUFFICES ASSUME Init, NEW a \in Agents
                PROVE  /\ IsFiniteSet(ActiveRuns(a))
                       /\ Cardinality(ActiveRuns(a)) + Cardinality(Passed(a))
                            <= MaxRuns + Cardinality(Actors(a)) - 1
    BY DEF BudgetInv
  <2>1. ActiveRuns(a) = {} /\ Passed(a) = {}
    BY DEF Init, ActiveRuns, Passed, NoCall
  <2>2. Cardinality(Actors(a)) \in Nat
    BY InitEstablishesInv, PassedAreActors
  <2>. QED BY <2>1, <2>2, FS_EmptySet, MaxRunsAssumption
<1>2. AdmissionInv /\ BudgetInv => BudgetBounded
  <2>. SUFFICES ASSUME AdmissionInv, BudgetInv, NEW a \in Agents
                PROVE  Cardinality(ActiveRuns(a)) <= MaxRuns + Cardinality(Actors(a)) - 1
    BY DEF BudgetBounded
  <2>1. Cardinality(ActiveRuns(a)) + Cardinality(Passed(a)) <= MaxRuns + Cardinality(Actors(a)) - 1
    BY DEF BudgetInv
  <2>2. /\ Cardinality(ActiveRuns(a)) \in Nat /\ Cardinality(Passed(a)) \in Nat
        /\ Cardinality(Actors(a)) \in Nat
    BY PassedAreActors, FS_CardinalityType DEF BudgetInv
  <2>. QED BY <2>1, <2>2, MaxRunsAssumption
<1>. QED BY <1>1, <1>2, AdmissionInvariant, NextKeepsBudget, PTL DEF Spec

=============================================================================

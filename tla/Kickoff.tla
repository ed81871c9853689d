------------------------------- MODULE Kickoff -------------------------------
(***************************************************************************)
(* Starting scans: the Kickoff API, its client, and webhook pushes to the   *)
(* same projects, down to the submitted scan and its feedback workflow.     *)
(* A kickoff is refused when its project has a scan or too many kickoff     *)
(* scans run, by lists read from CxOne in requests of their own.            *)
(* (kickoff_client.py, wsgi.py, orchestration/__init__.py, kickoff/,        *)
(* base.py, kickoff_services.)                                              *)
(***************************************************************************)
EXTENDS Naturals, FiniteSets

CONSTANTS Kickoffs, Pushes,     \* requests of the API's clients and webhooks
          Project,              \* the CxOne project (and branch) of each
          Tagged,               \* projects with a tag for a scan agent
          Workers,              \* gunicorn workers: kickoffs served at once
          MaxScans,             \* kickoff.max-concurrent-scans
          Faults                \* failures the environment may cause

Requests == Kickoffs \cup Pushes

ASSUME KickoffAssumption ==
  /\ Kickoffs \cap Pushes = {} /\ IsFiniteSet(Kickoffs)
  /\ DOMAIN Project = Requests
  /\ Workers \in Nat \ {0} /\ MaxScans \in 1..10
  /\ Faults \subseteq {"token", "route", "publish", "auth", "service", "fail", "decline"}

VARIABLES
  client,    \* KickoffClient.kickoff_scan, for each kickoff
  retried,   \* auth_retried of __execute_request
  pc,        \* the coroutine that serves the request
  listed,    \* number of running_scans the coroutine has read
  authFails, \* clone_auth_fails
  delegated, \* requests handed to a scan agent
  scan,      \* CxOne: the scan made for the request
  feedback,  \* what became of the feedback workflow of each kickoff's scan
  before     \* history: live scans of the project when a kickoff in service was accepted

vars == <<client, retried, pc, listed, authFails, delegated, scan, feedback, before>>

Answers == {"started", "exists", "toomany", "error"}
Serving == {"received", "listed", "clear", "orchestrate", "submitted"}

(* Types: in particular a clone is retried once after an authentication     *)
(* failure.                                                                 *)
TypeOK ==
  /\ client \in [Kickoffs -> {"ready", "sent", "sleeping"} \cup Answers]
  /\ retried \in [Kickoffs -> BOOLEAN]
  /\ pc \in [Requests -> {"none", "queued", "ended"} \cup Serving]
  /\ listed \in [Kickoffs -> 0..Cardinality(Kickoffs)]
  /\ authFails \in [Requests -> 0..1]
  /\ before \in [Kickoffs -> SUBSET Requests]
  /\ delegated \subseteq Requests
  /\ feedback \in [Kickoffs -> {"none", "started", "refused"}]
  /\ scan \in [Requests -> {"none", "running", "completed", "failed"}]

Init ==
  /\ client = [k \in Kickoffs |-> "ready"] /\ retried = [k \in Kickoffs |-> FALSE]
  /\ pc = [r \in Requests |-> "none"]
  /\ listed = [k \in Kickoffs |-> 0] /\ authFails = [r \in Requests |-> 0]
  /\ delegated = {} /\ feedback = [k \in Kickoffs |-> "none"]
  /\ scan = [r \in Requests |-> "none"] /\ before = [k \in Kickoffs |-> {}]
-----------------------------------------------------------------------------
(***************************************************************************)
(* CxOne (external): a scan ends; the lists the server reads.               *)
(***************************************************************************)
ScanFinishes(r) ==
  /\ scan[r] = "running"
  /\ \/ scan' = [scan EXCEPT ![r] = "completed"]
     \/ "fail" \in Faults /\ scan' = [scan EXCEPT ![r] = "failed"]
  /\ UNCHANGED <<client, retried, pc, listed, authFails, delegated, feedback, before>>

(* The scan agent of a delegated request submits the scan, with its tags.   *)
AgentScans(r) ==
  /\ r \in delegated /\ scan[r] = "none"
  /\ scan' = [scan EXCEPT ![r] = "running"]
  /\ UNCHANGED <<client, retried, pc, listed, authFails, delegated, feedback, before>>

Live(r) == scan[r] \in {"running", "completed"}
RunningKickoffs == { k \in Kickoffs : scan[k] = "running" }

OneScanExists_OfKickoff(p) == \E k \in Kickoffs : Project[k] = p /\ scan[k] = "running"

OneScanExists(p) == \E r \in Requests : Project[r] = p /\ Live(r)

CompletedKickoff(p) == \E k \in Kickoffs : Project[k] = p /\ Live(k)
-----------------------------------------------------------------------------
(***************************************************************************)
(* kickoff_scan: send, and on 429 sleep and send again unless the callback  *)
(* declines.  Of a 401 the request is sent once more with a new token.      *)
(***************************************************************************)
Send(k) ==
  /\ client[k] \in {"ready", "sleeping"}
  /\ client' = [client EXCEPT ![k] = "sent"]
  /\ pc' = [pc EXCEPT ![k] = "queued"]
  /\ UNCHANGED <<retried, listed, authFails, delegated, scan, feedback, before>>

(* The response: the coroutine ends and the client acts on the status.      *)
Respond(k, answer) ==
  /\ client' = [client EXCEPT ![k] = answer]
  /\ retried' = [retried EXCEPT ![k] = FALSE]
  /\ pc' = [pc EXCEPT ![k] = "none"]
  /\ listed' = [listed EXCEPT ![k] = 0]
  /\ authFails' = [authFails EXCEPT ![k] = 0]
  /\ before' = [before EXCEPT ![k] = {}]

(* The token was signed for 600 s, at least 60 of them left when sent, and  *)
(* is checked when a worker takes the request.                              *)
Unauthorized(k) ==
  /\ "token" \in Faults
  /\ pc[k] = "queued"
  /\ IF retried[k] THEN Respond(k, "error")
     ELSE /\ client' = [client EXCEPT ![k] = "ready"] /\ retried' = [retried EXCEPT ![k] = TRUE]
          /\ pc' = [pc EXCEPT ![k] = "none"] /\ UNCHANGED <<listed, authFails, before>>
  /\ UNCHANGED <<delegated, scan, feedback>>

NoRoute(k) ==
  /\ "route" \in Faults
  /\ pc[k] = "queued"
  /\ Respond(k, "error")
  /\ UNCHANGED <<delegated, scan, feedback>>
-----------------------------------------------------------------------------
(***************************************************************************)
(* KickoffOrchestrator.execute: one request to CxOne per step.              *)
(***************************************************************************)
InService == { k \in Kickoffs : pc[k] \in Serving }

Accept(k) ==
  /\ pc[k] = "queued" /\ Cardinality(InService) < Workers
  /\ pc' = [pc EXCEPT ![k] = "received"]
  /\ retried' = [retried EXCEPT ![k] = FALSE]     \* not read after this
  /\ before' = [before EXCEPT ![k] = { r \in Requests : Project[r] = Project[k] /\ Live(r) }]
  /\ UNCHANGED <<client, listed, authFails, delegated, scan, feedback>>

ListRunning_Finished(k) ==
  /\ pc[k] = "received"
  /\ listed' = [listed EXCEPT ![k] = Cardinality({ j \in Kickoffs : Live(j) })]
  /\ pc' = [pc EXCEPT ![k] = "listed"]
  /\ UNCHANGED <<client, retried, authFails, delegated, scan, feedback, before>>

ListRunning(k) ==
  /\ pc[k] = "received"
  /\ listed' = [listed EXCEPT ![k] = Cardinality(RunningKickoffs)]
  /\ pc' = [pc EXCEPT ![k] = "listed"]
  /\ UNCHANGED <<client, retried, authFails, delegated, scan, feedback, before>>

ScanExists(k) ==
  /\ \/ pc[k] = "listed" /\ OneScanExists(Project[k])
     \/ pc[k] = "clear" /\ CompletedKickoff(Project[k])
  /\ Respond(k, "exists")
  /\ UNCHANGED <<delegated, scan, feedback>>

TooMany_OffByOne(n) == n > MaxScans

TooMany(n) == n >= MaxScans

TooManyScans(k) ==
  /\ pc[k] = "listed" /\ ~OneScanExists(Project[k]) /\ TooMany(listed[k])
  /\ \/ Respond(k, "sleeping")
     \/ "decline" \in Faults /\ Respond(k, "toomany")
  /\ UNCHANGED <<delegated, scan, feedback>>

BranchClear(k) ==
  /\ pc[k] = "listed" /\ ~OneScanExists(Project[k]) /\ ~TooMany(listed[k])
  /\ pc' = [pc EXCEPT ![k] = "clear"]
  /\ listed' = [listed EXCEPT ![k] = 0]           \* not read after this
  /\ UNCHANGED <<client, retried, authFails, delegated, scan, feedback, before>>

ProjectClear(k) ==
  /\ pc[k] = "clear" /\ ~CompletedKickoff(Project[k])
  /\ pc' = [pc EXCEPT ![k] = "orchestrate"]
  /\ UNCHANGED <<client, retried, listed, authFails, delegated, scan, feedback, before>>

(* OrchestrationDispatch.execute of a webhook push: an event with no route, *)
(* of another kind or with a wrong signature ends here.                     *)
PushEvent(r) ==
  /\ pc[r] = "none" /\ r \in Pushes
  /\ pc' = [pc EXCEPT ![r] = "orchestrate"]
  /\ UNCHANGED <<client, retried, listed, authFails, delegated, scan, feedback, before>>
-----------------------------------------------------------------------------
(***************************************************************************)
(* _execute_push_scan_workflow and __orchestrate_scan, for both.            *)
(***************************************************************************)
Ends(r, answer) ==
  IF r \in Kickoffs THEN Respond(r, answer)
  ELSE /\ pc' = [pc EXCEPT ![r] = "ended"] /\ authFails' = [authFails EXCEPT ![r] = 0]
       /\ UNCHANGED <<client, retried, listed, before>>

(* get_resolver_tag_for_project: the project's tag, else the default's.     *)
HasAgentTag(r) == Project[r] \in Tagged

(* Delegated: no inspector, which execute dereferences: an error, although  *)
(* a scan will be made.                                                     *)
Delegate(r) ==
  /\ pc[r] = "orchestrate" /\ HasAgentTag(r)
  /\ delegated' = delegated \cup {r}
  /\ Ends(r, "error")
  /\ UNCHANGED <<scan, feedback>>

(* The server scans: there is no tag, or request_resolver_scan has failed.  *)
Locally(r) == pc[r] = "orchestrate" /\ (HasAgentTag(r) => "publish" \in Faults)

(* git fails with an authentication error: CloneAuthException.              *)
CloneAuthException(r) == "auth" \in Faults /\ Locally(r)

CloneAuthFails_Unbounded(r) ==
  /\ CloneAuthException(r)
  /\ authFails' = [authFails EXCEPT ![r] = @ + 1]
  /\ UNCHANGED <<client, retried, pc, listed, delegated, scan, feedback, before>>

(* exec_clone_scan: a second CloneAuthException ends the loop without a     *)
(* result, which the caller cannot unpack; both end in an exception.        *)
CloneAuthFails(r) ==
  /\ CloneAuthException(r)
  /\ IF authFails[r] = 0
     THEN authFails' = [authFails EXCEPT ![r] = 1] /\ UNCHANGED <<client, retried, pc, listed, before>>
     ELSE Ends(r, "error")
  /\ UNCHANGED <<delegated, scan, feedback>>

SubmitScan(r) ==
  /\ Locally(r)
  /\ scan' = [scan EXCEPT ![r] = "running"]
  /\ pc' = [pc EXCEPT ![r] = "submitted"]
  /\ authFails' = [authFails EXCEPT ![r] = 0]     \* not read after this
  /\ UNCHANGED <<client, retried, listed, delegated, feedback, before>>

StartFeedback_Later(r) ==
  /\ pc[r] = "submitted"
  /\ Ends(r, "started")
  /\ UNCHANGED <<delegated, scan, feedback>>

(* The await message is published.  That the broker refused it is logged,   *)
(* and the request goes on: workflow_start drops what _publish returns.     *)
StartFeedback(r) ==
  /\ pc[r] = "submitted"
  /\ \E outcome \in {"started"} \cup (IF "publish" \in Faults THEN {"refused"} ELSE {}) :
       feedback' = [k \in Kickoffs |-> IF k = r THEN outcome ELSE feedback[k]]
  /\ Ends(r, "started")
  /\ UNCHANGED <<delegated, scan>>

(* The request ends without a result: an exception of CxOne, the clone, the *)
(* zip or the feedback workflow; a branch that is not protected, for which  *)
(* there is no inspector; or gunicorn aborts the worker and the client sees *)
(* the connection closed.                                                   *)
ServiceFails(r) ==
  /\ "service" \in Faults
  /\ pc[r] \in Serving
  /\ Ends(r, "error")
  /\ UNCHANGED <<delegated, scan, feedback>>
-----------------------------------------------------------------------------
Served(k) ==
  \/ Send(k) \/ Accept(k) \/ ListRunning(k) \/ ScanExists(k) \/ TooManyScans(k)
  \/ BranchClear(k) \/ ProjectClear(k)

Scanned(r) == Delegate(r) \/ SubmitScan(r) \/ StartFeedback(r)

Next ==
  \/ \E k \in Kickoffs : Served(k) \/ Unauthorized(k) \/ NoRoute(k)
  \/ \E r \in Requests :
       \/ PushEvent(r) \/ Scanned(r) \/ CloneAuthFails(r) \/ ServiceFails(r)
       \/ AgentScans(r) \/ ScanFinishes(r)

Spec == Init /\ [][Next]_vars

(* Kickoffs are served, without help from the faults, and CxOne's scans of  *)
(* them end.                                                                *)
FairSpec ==
  /\ Spec
  /\ \A k \in Kickoffs : WF_vars(Served(k) \/ Scanned(k)) /\ WF_vars(ScanFinishes(k))
-----------------------------------------------------------------------------
Local == { k \in Kickoffs : k \notin delegated }

(* max-concurrent-scans is checked against a list read earlier, by several  *)
(* workers at once: it can be exceeded, by at most the other workers.       *)
ConcurrencyBound ==
  Cardinality({ k \in Local : scan[k] = "running" }) <= MaxScans + Workers - 1

(* No kickoff scans a project that had a live scan, of whatever origin,     *)
(* when its request was accepted: repeating a kickoff makes no new scan.    *)
(* (One that started since can be missed.)                                  *)
NoRepeat ==
  \A k \in Kickoffs : pc[k] = "submitted" => \A r \in before[k] : scan[r] = "failed"

(* What a client may conclude from its answer.  299: another request has    *)
(* made a scan of its project.  201: its own scan was made and its feedback *)
(* workflow was published, or the broker refused it, which the client is    *)
(* not told.  A scan whose feedback was not even tried belongs to a request *)
(* in service, to a delegated one, or to one that was answered an error.    *)
AnswerIsTrue ==
  \A k \in Kickoffs :
    /\ client[k] = "exists" =>
         \E r \in Requests \ {k} : Project[r] = Project[k] /\ scan[r] # "none"
    /\ client[k] = "started" => scan[k] # "none" /\ feedback[k] # "none"
    /\ scan[k] # "none" /\ k \in Local /\ feedback[k] = "none"
         => pc[k] = "submitted" \/ client[k] = "error"

(* Every kickoff is answered in the end, also one that has to wait for a    *)
(* free slot: running scans end and the client keeps asking.                *)
KickoffAnswered == \A k \in Kickoffs : client[k] = "sent" ~> client[k] \in Answers
=============================================================================

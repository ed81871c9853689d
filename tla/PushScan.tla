------------------------------ MODULE PushScan ------------------------------
(***************************************************************************)
(* The webhook events of pushes, from the SCM to the scan of the pushed    *)
(* commit: the orchestrators read one branch and hash from the payload,    *)
(* ask the SCM which branches are protected (APISession.exec), clone the   *)
(* repository as it is by then, reset it to the hash and submit it.  The   *)
(* branches move on meanwhile.  GitHub is used as an App, its tokens are   *)
(* AppTokens'; the other SCMs have fixed credentials.  What happens before *)
(* a push's task starts is in Kickoff, the project in ProjectSetup.        *)
(***************************************************************************)
EXTENDS AppTokens, Sequences, FiniteSets

CONSTANTS SCMs, Branches, Default,
          Protections, \* the sets of branches that may be protected
          Retries,     \* connection.retries: tries of a request to the SCM's API
          MaxEvents,   \* events sent
          MaxCommit,   \* commits made
          MaxFaults    \* requests that may fail and tokens that may end

Events == 1..MaxEvents

ASSUME PushAssumption ==
  /\ SCMs \subseteq {"gh", "gl", "bbdc", "adoe"} /\ Default \in Branches
  /\ Protections \subseteq SUBSET Branches
  /\ Retries \in Nat \ {0} /\ MaxEvents \in Nat /\ MaxCommit \in Nat \ {0} /\ MaxFaults \in Nat
  /\ Callers = Events

VARIABLES
  scm, protected,  \* the installation
  on,              \* SCM: the commits of every branch; {} for no branch
  commits,         \* SCM: commits made so far
  event,           \* the changes of every event sent
  pc,              \* where the coroutine of an event stands
  tries,           \* tryCount of exec, then clone_auth_fails
  cloned,          \* commits of the event's clone
  code,            \* the commit its working tree is at
  scan,            \* CxOne: the scan made for the event
  feedback,        \* events whose SARIF feedback was started
  faults,          \* failures so far
  cause            \* history: at which step and why the event ended

scmVars == <<scm, protected, on, commits, event>>
vars == <<scmVars, pc, tries, cloned, code, scan, feedback, faults, cause, tokenVars>>

NoCommit == 0    \* the hash of forty zeros
Commits == NoCommit..MaxCommit

Changes == [branch : Branches, type : {"ADD", "UPDATE", "DELETE"}, hash : Commits]
NoScan == [branch |-> "none", hash |-> NoCommit, code |-> NoCommit]
Sent == DOMAIN event

Init ==
  /\ scm \in SCMs /\ protected \in Protections
  /\ on = [b \in Branches |-> {1}] /\ commits = 1 /\ event = <<>>
  /\ pc = [e \in Events |-> "unsent"] /\ tries = [e \in Events |-> 0]
  /\ cloned = [e \in Events |-> {}] /\ code = [e \in Events |-> NoCommit]
  /\ scan = [e \in Events |-> NoScan] /\ feedback = {}
  /\ faults = 0 /\ cause = [e \in Events |-> [at |-> "none", why |-> "none"]]
  /\ TokenInit
-----------------------------------------------------------------------------
(***************************************************************************)
(* The SCM (external).                                                     *)
(***************************************************************************)
Tip(b) == CHOOSE c \in on[b] : \A d \in on[b] : d <= c

Change(b, type, hash) == [branch |-> b, type |-> type, hash |-> hash]

Send(changes) ==
  /\ Len(event) < MaxEvents
  /\ event' = Append(event, changes)
  /\ pc' = [pc EXCEPT ![Len(event) + 1] = "received"]
  /\ UNCHANGED <<scm, protected, tries, cloned, code, scan, feedback, faults, cause, tokenVars>>

\* A new commit; a forced push leaves the branch's others unreachable.
UserPushes(b, forced) ==
  /\ commits < MaxCommit /\ commits' = commits + 1
  /\ on' = [on EXCEPT ![b] = IF forced THEN {commits'} ELSE @ \cup {commits'}]
  /\ Send(<<Change(b, IF on[b] = {} THEN "ADD" ELSE "UPDATE", commits')>>)

UserDeletes(b) ==
  /\ b # Default /\ on[b] # {}
  /\ on' = [on EXCEPT ![b] = {}]
  /\ Send(<<Change(b, "DELETE", NoCommit)>>)
  /\ UNCHANGED commits

\* One push of two branches.  GitHub and GitLab send an event for each ref;
\* Bitbucket and Azure DevOps put both in one, in some order.
UserPushesTwo(a, b) ==
  /\ scm \in {"bbdc", "adoe"} /\ a # b /\ on[a] # {} /\ on[b] # {}
  /\ commits < MaxCommit /\ commits' = commits + 1
  /\ \E deleted \in {FALSE, a # Default} :
       LET first == IF deleted THEN Change(a, "DELETE", NoCommit) ELSE Change(a, "UPDATE", commits')
       IN /\ on' = [on EXCEPT ![a] = IF deleted THEN {} ELSE @ \cup {commits'},
                              ![b] = @ \cup {commits'}]
          /\ \/ Send(<<first, Change(b, "UPDATE", commits')>>)
             \/ Send(<<Change(b, "UPDATE", commits'), first>>)

User ==
  \/ \E b \in Branches, forced \in BOOLEAN : UserPushes(b, forced)
  \/ \E b \in Branches : UserDeletes(b)
  \/ \E a, b \in Branches : UserPushesTwo(a, b)
-----------------------------------------------------------------------------
(***************************************************************************)
(* The orchestrators: the branch and hash of an event, and the branches    *)
(* that are protected.                                                     *)
(***************************************************************************)
\* The dispatch map of GitLab has no entry for a deleted branch.
Dispatched(e) == scm = "gl" => event[e][1].type # "DELETE"

\* Bitbucket takes no branch when no change adds or updates one.
Scannable(e) ==
  scm = "bbdc" => \E i \in DOMAIN event[e] : event[e][i].type \in {"ADD", "UPDATE"}

\* A faulty variant of Target: the last change.
Target_Last(e) == event[e][Len(event[e])]

\* Also where there are several changes, the first one, whatever its type.
Target(e) == IF Scannable(e) THEN event[e][1] ELSE Change("none", "DELETE", NoCommit)

\* GitHub lists branches that exist, and its default if there are none.
GithubProtected ==
  LET listed == {b \in protected : on[b] # {}} IN IF listed = {} THEN {Default} ELSE listed

ProtectedBranches ==
  CASE scm = "gh" -> GithubProtected
    [] scm = "bbdc" -> protected
    [] OTHER -> protected \cup {Default}

Goto(e, step) == pc' = [pc EXCEPT ![e] = step]

\* The task ends, with its token, tries and clone: normally also when the
\* feedback was not published, else with an exception.
Ends(e, why) ==
  /\ Goto(e, IF why \in {"none", "unpublished"} THEN "done" ELSE "failed")
  /\ cause' = [cause EXCEPT ![e] = [at |-> pc[e], why |-> why]]
  /\ Release(e)
  /\ tries' = [tries EXCEPT ![e] = 0]
  /\ cloned' = [cloned EXCEPT ![e] = {}] /\ code' = [code EXCEPT ![e] = NoCommit]

\* GitLab's payload says what is protected, the others' API is asked.
Receive(e) ==
  /\ pc[e] = "received"
  /\ Goto(e, IF ~ Dispatched(e) THEN "done" ELSE IF scm # "gl" THEN "api"
             ELSE IF Target(e).branch \in ProtectedBranches THEN "clone" ELSE "done")
  /\ UNCHANGED <<scmVars, tries, cloned, code, scan, feedback, faults, cause, tokenVars>>
-----------------------------------------------------------------------------
(***************************************************************************)
(* Requests to the SCM, with a token where it is a GitHub App.             *)
(***************************************************************************)
Calling(e) == pc[e] \in {"api", "clone"}
Ready(e) == IF scm = "gh" THEN Accepted(e) ELSE TRUE
Refused(e) == scm = "gh" /\ Denied(e)

\* A faulty variant of ForceReauth: the cached token is good for every try.
ForceReauth_Never(e) == FALSE

\* force_reauth: from the second try on.
ForceReauth(e) == tries[e] > 0

GetToken(e) ==
  /\ Calling(e) /\ scm = "gh"
  /\ TakeCached(e, ForceReauth(e)) \/ AskToken(e, ForceReauth(e)) \/ StoreToken(e)
  /\ UNCHANGED <<scmVars, pc, tries, cloned, code, scan, feedback, faults, cause>>

\* json_on_ok raises.
TokenRefused(e) ==
  /\ Calling(e) /\ scm = "gh" /\ Wants(e) /\ (Cached = NoToken \/ ForceReauth(e))
  /\ faults < MaxFaults /\ faults' = faults + 1
  /\ Ends(e, "fault")
  /\ UNCHANGED <<scmVars, scan, feedback>>

ApiAnswers(e) ==
  /\ pc[e] = "api" /\ Ready(e)
  /\ Goto(e, IF Target(e).branch \in ProtectedBranches THEN "clone" ELSE "done")
  /\ tries' = [tries EXCEPT ![e] = 0] /\ Release(e)
  /\ UNCHANGED <<scmVars, cloned, code, scan, feedback, faults, cause>>

\* How the token came to be denied: it ended since it was given out, or it
\* was expired or revoked already.
Blame(e) == IF died[e] THEN "died" ELSE token[hand[e]]

\* A token that has ended: 401, so SCMAuthException, without another try.
ApiDenied(e) ==
  /\ pc[e] = "api" /\ Refused(e)
  /\ Ends(e, Blame(e))
  /\ UNCHANGED <<scmVars, scan, feedback, faults>>

\* What else is not tried again: an exception of the request itself, as for
\* a timeout or a lost connection; and a 401 or 403 although the token, or
\* an SCM's fixed credentials, are good (a permission or a rate limit).
ApiGivesUp(e) ==
  /\ pc[e] = "api" /\ (scm = "gh" => hand[e] # NoToken)
  /\ faults < MaxFaults /\ faults' = faults + 1
  /\ \E why \in {"raised"} \cup (IF Ready(e) THEN {"forbidden"} ELSE {}) : Ends(e, why)
  /\ UNCHANGED <<scmVars, scan, feedback>>

\* A faulty variant of TriesLeft: one too many.
TriesLeft_OneMore(e) == tries[e] < Retries

TriesLeft(e) == tries[e] + 1 < Retries

\* Any other status that is not ok is tried again.
ApiFails(e) ==
  /\ pc[e] = "api" /\ (scm = "gh" => hand[e] # NoToken)
  /\ faults < MaxFaults /\ faults' = faults + 1
  /\ IF TriesLeft(e)
     THEN /\ tries' = [tries EXCEPT ![e] = @ + 1]
          /\ Release(e)
          /\ UNCHANGED <<pc, cause, cloned, code>>
     ELSE Ends(e, "fault")
  /\ UNCHANGED <<scmVars, scan, feedback>>
-----------------------------------------------------------------------------
(***************************************************************************)
(* exec_clone_scan.                                                        *)
(***************************************************************************)
Reachable == UNION {on[b] : b \in Branches}

\* The whole repository as it is now, the default branch checked out.
Clone(e) ==
  /\ pc[e] = "clone" /\ Ready(e)
  /\ cloned' = [cloned EXCEPT ![e] = Reachable]
  /\ code' = [code EXCEPT ![e] = Tip(Default)]
  /\ Goto(e, "reset")
  /\ tries' = [tries EXCEPT ![e] = 0] /\ Release(e)
  /\ UNCHANGED <<scmVars, scan, feedback, faults, cause>>

\* CloneAuthException: once more with a new token, then the loop ends
\* without the pair its caller unpacks.
CloneDenied(e) ==
  /\ pc[e] = "clone" /\ Refused(e)
  /\ IF tries[e] = 0
     THEN tries' = [tries EXCEPT ![e] = 1] /\ Release(e) /\ UNCHANGED <<pc, cause, cloned, code>>
     ELSE Ends(e, Blame(e))
  /\ UNCHANGED <<scmVars, scan, feedback, faults>>

\* The same although the token, or the fixed credentials, are good.
CloneForbidden(e) ==
  /\ pc[e] = "clone" /\ Ready(e)
  /\ faults < MaxFaults /\ faults' = faults + 1
  /\ IF tries[e] = 0
     THEN tries' = [tries EXCEPT ![e] = 1] /\ Release(e) /\ UNCHANGED <<pc, cause, cloned, code>>
     ELSE Ends(e, "forbidden")
  /\ UNCHANGED <<scmVars, scan, feedback>>

\* A faulty variant of ResetHead: the clone is scanned as it is.
ResetHead_Not(e) ==
  /\ pc[e] = "reset"
  /\ Goto(e, "submit")
  /\ UNCHANGED <<scmVars, tries, cloned, code, scan, feedback, faults, cause, tokenVars>>

\* git reset --hard: the commit may be gone from the branches by now, and a
\* deleted branch has none.
ResetHead(e) ==
  /\ pc[e] = "reset"
  /\ IF Target(e).hash \in cloned[e]
     THEN /\ code' = [code EXCEPT ![e] = Target(e).hash]
          /\ cloned' = [cloned EXCEPT ![e] = {}]
          /\ Goto(e, "submit") /\ UNCHANGED <<tries, cause, tokenVars>>
     ELSE Ends(e, "gone")
  /\ UNCHANGED <<scmVars, scan, feedback, faults>>

\* exec_local_scan; the scan's branch and commit tag are the event's.
SubmitScan(e) ==
  /\ pc[e] = "submit"
  /\ scan' = [scan EXCEPT ![e] =
       [branch |-> Target(e).branch, hash |-> Target(e).hash, code |-> code[e]]]
  /\ Goto(e, "submitted")
  /\ UNCHANGED <<scmVars, tries, cloned, code, feedback, faults, cause, tokenVars>>

StartFeedback(e) ==
  /\ pc[e] = "submitted"
  /\ feedback' = feedback \cup {e}
  /\ Ends(e, "none")
  /\ UNCHANGED <<scmVars, scan, faults>>

\* The broker refuses the message: logged, and the task ends as if it had not.
FeedbackRefused(e) ==
  /\ pc[e] = "submitted"
  /\ faults < MaxFaults /\ faults' = faults + 1
  /\ Ends(e, "unpublished")
  /\ UNCHANGED <<scmVars, scan, feedback>>

\* An exception of git, the project's set-up, the zip, the submission or the
\* feedback: the background task ends.
ScanFails(e) ==
  /\ pc[e] \in {"reset", "submit", "submitted"} \/ (pc[e] = "clone" /\ Ready(e))
  /\ faults < MaxFaults /\ faults' = faults + 1
  /\ Ends(e, "fault")
  /\ UNCHANGED <<scmVars, scan, feedback>>
-----------------------------------------------------------------------------
Step(e) ==
  \/ Receive(e) \/ GetToken(e) \/ TokenRefused(e)
  \/ ApiAnswers(e) \/ ApiDenied(e) \/ ApiGivesUp(e) \/ ApiFails(e)
  \/ Clone(e) \/ CloneDenied(e) \/ CloneForbidden(e) \/ ResetHead(e) \/ SubmitScan(e)
  \/ StartFeedback(e) \/ FeedbackRefused(e) \/ ScanFails(e)

\* GitHub ends a token.
Github ==
  \E t \in Tokens, end \in {"expired", "revoked"} :
    /\ TokenDies(t, end)
    /\ faults < MaxFaults /\ faults' = faults + 1
    /\ UNCHANGED <<scmVars, pc, tries, cloned, code, scan, feedback, cause>>

Next == User \/ Github \/ \E e \in Sent : Step(e)

Spec == Init /\ [][Next]_vars

\* The event loop runs every task, and every request is answered.
FairSpec == Spec /\ \A e \in Events : WF_vars(e \in Sent /\ Step(e))
-----------------------------------------------------------------------------
\* Types; only a task at work has tries and a clone.
TypeOK ==
  /\ TokenTypeOK
  /\ on \in [Branches -> SUBSET (1..commits)] /\ on[Default] # {}
  /\ commits \in 1..MaxCommit /\ faults \in 0..MaxFaults
  /\ event \in Seq(Seq(Changes)) /\ Len(event) <= MaxEvents
  /\ \A e \in Events : pc[e] = "unsent" <=> e \notin Sent
  /\ pc \in [Events -> {"unsent", "received", "api", "clone", "reset", "submit", "submitted",
                        "done", "failed"}]
  /\ tries \in [Events -> 0..Retries]
  /\ \A e \in Events : tries[e] > 0 => IF pc[e] = "api" THEN tries[e] < Retries
                                        ELSE pc[e] = "clone" /\ tries[e] = 1
  /\ cloned \in [Events -> SUBSET Commits] /\ code \in [Events -> Commits]
  /\ feedback \subseteq {e \in Events : scan[e] # NoScan}

(***************************************************************************)
(* However the branches moved while the event waited and the repository    *)
(* was cloned, what is scanned is the commit the event names, under the    *)
(* branch and commit tag of a change that brought code to a branch that is *)
(* protected.                                                              *)
(***************************************************************************)
ScanIsOfPush ==
  \A e \in Sent : scan[e] # NoScan =>
    /\ scan[e].code = scan[e].hash
    /\ \E i \in DOMAIN event[e] :
         /\ event[e][i].branch = scan[e].branch /\ event[e][i].hash = scan[e].hash
         /\ event[e][i].type # "DELETE"
    /\ scan[e].branch \in protected \cup {Default}

(***************************************************************************)
(* Caching does not cost events: where GitHub denies a request for the     *)
(* protected branches because of its token, the token was revoked or ended *)
(* after it was given out, and a clone is given up for its token only when *)
(* the second one, new for this event, has ended too, whatever older       *)
(* tokens other events stored.  All else that ends these steps is no       *)
(* token's doing: tries used up or another failure ("fault"), an exception *)
(* of the request, or good credentials that are not enough.                *)
(***************************************************************************)
Elsewhere == {"fault", "raised", "forbidden"}

DenialExplained ==
  \A e \in Sent :
    /\ cause[e].at = "api" => cause[e].why \in Elsewhere \cup {"died", "revoked"}
    /\ cause[e].at = "clone" => cause[e].why \in Elsewhere \cup {"died"}

(***************************************************************************)
(* A push whose first change brings code to a protected branch is scanned  *)
(* at its commit and its feedback started, unless a request failed, the    *)
(* token was denied, the broker refused the feedback's message, or the     *)
(* commit has gone from the branches.                                      *)
(***************************************************************************)
PushScanned ==
  \A e \in Events :
    (/\ pc[e] = "received"
     /\ event[e][1].type # "DELETE" /\ event[e][1].branch \in protected
     /\ event[e][1].hash \in on[event[e][1].branch])
    ~> \/ e \in feedback /\ scan[e].code = event[e][1].hash
       \/ cause[e].why = "unpublished" /\ scan[e].code = event[e][1].hash
       \/ cause[e].why \in Elsewhere \cup {"died", "revoked"}
       \/ e \in Sent /\ event[e][1].hash \notin Reachable
       \/ e \in Sent /\ on[event[e][1].branch] = {}
=============================================================================

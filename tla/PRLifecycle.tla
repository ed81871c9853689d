---------------------------- MODULE PRLifecycle ----------------------------
(***************************************************************************)
(* The webhook events of pull requests, from the SCM to the scans and the  *)
(* scan tags of CxOne (orchestration/{gh,gl,bbdc,adoe}.py,                 *)
(* orchestration/base.py, cxone_service).  The pull requests share one     *)
(* source branch, so one commit can belong to several of them.  Every      *)
(* event is handled by a background task of its own: handlers interleave   *)
(* at every await and finish in any order.                                 *)
(***************************************************************************)
EXTENDS Naturals, FiniteSets

CONSTANTS
  SCMs,         \* the SCMs served, a subset of {"gh", "gl", "bbdc", "adoe"}
  NumPRs,       \* bound: pull requests of one source branch
  Branches,     \* branches a pull request can target
  Default,      \* the default branch of the repository
  Listed,       \* branches its protection rules (or branch model) name
  Wildcard,     \* branches its wildcard or prefix rules match
  MaxEvents,    \* bound: webhook events sent
  MaxActive,    \* bound: handlers at work at the same time
  MaxCommit,    \* bound: commits of the source branch
  Delegation,   \* whether the project has a resolver tag
  MaxLost       \* bound: handlers that fail or that CxOne or the broker refuses

ASSUME LifecycleConstants ==
  /\ SCMs # {} /\ SCMs \subseteq {"gh", "gl", "bbdc", "adoe"}
  /\ Default \in Branches /\ Listed \cup Wildcard \subseteq Branches
  /\ {NumPRs, MaxEvents, MaxActive, MaxLost} \subseteq Nat /\ MaxCommit \in Nat \ {0}
  /\ Delegation \in BOOLEAN

Events == 1..MaxEvents

PRs == 1..NumPRs

Changes == {"open", "push", "ready", "draft", "retarget", "review", "close", "reopen"}

VARIABLES
  scm,      \* the SCM of the repository
  pr,       \* [PRs -> the pull request as the SCM has it]
  head,     \* head commit of the source branch
  sent,     \* number of events sent
  event,    \* [Events -> payload of the event]
  pc,       \* [Events -> where the handler of the event is]
  scan,     \* [Events -> status of the scan the event asked for]
  tags,     \* [Events -> PR tags of that scan]
  todo,     \* [Events -> scans listed for a tag update and not updated yet]
  feedback, \* scans whose feedback workflow was started
  lost,     \* events of which a step failed or a message was refused
  seen      \* history: [Events -> what existed when the event was sent]

scmVars == <<scm, pr, head, sent, event, seen>>
vars == <<scmVars, pc, scan, tags, todo, feedback, lost>>

Reviews == {"unreviewed", "reviewed"}

PullRequest ==
  [state : {"none", "open", "closed"}, draft : BOOLEAN, target : Branches, review : Reviews]

Payload ==
  [pr : PRs, change : Changes, commit : 1..MaxCommit,
   state : {"open", "closed"}, draft : BOOLEAN, target : Branches, review : Reviews]

\* The values of pr-state (with "-draft" on GitHub), pr-status and pr-target.
TagSet ==
  [state : {"open", "closed"}, draft : BOOLEAN,
   status : Reviews \cup Changes \cup {"update"}, target : Branches]

Steps == {"unsent", "received", "orchestrate", "delegated", "submitted",
          "update", "updating", "done"}

Init ==
  /\ scm \in SCMs
  /\ pr = [p \in PRs |-> [state |-> "none", draft |-> FALSE,
                          target |-> CHOOSE b \in Branches : TRUE, review |-> "unreviewed"]]
  /\ head = 1
  /\ sent = 0
  /\ event = <<>>
  /\ pc = [e \in Events |-> "unsent"]
  /\ scan = [e \in Events |-> "none"]
  /\ tags = <<>>
  /\ todo = [e \in Events |-> {}]
  /\ feedback = {}
  /\ lost = {}
  /\ seen = <<>>

-----------------------------------------------------------------------------
(* The SCM: users change pull requests, each change sends an event.        *)

\* Scans CxOne has.
Submitted == {i \in Events : scan[i] # "none"}

\* Events whose handler is at work.
Active == {e \in Events : pc[e] \notin {"unsent", "done"}}

\* Entry x is added to f.
Add(f, x, v) == [y \in DOMAIN f \cup {x} |-> IF y = x THEN v ELSE f[y]]

\* Event sent + 1 carries pull request q as it is after the change.
Emit(p, change, commit, q) ==
  /\ sent < MaxEvents
  /\ Cardinality(Active) < MaxActive
  /\ sent' = sent + 1
  /\ event' = Add(event, sent + 1,
       [pr |-> p, change |-> change, commit |-> commit,
        state |-> q.state, draft |-> q.draft, target |-> q.target, review |-> q.review])
  /\ seen' = Add(seen, sent + 1,
       [scans |-> Submitted,
        calm |-> Active = {} /\ \A i \in Events : scan[i] # "running"])
  /\ pr' = [pr EXCEPT ![p] = q]
  /\ head' = commit
  /\ pc' = [pc EXCEPT ![sent + 1] = "received"]
  /\ UNCHANGED <<scm, scan, tags, todo, feedback, lost>>

\* The SCM numbers pull requests as they are opened.
UserOpens(p) ==
  \E d \in BOOLEAN, b \in Branches :
    /\ pr[p].state = "none" /\ \A q \in 1..(p - 1) : pr[q].state # "none"
    /\ Emit(p, "open", head, [state |-> "open", draft |-> d, target |-> b, review |-> "unreviewed"])

\* A push to a branch of several open pull requests is not enumerated: it
\* sends one event for each of them.
UserPushes(p) ==
  /\ pr[p].state = "open" /\ head < MaxCommit
  /\ \A q \in PRs \ {p} : pr[q].state # "open"
  /\ Emit(p, "push", head + 1, pr[p])

UserDrafts(p) ==
  /\ pr[p].state = "open"
  /\ Emit(p, IF pr[p].draft THEN "ready" ELSE "draft", head,
          [pr[p] EXCEPT !.draft = ~ @])

UserRetargets(p) ==
  \E b \in Branches \ {pr[p].target} :
    /\ pr[p].state = "open"
    /\ Emit(p, "retarget", head, [pr[p] EXCEPT !.target = b])

UserReviews(p) ==
  /\ pr[p].state = "open" /\ pr[p].review = "unreviewed"
  /\ Emit(p, "review", head, [pr[p] EXCEPT !.review = "reviewed"])

UserCloses(p) ==
  /\ pr[p].state = "open"
  /\ Emit(p, "close", head, [pr[p] EXCEPT !.state = "closed"])

UserReopens(p) ==
  /\ pr[p].state = "closed"
  /\ Emit(p, "reopen", head, [pr[p] EXCEPT !.state = "open"])

UserActs(p) ==
  \/ UserOpens(p) \/ UserPushes(p) \/ UserDrafts(p) \/ UserRetargets(p)
  \/ UserReviews(p) \/ UserCloses(p) \/ UserReopens(p)

\* CxOne finishes a scan.
ScanFinishes(i) ==
  /\ scan[i] = "running"
  /\ scan' = [scan EXCEPT ![i] = "finished"]
  /\ UNCHANGED <<scmVars, pc, tags, todo, feedback, lost>>

-----------------------------------------------------------------------------
(* The orchestrators.                                                      *)

\* The workflow each SCM's dispatch map gives a change: "scan", "tags", for
\* Azure DevOps and GitLab "search" (scan unless a scan of the commit is
\* found), or "none" where the map has no entry.
GithubWorkflow(change) ==
  CASE change \in {"open", "push", "ready", "reopen"} -> "scan"
    [] change \in {"review", "close", "draft"} -> "tags"
    [] change = "retarget" -> "none"

BitbucketWorkflow(change) ==
  CASE change \in {"open", "push", "ready", "draft", "retarget"} -> "scan"
    [] change \in {"review", "close"} -> "tags"
    [] change = "reopen" -> "none"

GitlabWorkflow(change) == "search"

AzureWorkflow(change) == "search"

Workflow(e) ==
  CASE scm = "gh" -> GithubWorkflow(event[e].change)
    [] scm = "bbdc" -> BitbucketWorkflow(event[e].change)
    [] scm = "gl" -> GitlabWorkflow(event[e].change)
    [] scm = "adoe" -> AzureWorkflow(event[e].change)

\* The draft check: GitHub makes it for scans only, Bitbucket for both
\* workflows, Azure DevOps and GitLab before they search.
SkipsDraft(e) == event[e].draft /\ (scm = "gh" => Workflow(e) = "scan")

\* pr-state, pr-status and pr-target as the orchestrator reads them from the
\* payload.  GitLab's status is the action that sent the event.
PRTags(e) ==
  LET v == event[e] IN
  [state |-> v.state,
   draft |-> scm = "gh" /\ v.draft,
   status |-> IF scm # "gl" THEN v.review
              ELSE IF v.change \in {"push", "ready", "draft", "retarget"} THEN "update"
              ELSE v.change,
   target |-> v.target]

\* _get_protected_branches of each SCM.  GitHub lists the branches its rules
\* match and falls back on the default branch; Bitbucket names the branches
\* of the branch model only; GitLab and Azure DevOps match wildcards here.
GithubProtected == IF Listed \cup Wildcard = {} THEN {Default} ELSE Listed \cup Wildcard

BitbucketProtected == Listed

GitlabProtected == {Default} \cup Listed \cup Wildcard

AzureProtected == {Default} \cup Listed \cup Wildcard

TargetProtected(e) ==
  event[e].target \in CASE scm = "gh" -> GithubProtected
                        [] scm = "bbdc" -> BitbucketProtected
                        [] scm = "gl" -> GitlabProtected
                        [] scm = "adoe" -> AzureProtected

SamePRCommit(i, e) == event[i].pr = event[e].pr /\ event[i].commit = event[e].commit

Goto(e, step) == pc' = [pc EXCEPT ![e] = step]

Unhandled(e) ==
  /\ pc[e] = "received" /\ Workflow(e) = "none"
  /\ Goto(e, "done")
  /\ UNCHANGED <<scmVars, scan, tags, todo, feedback, lost>>

Draft(e) ==
  /\ pc[e] = "received" /\ Workflow(e) # "none" /\ SkipsDraft(e)
  /\ Goto(e, "done")
  /\ UNCHANGED <<scmVars, scan, tags, todo, feedback, lost>>

\* GitHub and Bitbucket go by the name of the event.
Dispatch(e) ==
  /\ pc[e] = "received" /\ ~ SkipsDraft(e)
  /\ \/ Workflow(e) = "scan" /\ Goto(e, "orchestrate")
     \/ Workflow(e) = "tags" /\ Goto(e, "update")
  /\ UNCHANGED <<scmVars, scan, tags, todo, feedback, lost>>

\* Faulty variants of FindPRScans: the statuses of update_scan_pr_tags are
\* asked for; the PR id is not compared.
FindPRScans_Updatable(e) == {i \in Submitted : scan[i] = "finished" /\ SamePRCommit(i, e)}

FindPRScans_AnyPR(e) == {i \in Submitted : event[i].commit = event[e].commit}

\* Scans in any status, by project, commit and PR id.
FindPRScans(e) == {i \in Submitted : SamePRCommit(i, e)}

\* Azure DevOps and GitLab: what is read here decides what is done after
\* several more awaits.
Search(e) ==
  /\ pc[e] = "received" /\ Workflow(e) = "search" /\ ~ SkipsDraft(e)
  /\ Goto(e, IF FindPRScans(e) # {} THEN "update"
             ELSE IF scm = "gl" /\ event[e].state = "closed" THEN "done"
             ELSE "orchestrate")
  /\ UNCHANGED <<scmVars, scan, tags, todo, feedback, lost>>

-----------------------------------------------------------------------------
(* Scan workflow.                                                          *)

NotProtected(e) ==
  /\ pc[e] = "orchestrate" /\ ~ TargetProtected(e)
  /\ Goto(e, "done")
  /\ UNCHANGED <<scmVars, scan, tags, todo, feedback, lost>>

\* Locally, also when the request to delegate is refused, or by the scan
\* agent that got the request.  The scan carries the tags of the event,
\* however long the clone or the agent took.
SubmitScan(e) ==
  /\ \/ pc[e] = "orchestrate" /\ TargetProtected(e)
     \/ pc[e] = "delegated"
  /\ Goto(e, "submitted")
  /\ scan' = [scan EXCEPT ![e] = "running"]
  /\ tags' = Add(tags, e, PRTags(e))
  /\ UNCHANGED <<scmVars, todo, feedback, lost>>

\* The request, with the tags, goes to a scan agent.
Delegate(e) ==
  /\ pc[e] = "orchestrate" /\ TargetProtected(e) /\ Delegation
  /\ Goto(e, "delegated")
  /\ UNCHANGED <<scmVars, scan, tags, todo, feedback, lost>>

StartPRWorkflow(e) ==
  /\ pc[e] = "submitted"
  /\ Goto(e, "done")
  /\ feedback' = feedback \cup {e}
  /\ UNCHANGED <<scmVars, scan, tags, todo, lost>>

CanLose(e) == Cardinality(lost \cup {e}) <= MaxLost

\* The broker refuses the await message: _publish logs it and its result is
\* discarded, so the handler ends as if the feedback had been started.
FeedbackRefused(e) ==
  /\ pc[e] = "submitted"
  /\ CanLose(e) /\ lost' = lost \cup {e}
  /\ Goto(e, "done")
  /\ UNCHANGED <<scmVars, scan, tags, todo, feedback>>

-----------------------------------------------------------------------------
(* Tag update workflow.                                                    *)

\* Faulty variants of UpdatableScans: the PR id is not qualified; scans that
\* still run are listed instead of the finished ones.
UpdatableScans_AnyPR(e) == {i \in Submitted : scan[i] = "finished" /\ event[i].commit = event[e].commit}

UpdatableScans_Running(e) == {i \in Submitted : scan[i] = "running" /\ SamePRCommit(i, e)}

\* Completed, Failed and Partial scans of the commit, of this pull request.
UpdatableScans(e) == {i \in Submitted : scan[i] = "finished" /\ SamePRCommit(i, e)}

\* Faulty variant of ListScans: an empty list does not end the handler.
ListScans_Empty(e) ==
  /\ pc[e] = "update"
  /\ Goto(e, "updating")
  /\ todo' = [todo EXCEPT ![e] = UpdatableScans(e)]
  /\ UNCHANGED <<scmVars, scan, tags, feedback, lost>>

ListScans(e) ==
  /\ pc[e] = "update"
  /\ Goto(e, IF UpdatableScans(e) = {} THEN "done" ELSE "updating")
  /\ todo' = [todo EXCEPT ![e] = UpdatableScans(e)]
  /\ UNCHANGED <<scmVars, scan, tags, feedback, lost>>

Updated(e, i) ==
  /\ pc[e] = "updating" /\ i \in todo[e]
  /\ todo' = [todo EXCEPT ![e] = @ \ {i}]
  /\ Goto(e, IF todo[e] = {i} THEN "done" ELSE "updating")

UpdateTags(e, i) ==
  /\ Updated(e, i)
  /\ tags' = [tags EXCEPT ![i] = PRTags(e)]
  /\ UNCHANGED <<scmVars, scan, feedback, lost>>

\* CxOne refuses the update: a warning, and the next scan.
UpdateRefused(e, i) ==
  /\ Updated(e, i)
  /\ CanLose(e) /\ lost' = lost \cup {e}
  /\ UNCHANGED <<scmVars, scan, tags, feedback>>

\* An exception, an invalid signature or an unknown route: the background
\* task ends, its failure is logged and nothing handles the event again.
HandlerFails(e) ==
  /\ e \in Active
  /\ CanLose(e) /\ lost' = lost \cup {e}
  /\ Goto(e, "done")
  /\ todo' = [todo EXCEPT ![e] = {}]
  /\ UNCHANGED <<scmVars, scan, tags, feedback>>

-----------------------------------------------------------------------------
Progress(e) ==
  \/ Unhandled(e) \/ Draft(e) \/ Dispatch(e) \/ Search(e)
  \/ NotProtected(e) \/ SubmitScan(e) \/ Delegate(e) \/ StartPRWorkflow(e)
  \/ ListScans(e)
  \/ \E i \in Events : UpdateTags(e, i)

Next ==
  \/ \E p \in PRs : UserActs(p)
  \/ \E i \in Events : ScanFinishes(i)
  \/ \E e \in Events : Progress(e)
  \/ \E e, i \in Events : UpdateRefused(e, i)
  \/ \E e \in Events : FeedbackRefused(e) \/ HandlerFails(e)

Spec == Init /\ [][Next]_vars

\* The event loop runs every task; the scan agent answers every request.
FairSpec == Spec /\ \A e \in Events : WF_vars(Progress(e))

-----------------------------------------------------------------------------
\* Types; only sent events have a payload and only submitted scans have tags.
TypeOK ==
  /\ scm \in SCMs
  /\ pr \in [PRs -> PullRequest]
  /\ head \in 1..MaxCommit
  /\ sent \in 0..MaxEvents
  /\ event \in [1..sent -> Payload]
  /\ seen \in [1..sent -> [scans : SUBSET Events, calm : BOOLEAN]]
  /\ pc \in [Events -> Steps]
  /\ \A e \in Events : pc[e] = "unsent" <=> e > sent
  /\ scan \in [Events -> {"none", "running", "finished"}]
  /\ tags \in [Submitted -> TagSet]
  /\ todo \in [Events -> SUBSET Events]
  /\ \A e \in Events : todo[e] # {} <=> pc[e] = "updating"
  /\ feedback \in SUBSET Submitted
  /\ lost \in SUBSET (1..sent)

(***************************************************************************)
(* update_scan_pr_tags finds scans by commit and qualifies the PR id, and  *)
(* the scan's tags come from the event it was asked by: whatever the order *)
(* of the handlers, the tags of a scan are a state its own pull request    *)
(* was in while its head was the scanned commit.                           *)
(***************************************************************************)
TagsOfOwnPR ==
  \A i \in Submitted : \E e \in 1..sent : SamePRCommit(i, e) /\ tags[i] = PRTags(e)

(***************************************************************************)
(* Azure DevOps and GitLab send the same event for a new commit and for    *)
(* every other change: find_pr_scans keeps a change from scanning again a  *)
(* commit that had been submitted, running or not, when it was sent.       *)
(***************************************************************************)
NoRescan ==
  scm \in {"gl", "adoe"} =>
    \A i \in Submitted : \A j \in seen[i].scans : ~ SamePRCommit(i, j)

(***************************************************************************)
(* An event of a scan workflow, not a draft's and for a protected target,  *)
(* leads to a scan of its commit for its own pull request, with the PR     *)
(* feedback started, unless a handler failed or the broker refused its     *)
(* message.  (GitLab ignores a closed pull request.)                       *)
(***************************************************************************)
CommitScanned ==
  \A e \in Events :
    (/\ pc[e] = "received"
     /\ Workflow(e) \in {"scan", "search"}
     /\ ~ event[e].draft
     /\ TargetProtected(e)
     /\ ~ (scm = "gl" /\ event[e].state = "closed"))
    ~> (lost # {} \/ \E i \in feedback : e <= sent /\ SamePRCommit(i, e))

(***************************************************************************)
(* When a change the dispatch map knows is made while no handler is at     *)
(* work and the scans are over, and no change follows it, the tags of some *)
(* scan of the pull request's commit come to show it, unless its handling  *)
(* failed.                                                                 *)
(***************************************************************************)
StateReflected ==
  \A e \in Events :
    (/\ pc[e] = "received"
     /\ seen[e].calm
     /\ \E i \in seen[e].scans : SamePRCommit(i, e)
     /\ Workflow(e) # "none"
     /\ ~ event[e].draft
     /\ TargetProtected(e))
    ~> (\/ e \in lost
        \/ sent > e
        \/ \E i \in Submitted : e <= sent /\ SamePRCommit(i, e) /\ tags[i] = PRTags(e))
=============================================================================

# CxOneFlow: a TLA+ verification project

CxOneFlow connects source-code managers (SCMs: GitHub, GitLab, Bitbucket Data
Center, Azure DevOps) to Checkmarx One (CxOne). Webhooks and a kickoff API make
it scan a repository; message-driven agents follow the scan and report its
outcome to the pull request or, as a SARIF log, to delivery endpoints. These
modules model that behaviour from the code in `src/`, TLC checks them on small
instances, and TLAPS proves most of the safety properties for all instances.
`PROJECT.json` maps every definition to its source lines.

## 1. Inventory

| Component | Source | State | Operations |
|---|---|---|---|
| message topology | `rabbit_config.py`, `workflows/__init__.py` | exchanges, queues, bindings, dead-letter exchanges (current and legacy) | publish, expire, dead-letter, deliver, ack, nack |
| scan polling | `workflows/scan_polling_service.py`, `workflows/pull_request.py`, `push.py`, `workflow_agent.py` | await/poll messages with TTL and drop-by time | start a workflow, poll, re-enqueue with back-off, announce the outcome |
| pull-request decoration | `workflows/pr_feedback_service.py`, `scm_services/*`, `api_utils/pagers.py`, `apisession.py` | the comments of the pull request | annotate, write results, find / create / update the own comment |
| SARIF delivery | `workflows/push_feedback_service.py` | one try counter per agent | generate, deliver by HTTP (with retries) and AMQP, ack when all ended |
| delegated scans | `workflows/resolver_scan_service.py`, `resolver_workflow.py`, `agent/resolver/*` | request and result messages, `x-remaining-retries` | request, run by a scan agent, expire and resubmit, answer, start feedback |
| background tasks | `task_management/__init__.py`, `wsgi.py`, `docker/gunicorn.conf.py` | monitored futures, their lock | schedule, callback, drain at exit |
| kickoff API | `orchestration/kickoff`, `kickoff_services`, `cxoneflow_kickoff_api`, `orchestration/base.py` | scans of a project in CxOne | authorise, list, refuse or submit, start feedback, client retry |
| webhook orchestration | `orchestration/{gh,gl,bbdc,adoe,base}.py`, `cxone_service` | scans and their PR tags in CxOne | dispatch, search scans of a commit, scan or update tags |
| push orchestration, clone | `orchestration/{gh,gl,bbdc,adoe,base}.py`, `scm_services/cloner.py` | the clone of an event | read branch and hash, ask for protected branches, clone, reset, submit, start feedback |
| project set-up, grouping | `cxone_service/__init__.py`, `cxone_service/grouping.py` | CxOne projects; the shared index of group ids and its lock | list, create, rename, tag, assign groups, purge and retry |
| authentication | `api_utils/auth_factories.py`, `api_utils/apisession.py` | the cache of GitHub App tokens | take, ask, store, renew by force; repeated requests |
| configuration, naming, Markdown, serialisation, logging | | none shared | not modelled |

**Interactions.** A webhook is answered at once and handled by a coroutine of
the worker's event loop (`TaskManager`). The orchestrator reads CxOne, clones,
sets up the CxOne project (`ProjectSetup`), submits a scan (`PRLifecycle`, `PushScan`,
`Kickoff`) or delegates this to a scan agent
over RabbitMQ (`ResolverScan`), and then publishes the *await* message of a
workflow. Polling agents (`ScanPolling`) consume it each time it expires and
finally publish to the decorating (`PRDecoration`) or SARIF (`SarifDelivery`)
consumers. All agents share the broker; CxOne and the SCM are shared, remote
and read and written in separate requests.

**What is hard.** Every message may be delivered again after a crash; a
message is acknowledged after the effect it stands for; publishes may be
refused; timeouts (drop-by, request expiry, broker acknowledgement timeout)
race with late answers; two consumers write one comment; check-then-act on
lists read from CxOne; whole records written back long after they were read;
caches of group ids and tokens that outlive what they name; branches that move
between an event and its clone; handlers of one pull request finish in any order; a lock
shared by two threads. `PROJECT.json` lists these hazards at their lines with
the properties that cover them.

**What makes each part correct.**

- polling: a monitored scan is never silently dropped; the outcome announced is
  the real one; repeats are bounded by the disturbances; a finished scan is
  announced in the end;
- decoration: the outcome reaches the pull request or a logged reason stops it;
  comments do not multiply beyond what repeated requests and users who resolve
  or delete them explain; comments of others are not written;
- SARIF: every agent delivers or gives up before the message is gone; a retry
  never delivers twice;
- delegation: no request is lost by crashes and expiries; retries are bounded;
  an outcome is handled at most once per redelivery;
- tasks: the list is exactly the unfinished work, and an exit waits for it;
- kickoff: concurrent scans are bounded, an answer has the scan it speaks of,
  all are answered;
- PR lifecycle: tags describe their own pull request, a commit is scanned and
  not scanned again, changes are reflected;
- pushes: what is scanned is the commit that was pushed, of a protected branch,
  however the branches have moved; the token cache does not cost an event;
- projects: groups given by hand stay; stale group ids are cured by the retry;
  a set-up that runs alone leaves the project as configured; every set-up ends.

## 2. Modules

| Module | Models | Uses |
|---|---|---|
| `Topology` | the declared bindings and dead-lettering; an ASSUME states that every routing key the services use reaches exactly the intended queues | |
| `Broker` | the message pool (external): publish, deliver, ack, requeue, dead-letter | |
| `ScanMonitorContract` | abstract specification of what monitoring promises | |
| `ScanPolling` | starting and polling workflows | `Topology`, `Broker`, `ScanMonitorContract` |
| `PRDecoration`, `SarifDelivery` | the consumers | `Topology`, `Broker` |
| `FeedbackSystem` | composition of the three above, with end-to-end properties | `ScanPolling`, `PRDecoration`, `SarifDelivery` |
| `ResolverScan` | server, scan agents, timeout agent, results agent | `Topology`, `Broker` |
| `TaskManager` | one gunicorn worker: two threads and a lock | |
| `Kickoff` | kickoff clients, server workers, push events | |
| `PRLifecycle` | webhook events of pull requests | |
| `ProjectSetup` | concurrent set-ups of one repository's project, group cache, users of CxOne | |
| `AppTokens` | the token cache of the GitHub App | |
| `PushScan` | push events of the four SCMs up to the submitted scan | `AppTokens` |
| `ScanPollingProofs`, `FeedbackSystemProofs`, `ResolverScanProofs`, `TaskManagerProofs`, `KickoffProofs`, `PRLifecycleProofs`, `PushScanProofs`, `ProjectSetupProofs` | the theorems about the module of that name and their proofs | that module, TLAPS |
| `MCPolling`, `MCKickoff` | symmetry set, project assignment for TLC | |

**Correspondence with the code.** Handlers are processes with a program counter
that has one value for each await at which another actor can see a difference.
For example `execute_poll_scan_workflow` is `PollReceive`, then `PollExpired`
(`is_expired`), `PollInspect` (`load_scan_inspector`, with its exceptions in
`PollResponseException` and `PollRequestException`), then `PollRequeue` (publish
of the await message, with `PollRequeueRefused` and `PollRequeueFails`) or
`PollNotify` / `PollNotifyFails`, then `PollAck`. `PollCrash` is the
death of the agent at any of these points. A message has a queue, the scan (or
request) it is about, a number (`ttl`: delay, or remaining retries) and a text
that stands for its content. Queues are sets: consumers hold several messages
and a requeued message may be overtaken, so no order can be relied on.

`__create_or_retrieve_project` is `ListProjects` (everything up to the next
await, with the project it chooses, the tags and the name), then one `UseIndex`
or `AskGroup` / `GroupAnswered` per group path under the lock of
`GroupingService`, `Resolved`, and `CreateProject` or `UpdateProject` with their
failures. An answer that is not ok (`UpdateFails`) leads once through `PurgeCache`
back to the resolution; an exception of the request ends the set-up at the first
try too, with the project written (`UpdateUnheard`) or not (`UpdateRaises`), and
`CreateUnheard` is the same for the creation.
`exec_clone_scan` is `GetToken`, `Clone` or `CloneDenied` (once again with a
forced token), `ResetHead` and `SubmitScan`; a push event comes to it through
`Receive` and `ApiAnswers`. `APISession.exec` tries again after any status that
is not ok (`ApiFails`) except 401 and 403, which end the event for a dead token
(`ApiDenied`) as for good credentials that are not enough; these and an exception
of the request itself are `ApiGivesUp` (`CloneForbidden` for the clone). Commits are numbers, a branch is the set of commits
that are reachable from it, and a token is the state GitHub has it in.

`exec_pr_decorate` is `DecoFind`, then a create or an update. A create adds as
many comments as `exec` posts requests, up to its `retries` (`Tries`), and may
succeed (`DecoCreate`) or raise all the same (`DecoCreateUnheard`); an update
likewise (`DecoUpdate`, `DecoUpdateUnheard`). `Own` are the comments that carry
the marker of CxOneFlow, whoever wrote them; `Live` are those a search takes:
`PutAway` makes Bitbucket's search pass over a resolved or no longer editable
comment and Azure DevOps' over a deleted thread, and `Reopen` undoes it on
Bitbucket. `cleared` counts the times this left no comment to be found.

The message that starts a feedback workflow may be refused by the broker.
`_publish` logs this and `workflow_start` discards its result, so the handler
ends as if the workflow had been started: `StartFeedback` of `Kickoff` (with
`feedback = "refused"`) and `FeedbackRefused` of `PushScan` and `PRLifecycle`.

Ghost variables record what properties speak of and no handler reads:
`notified`, `stopped` (the logged reasons why polling ended), `disturb`
(redeliveries so far), `cleared`, `shown`, `lost`, `undelivered`, `why` and `cause` (what
befell an event), `died`, `safe` and their likes.

`Faults` selects the failures of the environment that a run enables. In the
feedback and resolver modules failures that cause redelivery are counted in
`disturb` and limited by `MaxDisturb`.

An operator named `A_B` is a faulty variant of `A` (`PollRequeueRefused_Acks`
acknowledges a poll message whose successor was refused). No specification
uses it; it shows that the properties notice the fault.

## 3. Runs

| Run | Module, cfg | Distinct states | Shows |
|---|---|---|---|
| `polling` | `MCPolling` | 772,000 | `MonitoringSurvives`, `FeedbackBound`, `OutcomeFaithful` for a pull-request scan and two pollers on the current and legacy queues with all faults of polling |
| `feedback_live` | `FeedbackSystem`, `MCFeedbackLive` | 80,000 | refinement of the monitor contract; `OutcomeShown` under fairness with crashes and duplicates |
| `feedback_pr` | `FeedbackSystem`, `MCFeedbackPR` | 2,028,000 | `OutcomeReachesPR`, `CommentsBounded`, `ForeignUntouched` on the four SCMs, with requests that are repeated or done without an answer and comments that users resolve, reopen and delete |
| `feedback_push` | `FeedbackSystem`, `MCFeedbackPush` | 39,000 | `OutcomeReachesAgents`, `SarifBound`, `OutcomeDelivered` with two generators, one HTTP and one AMQP agent |
| `resolver` | `ResolverScan`, `MCResolver` | 279,000 | `DelegationSurvives`, `OutcomeBound`, `RetryBound`, `DelegationEnds` with a plain and a two-stage scan agent and nine kinds of fault |
| `taskmanager` | `TaskManager`, `MCTaskManager` | 2,300 | `MonitorInv` (types, a callback finds its future, the list is exactly the unfinished work), `ExitLosesNothing`, `WorkEnds` |
| `kickoff` | `MCKickoff` | 251,000 | `ConcurrencyBound`, `NoRepeat`, `AnswerIsTrue`, `KickoffAnswered` for three kickoffs and a push over two projects |
| `pr_lifecycle` | `PRLifecycle`, `MCPRLifecycle` | 248,000 | `TagsOfOwnPR`, `NoRescan`, `CommitScanned`, `StateReflected` for two pull requests of one branch on the four SCMs |
| `project_setup` | `ProjectSetup` | 354,000 | `ManualGroupKept`, `RetryRecovers`, `SetupConverges`, `SetupEnds` for two events, with and without update-groups and rename-legacy, on every combination of existing projects |
| `push_scan` | `PushScan` | 271,000 | `ScanIsOfPush`, `DenialExplained`, `PushScanned` for two pushes on the four SCMs with moving branches and ending tokens |

Two runs end in a counterexample; each shows that the code does something
else than a document or comment of the repository says.

| Run | Property | What happens |
|---|---|---|
| `late_annotation` | `ResultsStayShown` | a redelivered "Scan Started" annotation replaces the results in the comment |
| `delegated_push` | `PushFeedbackStarts` | a delegated push scan that is over when its result is handled gets no SARIF feedback |

The remaining findings of `PROJECT.json` were met while modelling and are part
of the models as the code has them (for instance `PollNotifyFails`, `Delegate`
of `Kickoff`, `AddDoneCallbackLate`, `FullPageIsLast`, `ResubmitCount`). The
newer models add these:

- `UpdateProject` writes the whole record listed some awaits before, so a group
  users assign meanwhile is taken away again; `ManualGroupKept` is therefore
  stated for groups assigned while no event is at work.
- `CreateFails` has no purge: once a cached group id is stale, every first event
  of a matching repository fails until some update purges the index;
  `RetryRecovers` states the exception. For a listed project `RetryRecovers` says
  that the retry cures stale ids and one answer that is not ok; it excepts an
  exception of a request, which the loop does not catch, and a group that is
  deleted after the listing.
- `MergedService` lets the moniker of another service stand, so `SetupConverges`
  asks only that the tag names some service.
- After a failed update the groups are assigned also where `update-groups` is
  off (`PurgeCache`, `Resolved`).
- `Target` is the first change of a push; Bitbucket and Azure DevOps put several
  branches in one event, and the others are not scanned. `PushScanned` is stated
  for the first change.
- `ApiDenied`: a 401 is not tried again with a new token, so a token that was
  revoked costs every event until it expires. `DenialExplained` shows that this,
  and a token that ends between being handed out and being used, are the only
  ways in which a token costs an event; for the clone the forced second token
  leaves only the latter. Failures that no token causes (`Elsewhere`) are
  recorded as such.
- A refused await message leaves a scan that nobody follows. `AnswerIsTrue`
  therefore does not promise feedback to a client that is answered 201: it says
  that the scan was made and that the publish of its workflow was at least tried,
  so that the only scans without it belong to requests in service, delegated ones
  or ones answered as errors. `PushScanned` and `CommitScanned` name the refusal
  among the reasons for missing feedback.
- `CommentsBounded` says how far comments can multiply: each handler may create
  one per try of a request, and again after users put all comments away. The
  property counts comments made, those put away included. It would fail if a
  search missed a comment that is there.

**Bounds and why they are enough.**

- Messages: `MsgIds` are the messages alive at once. The workflow of one scan
  needs at most two poll messages per disturbance plus the annotation and the
  outcome; 4 to 7 identities leave room, and an action that needs a free
  identity waits for one.
- One scan per feedback run: the handlers of different scans share nothing but
  free handlers and, for one pull request, the comment; two consumers writing
  one comment occur already with the annotation and the outcome of one scan.
- One disturbance per scan (`MaxDisturb = 1`) in each run; together with two
  pollers this gives two copies of a poll message handled at once. The proved
  invariants do not depend on it.
- Back-off: interval 2, factor 2, maximum 5, so that the delay grows and is
  then capped at a value it does not hit exactly.
- `PageSize`: the thread stays below it, where the search is right
  (`CommentsBounded` would not survive a full page, see the finding on
  `scm_services/gh.py:18`).
- Decoration: `Tries = 2` (the code's default is 3) tells one post from a repeated
  one; one comment put away at a time (`MaxAway`) and one occasion on which none
  is left to be found (`MaxCleared`), so that a comment is resolved before a
  search, between a search and its write, and reopened next to a newer one. The
  theorem holds for all values.
- Resolver: two retries reach resubmission and the final failure; two agents
  let the broker hand a request whose acknowledgement timed out to the other.
- Kickoff: three kickoffs and a push, two workers and a limit of one scan: a
  request can wait for a slot, race another and meet a scan of a push.
- PR lifecycle: three events on two pull requests with two commits, two handled
  at a time; one protected and one other target branch; one lost step.
- Project set-up: two events and one group path that is deleted and made once
  (`MaxGen = 2`), one failing request: a stale id is met at the first try and at
  the retry, by an event that fills the index and by one that uses it. More
  paths are resolved one after the other under the same lock.
- Push: two events and three commits on a default and another branch: a push
  can be overtaken, rewritten or deleted while another is handled. Two faults
  let both a first and a forced token end. Two tries of a request reach the
  last. Three tokens are as many as two callers and the cache can hold; names
  nobody holds are used again.
- Tasks: three webhooks and a kickoff, of which some end at once; more repeat
  the same interleavings.

**Fairness.** Only what the platform guarantees is assumed, and neither that
a fault happens nor that CxOne finishes a scan, except in `Kickoff` and
`PRLifecycle`, where waiting on a scan is the subject.

- `ScanPolling`: a workflow that is being started goes on and a handler that is
  running is resumed (the event loop is fair: WF); an await message expires
  (WF); a message in a queue is delivered (SF: a handler is free again and
  again, and RabbitMQ's queue is FIFO).
- `FeedbackSystem` adds the same for the other consumers, with weak fairness of
  the delivery: the work of a scan there is finite. Nothing is assumed about the
  generation of a log, which may fail each time and is then given up.
- `ResolverScan`: a request is taken or expires; timeout and result messages
  are taken; running handlers go on.
- `TaskManager`: threads run, coroutines end, and gunicorn aborts a worker that
  does not answer (`timeout` in `gunicorn.conf.py`).
- `Kickoff`: requests are served and the scans of kickoffs end.
- `PRLifecycle`: handlers of events progress and a scan agent answers.
- `ProjectSetup`, `PushScan`: the event loop resumes every task (WF of its next
  step), because every request has a timeout or an answer. Weak fairness is
  enough for the lock: it is only finitely often taken by others.

## 4. Proofs

The theorems hold for every value of the constants that the ASSUMEs of the
modules allow: any number of scans, requests, events, handlers, messages,
retries, faults and disturbances. The assumptions say that the constants have
their types, that names of different things differ and, where something is
counted, that handlers and message identities are finite. Every proof follows
one plan: an inductive invariant `IInv`, one lemma per action (or per family
of actions that differ only in what they record), and the property as a
consequence. `IInv` was checked by TLC on the instance of the run before it was
proved.

| Module | Theorem | Property |
|---|---|---|
| `ScanPollingProofs` | `TypeCorrect`, `MonitoringNeverLost`, `OutcomeAlwaysFaithful`, `FeedbackBounded`, `ContractKept` | `TypeOK`, `MonitoringSurvives`, `OutcomeFaithful`, `FeedbackBound`, `ImplementsContract` |
| `FeedbackSystemProofs` | `SystemTypeCorrect`, `OutcomeOfPRSurvives`, `ForeignNeverTouched`, `CommentsStayBounded`, `OutcomeOfPushSurvives`, `DeliveriesBounded`, `SystemKeepsContract` | `SysTypeOK`, `OutcomeReachesPR`, `ForeignUntouched`, `CommentsBounded`, `OutcomeReachesAgents`, `SarifBound`, `ImplementsContract` |
| `ResolverScanProofs` | `ResolverTypes`, `DelegationsSurvive`, `OutcomesBounded`, `RetriesBounded` | `TypeOK`, `DelegationSurvives`, `OutcomeBound`, `RetryBound` |
| `TaskManagerProofs` | `ListAlwaysExact`, `GracefulExit` | `MonitorInv`, `ExitLosesNothing` |
| `KickoffProofs` | `KickoffTypes`, `AnswersAreTrue`, `RepeatsMakeNoScan`, `ConcurrencyBounded` | `TypeOK`, `AnswerIsTrue`, `NoRepeat`, `ConcurrencyBound` |
| `PRLifecycleProofs` | `LifecycleTypes`, `TagsStayOwn`, `SearchPreventsRescan` | `TypeOK`, `TagsOfOwnPR`, `NoRescan` |
| `PushScanProofs` | `PushTypes`, `PushedCommitScanned`, `DenialsExplained` | `TypeOK`, `ScanIsOfPush`, `DenialExplained` |
| `ProjectSetupProofs` | `SetupTypes`, `ManualGroupsStay`, `RetrySuffices`, `LoneSetupConverges` | `TypeOK`, `ManualGroupKept`, `RetryRecovers`, `SetupConverges` |

**Scan polling.**

    IInv == TypeOK /\ HandlersHold /\ Exclusive /\ SeenFaithful
            /\ MonitoringSurvives /\ OutcomeFaithful /\ Fresh /\ FeedbackBound

`MonitoringSurvives` alone is not inductive: a handler that acknowledges a
message must remove exactly that message, which no other handler still counts
on. `HandlersHold` says that a working handler holds a delivered message of a
poll queue; `Exclusive` that no two handlers hold one message, so that the
acknowledgement of one does not take the copy of another. A message whose
handler is about to acknowledge it does not count as monitoring (`Active`), so
the step that publishes the successor or records the reason is the one that
preserves `MonitoringSurvives`. `OutcomeFaithful` needs `SeenFaithful`: what a
handler has seen of a finished scan is still true when it publishes, because a
finished scan does not change. `FeedbackBound` is a budget: `Fits` lists the four
ways in which a step may change the active messages, the reports and the
disturbances of a scan, and every action is one of them (`ActiveStep`), except
the one that publishes the first await message; `Fresh` says that a workflow that
has not started has neither messages nor reports.

The contract is shown step by step: the status of every scan moves as the
contract allows or stays (`Phase`). The theorem `ContractKept` has the hypothesis
`Lossless`, that `Faults` has no `"publish"`, `"channel"` or `"response"`. Those
failures end monitoring for logged reasons that the contract does not know, and
the run `feedback_live` excludes them too. Without them a scan is given up only
when it is overdue (`GivenUpOverdue`). The contract states no fairness.

**The composition.** `FeedbackSystemProofs` builds on the proof of scan polling.

    SInv == IInv /\ Routed /\ AwaitedPR
            /\ DecoTypes /\ DecoHold /\ DecoAlone /\ TargetsOwn /\ AwayOwn
            /\ GenTypes /\ GenHold /\ GenAlone

`IInv` is the invariant of scan polling: the other consumers share the broker,
and `OutsideStep` shows that what they do to messages of their own queues leaves
it alone. This needs `Routed`, which kinds of messages are in which queue, and,
for each kind of consumer, that a working handler holds a message of its queue
alone. Conversely a step of scan polling touches no message of the consumers
(`PollingStep`). `DecoEffect` and `GenEffect` sum up the actions of a decorator
and of a generator in a few kinds of changes; the other proofs reason about those
kinds only. On `SInv` rest four more invariants, one for each question:

- `OutcomeReachesPR`: `ReportInPR`, that a scan that was reported has an outcome
  message or is shown. A decorator acknowledges a message only after it wrote
  (`WrittenShown`) or recorded the loss. With `MonitoringSurvives`, which covers
  the time before the report, this is the end-to-end property.
- `OutcomeReachesAgents`: `ReportAtAgents`, and `EndedSettled`, that an agent
  counted as ended has delivered or given up, so the acknowledgement after the
  last of them loses nothing.
- `CommentsBounded`: `CommentBudget`, that the comments of CxOneFlow and what the
  handlers that found none may still add are at most one round (what all handlers
  together may add, `Repeats` each) and one more for each time the comments were
  cleared; and that, while there is none to be found, the comments made belong to
  the rounds before. Without the second part the search that finds nothing and so
  begins a round could not be paid for. Reopening a comment only helps. A search
  that finds nothing means that there is nothing to be found, and here the
  theorem needs `OnePage`: the comments fit on one page, or the SCM is one whose
  search sees every page. On the others a full page ends the search (see the
  findings about `scm_services/gh.py`), and the bound does not hold.
- `SarifBound`: `DeliveryBudget`, that for each scan and agent the active await
  messages, the outcomes in the queue that this agent has not been through with,
  and the deliveries made are at most one more than the disturbances. It composes
  the budget of scan polling with that of the deliveries: a report exchanges an
  await message for an outcome, a delivery an outcome for a count, and a crash
  that makes a delivered outcome open again is a disturbance. `NothingYet` says
  that a scan that was not reported has neither, which the first await message
  needs.

`ForeignUntouched` is an action property: `TargetsOwn` says that a handler about
to update a comment found one of CxOneFlow, and comments are only appended, so it
still is one. `SystemKeepsContract` carries the contract over: a step of a
consumer is invisible to it.

**Delegated scans.**

    IInv == TypeOK /\ HandlersHold /\ Exclusive /\ TextsOK
            /\ DelegationSurvives /\ Budgets

The first four parts are about the three kinds of agents, as in polling; they
give, for each message, whether it is answered and what it can still cause
(`TokensOK`). The bounds are budgets. For each request the number of its
pending messages, plus the handlers that go on after the broker took their
message back (ghosts) and have not answered yet, plus its outcomes is at most
one for the delegation and one for each disturbance. The bound on scans counts
in the same way the messages that may still lead to a scan, and that on
retries, for every number `k`, the messages with more than `k` retries left
plus the publications with `k` left. `OutcomeBound` without the ghosts is not
inductive: a ghost adds a result to the queue without giving up a message.
`Fits` lists the eight ways in which a step may change such a sum; each action
is shown to be one of them.

The proof led to a correction. `RetryBound` used to say that a request is
published at most `1 + ScanRetries` times plus the disturbances. That is false
beyond the instance TLC had checked: with four retries and one crash both copies
of the request go on being resubmitted, which TLC confirms. The variable
`published` is now kept for each number of retries left and the bound is stated
for each of them.

**Background tasks.** `IInv` adds to the two properties who owns the lock at
which step (`LockInv`) and what the request thread and the callback are about to
do with which future (`WebInv`, `LoopInv`, `ListInv`): the list is exact only up
to the append or the removal a thread is in the middle of.

**Kickoff.** `ConcurrencyBound` needs slots: the kickoff scans that run together
with the requests that only a fault keeps from submitting one. When a request
passes the check of the limit at most `MaxScans - 1` scans were running and at
most `Workers - 1` other requests are in service, hence `MaxScans + Workers - 1`
slots (`SlotsInv`). A refused feedback message ends the request like a published
one. `NoRepeat` and `AnswerIsTrue` need `BeforeInv`: what was live
when a request was accepted is still covered by the lists it reads later.

**Pull requests.** `NoRescan` needs that what a search has excluded stays
excluded over the awaits up to the submission (`SearchInv`), which rests on
scans never disappearing (`SeenInv`).

**Pushes.** `TokenFresh` says of every caller that the token it waits for or
holds was good when it was given out, unless that is recorded in `died`; the
count of token names (every caller has at most one, the cache one more) shows
that a fresh token always has a name.

**Project set-up.** The three properties need `TaskOK`, what each event under way
knows of the project it is about to write; `RetryOK`, that ids found after the
purge are good unless a group was deleted since the listing; `AloneOK`, that an
event nobody interferes with has the project and every group in hand; and
`Known`, that no id is known before its group was made.

**Only model-checked:**

- every liveness property: fairness and `ENABLED` are out of TLAPS's reach here;
- `CommentsBounded` where the comments do not fit on one page: not true there;
- the two properties of the runs that expect a violation, which are false of the
  code;
- the routing facts of `Topology`, an ASSUME that TLC evaluates.

## 5. Not modelled

- Reading and validating the YAML configuration; its results are CONSTANTS.
- Project naming, Markdown text, (de)serialisation and logging: formatting
  without shared state. A message that cannot be deserialised does not occur.
- Comments that users of GitHub and GitLab delete (`PutAway` is for the two SCMs
  whose search tells such comments apart), and versions of a Bitbucket comment
  that change by resolving it.
- The branch of the scan agent for a runner that cannot execute
  (`runner_agent.py:93`) and the requeue of a failing SARIF generation
  (`push_feedback_service.py:214`): no runner of the repository returns False,
  and nothing in that block raises `CxOneException`.
- Git itself: a clone has the commits of all branches at its moment.
- Parsing of webhook payloads, apart from the values that decide; pushes of tags
  and of refs that are not branches.
- Deletion of CxOne projects, and of a group without CxOne taking it from its
  projects (assumed of CxOne); matching of clone URLs with routes.
- More than one GitHub App installation (the cache is keyed by it) and more than
  one worker process (each has its own caches).
- The counters of group resolution errors, which only choose a log message.

## 6. Plan

1. *Done:* topology, polling and its contract, the consumers and their
   composition, delegation with the failing clean-up of an agent, background
   tasks, kickoff, pull-request lifecycle, push orchestration with the token
   cache, project set-up with the group cache; proofs about each of them and
   about the composition: every invariant that a run checks is stated by a
   theorem (`CommentsBounded` where the comments fit on one page).
2. *Prove next:* the bound on comments as a function of the number of pages where
   the search ends early; more action properties.
3. *Open:* composing `PRLifecycle`, `PushScan` and `ResolverScan` with the
   feedback system. Their interface is the started workflow; the product of
   their state spaces is beyond what TLC explores in minutes.

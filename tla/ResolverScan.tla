---------------------------- MODULE ResolverScan ----------------------------
(***************************************************************************)
(* Delegated scans: the server asks a scan agent, through the queue of its  *)
(* tag, to clone, resolve and scan a repository; a request nobody takes     *)
(* expires and is submitted again or answered as a failure; the results     *)
(* agent starts the feedback workflow for the scan the agent made.          *)
(* (resolver_scan_service, resolver_workflow, agent/resolver, base.py.)     *)
(*                                                                          *)
(* Of a message, "scan" is the request, "ttl" the x-remaining-retries       *)
(* header and "text" what it is: a request, a dead-lettered request with    *)
(* the reason of its x-death header, or a result.                           *)
(***************************************************************************)
EXTENDS Naturals, FiniteSets, Topology, Broker

CONSTANTS Pushes, PullRequests,   \* scan requests of the two workflows
          Tag,                    \* the agent tag they resolve to
          Runners,                \* handlers of the scan agents of the tag
          TwoStage,               \* those that run the two-stage runner
          TimeoutHandlers, ResultHandlers,
          NoMessage,
          ScanRetries,            \* scan-agent.scan-retries
          Faults, MaxDisturb      \* as in ScanPolling

Requests == Pushes \cup PullRequests
ReqQueue == ResolverReq(Tag)

ASSUME ResolverAssumption ==
  /\ Tag \in AgentTags /\ TwoStage \subseteq Runners
  /\ ReqQueue \notin {NoQueue, ResolverTimeout, ResolverComplete}
  /\ IsFiniteSet(MsgIds) /\ IsFiniteSet(Runners)
  /\ Pushes \cap PullRequests = {} /\ NoScan \notin Requests /\ NoMessage \notin MsgIds
  /\ ScanRetries \in Nat /\ MaxDisturb \in Nat
  /\ Faults \subseteq {"crash", "ack-timeout", "publish", "channel", "executor",
                       "body", "cleanup", "dispatch", "signature"}

VARIABLES
  req,       \* the server's view of each request
  cxscan,    \* CxOne: the newest scan made for the request
  msgs,      \* the broker's messages
  runner, tmo, res,   \* the handlers of the three agents
  scans,     \* history: scans made for the request by scan agents
  published, \* history: times it was published with each number of retries left
  outcomes,  \* history: results of the request taken to their end
  dropped,   \* history: why an outcome of the request was lost
  disturb    \* history: redeliveries and second answers of the request

vars == <<req, cxscan, msgs, runner, tmo, res, scans, published, outcomes, dropped, disturb>>

Results == {"done", "soft", "hard"}
(* execute_resolver: the command's code; of two stages the first that is    *)
(* not 0, and whatever was reached when a stage raises.                     *)
ExitCodes == {0, 1}

RunIdle == [pc |-> "idle", id |-> NoMessage, req |-> NoScan, rc |-> 0, ghost |-> FALSE]
HIdle == [pc |-> "idle", id |-> NoMessage]

Message == [queue : {ReqQueue, ResolverTimeout, ResolverComplete}, held : BOOLEAN,
            scan : Requests, ttl : 0..ScanRetries,
            text : Results \cup {"request", "expired", "rejected"}]

(* Types: in particular x-remaining-retries stays within scan-retries and   *)
(* a message is only ever in the queues of the delegation.                  *)
TypeOK ==
  /\ req \in [Requests -> {"none", "delegated", "local", "failed"}]
  /\ cxscan \in [Requests -> {"none", "executing", "ended"}]
  /\ msgs \in [MsgIds -> Message \cup {NoMsg}]
  /\ runner \in [Runners -> [pc : {"idle", "received", "entered", "scanned", "failing", "ack", "nack", "stalled"},
                             id : MsgIds \cup {NoMessage}, req : Requests \cup {NoScan},
                             rc : ExitCodes, ghost : BOOLEAN]]
  /\ tmo \in [TimeoutHandlers -> [pc : {"idle", "received", "ack"}, id : MsgIds \cup {NoMessage}]]
  /\ res \in [ResultHandlers -> [pc : {"idle", "received", "ack"}, id : MsgIds \cup {NoMessage}]]
  /\ scans \in [Requests -> Nat] /\ published \in [Requests -> [0..ScanRetries -> Nat]]
  /\ outcomes \in [Requests -> Nat] /\ disturb \in [Requests -> Nat]
  /\ dropped \in [Requests -> SUBSET {"signature", "suppressed", "unpublished", "over", "dispatch"}]

Init ==
  /\ req = [r \in Requests |-> "none"] /\ cxscan = [r \in Requests |-> "none"]
  /\ msgs = [i \in MsgIds |-> NoMsg]
  /\ runner = [w \in Runners |-> RunIdle]
  /\ tmo = [t \in TimeoutHandlers |-> HIdle] /\ res = [h \in ResultHandlers |-> HIdle]
  /\ scans = [r \in Requests |-> 0]
  /\ published = [r \in Requests |-> [n \in 0..ScanRetries |-> 0]]
  /\ outcomes = [r \in Requests |-> 0] /\ dropped = [r \in Requests |-> {}]
  /\ disturb = [r \in Requests |-> 0]
-----------------------------------------------------------------------------
(***************************************************************************)
(* The server: request_resolver_scan and delegated_scan_kickoff.            *)
(***************************************************************************)
RequestScan(r) ==
  /\ req[r] = "none" /\ Free(msgs) # {}
  /\ msgs' = Publish(msgs, Msg(ReqQueue, r, ScanRetries, "request"))
  /\ req' = [req EXCEPT ![r] = "delegated"]
  /\ published' = [published EXCEPT ![r][ScanRetries] = @ + 1]
  /\ UNCHANGED <<cxscan, runner, tmo, res, scans, outcomes, dropped, disturb>>

(* Refused by the broker, or a WorkflowException (unknown tag, no private   *)
(* key): the server scans without an agent.  Another exception ends the     *)
(* orchestration.                                                           *)
RequestNotDelegated(r) ==
  /\ req[r] = "none"
  /\ \/ "publish" \in Faults /\ req' = [req EXCEPT ![r] = "local"]
     \/ "channel" \in Faults /\ req' = [req EXCEPT ![r] = "failed"]
  /\ UNCHANGED <<cxscan, msgs, runner, tmo, res, scans, published, outcomes, dropped, disturb>>

(* No agent takes the request within scan-timeout-seconds.                  *)
RequestExpires(i) ==
  /\ i \in Ready(msgs, ReqQueue)
  /\ msgs' = [DeadLetter(msgs, i, ResolverTimeout) EXCEPT ![i].text = "expired"]
  /\ UNCHANGED <<req, cxscan, runner, tmo, res, scans, published, outcomes, dropped, disturb>>

ScanEnds(r) ==
  /\ cxscan[r] = "executing"
  /\ cxscan' = [cxscan EXCEPT ![r] = "ended"]
  /\ UNCHANGED <<req, msgs, runner, tmo, res, scans, published, outcomes, dropped, disturb>>
-----------------------------------------------------------------------------
(***************************************************************************)
(* ResolverRunnerAgent.__call__, one message at a time (prefetch 1).        *)
(***************************************************************************)
RunnerOnly == UNCHANGED <<req, cxscan, tmo, res, scans, published, outcomes, disturb>>

RunReceive(w, i) ==
  /\ runner[w].pc = "idle" /\ i \in Ready(msgs, ReqQueue)
  /\ msgs' = Deliver(msgs, i)
  /\ runner' = [runner EXCEPT ![w] = [RunIdle EXCEPT !.pc = "received", !.id = i, !.req = msgs[i].scan]]
  /\ RunnerOnly /\ UNCHANGED dropped

RunGoes(w, pc) ==
  /\ runner' = [runner EXCEPT ![w].pc = pc]
  /\ RunnerOnly /\ UNCHANGED <<msgs, dropped>>

RunEnter(w) == runner[w].pc = "received" /\ RunGoes(w, "entered")

(* The work directory cannot be made: the except clause uses the unassigned *)
(* workflow, so nothing is answered and the message stays unacknowledged.   *)
RunEnterFails(w) ==
  /\ "executor" \in Faults
  /\ runner[w].pc = "received"
  /\ RunGoes(w, "stalled")

(* A request whose signature the agent's key does not verify is logged and  *)
(* acknowledged without an answer; the other two agents discard as well.    *)
RunBadSignature(w) ==
  /\ "signature" \in Faults
  /\ runner[w].pc = "entered"
  /\ runner' = [runner EXCEPT ![w].pc = "ack"]
  /\ dropped' = [dropped EXCEPT ![runner[w].req] = @ \cup {"signature"}]
  /\ RunnerOnly /\ UNCHANGED msgs

(* Clone, resolve and submit the scan; rc is the resolver's exit code.      *)
RunScan(w) ==
  /\ runner[w].pc = "entered"
  /\ \E rc \in ExitCodes : runner' = [runner EXCEPT ![w].pc = "scanned", ![w].rc = rc]
  /\ scans' = [scans EXCEPT ![runner[w].req] = @ + 1]
  /\ cxscan' = [cxscan EXCEPT ![runner[w].req] = "executing"]
  /\ UNCHANGED <<req, msgs, tmo, res, published, outcomes, dropped, disturb>>

(* An exception in the body.  The two-stage context's __aexit__ returns     *)
(* itself, which suppresses it: the handler goes on as after a success.     *)
RunRaises(w) ==
  \/ /\ w \notin TwoStage
     /\ RunGoes(w, "failing")
  \/ /\ w \in TwoStage
     /\ runner' = [runner EXCEPT ![w].pc = "ack"]
     /\ dropped' = [dropped EXCEPT ![runner[w].req] = @ \cup {"suppressed"}]
     /\ RunnerOnly /\ UNCHANGED msgs

RunFails_Acks(w) ==
  /\ "body" \in Faults
  /\ runner[w].pc = "entered"
  /\ RunGoes(w, "ack")

(* Also a shell runner without ScaResolver.  (No shipped runner declines a  *)
(* request, can_execute being true for each: that branch is never taken.)   *)
RunFails(w) ==
  /\ "body" \in Faults
  /\ runner[w].pc = "entered"
  /\ RunRaises(w)

RunPublish(w) ==
  /\ runner[w].pc = "scanned" /\ Free(msgs) # {}
  /\ msgs' = Publish(msgs, Msg(ResolverComplete, runner[w].req, 0,
                               IF runner[w].rc = 0 THEN "done" ELSE "soft"))
  /\ runner' = [runner EXCEPT ![w].pc = "ack"]
  /\ RunnerOnly /\ UNCHANGED dropped

(* A refused publish is only logged.                                        *)
RunPublishRefused(w) ==
  /\ "publish" \in Faults
  /\ runner[w].pc \in {"scanned", "failing"}
  /\ runner' = [runner EXCEPT ![w].pc = IF @ = "failing" THEN "nack" ELSE "ack"]
  /\ dropped' = [dropped EXCEPT ![runner[w].req] = @ \cup {"unpublished"}]
  /\ RunnerOnly /\ UNCHANGED msgs

RunPublishRaises(w) ==
  /\ "channel" \in Faults
  /\ \/ runner[w].pc = "scanned" /\ RunRaises(w)
     \/ runner[w].pc = "failing" /\ RunGoes(w, "stalled")

RunFailureResponse(w) ==
  /\ runner[w].pc = "failing" /\ Free(msgs) # {}
  /\ msgs' = Publish(msgs, Msg(ResolverComplete, runner[w].req, 0, "hard"))
  /\ runner' = [runner EXCEPT ![w].pc = "nack"]
  /\ RunnerOnly /\ UNCHANGED dropped

(* Leaving the context, the work directory cannot be removed: what was      *)
(* answered already is followed by a failure.  Nothing suppresses this.     *)
RunCleanupFails(w) ==
  /\ "cleanup" \in Faults
  /\ runner[w].pc = "ack" /\ disturb[runner[w].req] < MaxDisturb
  /\ disturb' = [disturb EXCEPT ![runner[w].req] = @ + 1]
  /\ runner' = [runner EXCEPT ![w].pc = "failing"]
  /\ UNCHANGED <<req, cxscan, msgs, tmo, res, scans, published, outcomes, dropped>>

(* The acknowledgement.  A nack dead-letters the message as rejected; that  *)
(* of a message already taken back by the broker is an exception, logged.   *)
RunAck(w) ==
  /\ \/ runner[w].pc \in {"ack", "nack"} /\ runner[w].ghost /\ UNCHANGED msgs
     \/ runner[w].pc = "ack" /\ ~runner[w].ghost /\ msgs' = Ack(msgs, runner[w].id)
     \/ /\ runner[w].pc = "nack" /\ ~runner[w].ghost
        /\ msgs' = [DeadLetter(msgs, runner[w].id, ResolverTimeout)
                      EXCEPT ![runner[w].id].text = "rejected"]
  /\ runner' = [runner EXCEPT ![w] = RunIdle]
  /\ RunnerOnly /\ UNCHANGED dropped

(* The agent dies: what it holds is redelivered.                            *)
RunCrash(w) ==
  /\ "crash" \in Faults
  /\ runner[w].pc # "idle" /\ disturb[runner[w].req] < MaxDisturb
  /\ disturb' = [disturb EXCEPT ![runner[w].req] = @ + 1]
  /\ msgs' = IF runner[w].ghost THEN msgs ELSE Requeue(msgs, runner[w].id)
  /\ runner' = [runner EXCEPT ![w] = RunIdle]
  /\ UNCHANGED <<req, cxscan, tmo, res, scans, published, outcomes, dropped>>

(* The broker stops waiting for the acknowledgement and delivers again,     *)
(* while the handler continues.                                             *)
RunAckTimeout(w) ==
  /\ "ack-timeout" \in Faults
  /\ runner[w].pc # "idle" /\ ~runner[w].ghost /\ disturb[runner[w].req] < MaxDisturb
  /\ disturb' = [disturb EXCEPT ![runner[w].req] = @ + 1]
  /\ msgs' = Requeue(msgs, runner[w].id)
  /\ runner' = IF runner[w].pc = "stalled" THEN [runner EXCEPT ![w] = RunIdle]
               ELSE [runner EXCEPT ![w].ghost = TRUE]
  /\ UNCHANGED <<req, cxscan, tmo, res, scans, published, outcomes, dropped>>
-----------------------------------------------------------------------------
(***************************************************************************)
(* ResolverTimeoutAgent and handle_resolver_scan_timeout.                   *)
(***************************************************************************)
TimeoutMsg(t) == msgs[tmo[t].id]

TimeoutReceive(t, i) ==
  /\ tmo[t].pc = "idle" /\ i \in Ready(msgs, ResolverTimeout)
  /\ msgs' = Deliver(msgs, i)
  /\ tmo' = [tmo EXCEPT ![t] = [pc |-> "received", id |-> i]]
  /\ UNCHANGED <<req, cxscan, runner, res, scans, published, outcomes, dropped, disturb>>

ResubmitCount_Kept(m) == m.ttl

ResubmitCount_Up(m) == m.ttl + 1

(* Only whether it is above 0 matters.                                      *)
ResubmitCount(m) == IF m.ttl = 0 THEN 0 ELSE m.ttl - 1

Expired_AnyReason(m) == TRUE

Expired(m) == m.text = "expired"

TimeoutResubmit(t) ==
  /\ tmo[t].pc = "received" /\ Expired(TimeoutMsg(t)) /\ ResubmitCount(TimeoutMsg(t)) > 0
  /\ Free(msgs) # {}
  /\ msgs' = Publish(msgs, Msg(ReqQueue, TimeoutMsg(t).scan, ResubmitCount(TimeoutMsg(t)), "request"))
  /\ published' = [published EXCEPT ![TimeoutMsg(t).scan][ResubmitCount(TimeoutMsg(t))] = @ + 1]
  /\ tmo' = [tmo EXCEPT ![t].pc = "ack"]
  /\ UNCHANGED <<req, cxscan, runner, res, scans, outcomes, dropped, disturb>>

TimeoutFailure_Silent(t) ==
  /\ tmo[t].pc = "received" /\ Expired(TimeoutMsg(t)) /\ ResubmitCount(TimeoutMsg(t)) = 0
  /\ tmo' = [tmo EXCEPT ![t].pc = "ack"]
  /\ UNCHANGED <<req, cxscan, msgs, runner, res, scans, published, outcomes, dropped, disturb>>

TimeoutFailure(t) ==
  /\ tmo[t].pc = "received" /\ Expired(TimeoutMsg(t)) /\ ResubmitCount(TimeoutMsg(t)) = 0
  /\ Free(msgs) # {}
  /\ msgs' = Publish(msgs, Msg(ResolverComplete, TimeoutMsg(t).scan, 0, "hard"))
  /\ tmo' = [tmo EXCEPT ![t].pc = "ack"]
  /\ UNCHANGED <<req, cxscan, runner, res, scans, published, outcomes, dropped, disturb>>

(* Rejected by a runner, which has answered itself.                         *)
TimeoutIgnore(t) ==
  /\ tmo[t].pc = "received" /\ ~Expired(TimeoutMsg(t))
  /\ tmo' = [tmo EXCEPT ![t].pc = "ack"]
  /\ UNCHANGED <<req, cxscan, msgs, runner, res, scans, published, outcomes, dropped, disturb>>

(* A refused publish is ignored; an exception rejects the message, which    *)
(* this queue does not dead-letter.  Either way the request is gone.        *)
TimeoutFails(t) ==
  /\ Faults \cap {"publish", "channel"} # {}
  /\ tmo[t].pc = "received" /\ Expired(TimeoutMsg(t))
  /\ dropped' = [dropped EXCEPT ![TimeoutMsg(t).scan] = @ \cup {"unpublished"}]
  /\ tmo' = [tmo EXCEPT ![t].pc = "ack"]
  /\ UNCHANGED <<req, cxscan, msgs, runner, res, scans, published, outcomes, disturb>>

TimeoutBadSignature(t) ==
  /\ "signature" \in Faults
  /\ tmo[t].pc = "received"
  /\ dropped' = [dropped EXCEPT ![TimeoutMsg(t).scan] = @ \cup {"signature"}]
  /\ tmo' = [tmo EXCEPT ![t].pc = "ack"]
  /\ UNCHANGED <<req, cxscan, msgs, runner, res, scans, published, outcomes, disturb>>

TimeoutAck(t) ==
  /\ tmo[t].pc = "ack"
  /\ msgs' = Ack(msgs, tmo[t].id)
  /\ tmo' = [tmo EXCEPT ![t] = HIdle]
  /\ UNCHANGED <<req, cxscan, runner, res, scans, published, outcomes, dropped, disturb>>

TimeoutCrash(t) ==
  /\ "crash" \in Faults
  /\ tmo[t].pc # "idle" /\ disturb[TimeoutMsg(t).scan] < MaxDisturb
  /\ disturb' = [disturb EXCEPT ![TimeoutMsg(t).scan] = @ + 1]
  /\ msgs' = Requeue(msgs, tmo[t].id)
  /\ tmo' = [tmo EXCEPT ![t] = HIdle]
  /\ UNCHANGED <<req, cxscan, runner, res, scans, published, outcomes, dropped>>
-----------------------------------------------------------------------------
(***************************************************************************)
(* ResolverResultsAgent and the delegated scan workflows.                   *)
(***************************************************************************)
ResultMsg(h) == msgs[res[h].id]

ResultReceive(h, i) ==
  /\ res[h].pc = "idle" /\ i \in Ready(msgs, ResolverComplete)
  /\ msgs' = Deliver(msgs, i)
  /\ res' = [res EXCEPT ![h] = [pc |-> "received", id |-> i]]
  /\ UNCHANGED <<req, cxscan, runner, tmo, scans, published, outcomes, dropped, disturb>>

ResultEnds(h) ==
  /\ res' = [res EXCEPT ![h].pc = "ack"]
  /\ outcomes' = [outcomes EXCEPT ![ResultMsg(h).scan] = @ + 1]
  /\ UNCHANGED <<req, cxscan, msgs, runner, tmo, scans, published, disturb>>

(* A hard failure is logged; a pull-request workflow starts in any case.    *)
ResultHandle(h) ==
  /\ res[h].pc = "received"
  /\ ResultMsg(h).text = "hard" \/ ResultMsg(h).scan \in PullRequests \/ cxscan[ResultMsg(h).scan] = "executing"
  /\ ResultEnds(h) /\ UNCHANGED dropped

(* _execute_delegated_push_scan_workflow starts the SARIF feedback only if  *)
(* the scan is still executing.                                             *)
ResultScanOver(h) ==
  /\ res[h].pc = "received" /\ ResultMsg(h).text # "hard"
  /\ ResultMsg(h).scan \in Pushes /\ cxscan[ResultMsg(h).scan] = "ended"
  /\ ResultEnds(h)
  /\ dropped' = [dropped EXCEPT ![ResultMsg(h).scan] = @ \cup {"over"}]

(* An exception of the dispatch: the message is rejected and discarded.     *)
ResultFails(h) ==
  /\ "dispatch" \in Faults
  /\ res[h].pc = "received" /\ ResultMsg(h).text # "hard"
  /\ res' = [res EXCEPT ![h].pc = "ack"]
  /\ dropped' = [dropped EXCEPT ![ResultMsg(h).scan] = @ \cup {"dispatch"}]
  /\ UNCHANGED <<req, cxscan, msgs, runner, tmo, scans, published, outcomes, disturb>>

ResultBadSignature(h) ==
  /\ "signature" \in Faults
  /\ res[h].pc = "received"
  /\ res' = [res EXCEPT ![h].pc = "ack"]
  /\ dropped' = [dropped EXCEPT ![ResultMsg(h).scan] = @ \cup {"signature"}]
  /\ UNCHANGED <<req, cxscan, msgs, runner, tmo, scans, published, outcomes, disturb>>

ResultAck(h) ==
  /\ res[h].pc = "ack"
  /\ msgs' = Ack(msgs, res[h].id)
  /\ res' = [res EXCEPT ![h] = HIdle]
  /\ UNCHANGED <<req, cxscan, runner, tmo, scans, published, outcomes, dropped, disturb>>

ResultCrash(h) ==
  /\ "crash" \in Faults
  /\ res[h].pc # "idle" /\ disturb[ResultMsg(h).scan] < MaxDisturb
  /\ disturb' = [disturb EXCEPT ![ResultMsg(h).scan] = @ + 1]
  /\ msgs' = Requeue(msgs, res[h].id)
  /\ res' = [res EXCEPT ![h] = HIdle]
  /\ UNCHANGED <<req, cxscan, runner, tmo, scans, published, outcomes, dropped>>
-----------------------------------------------------------------------------
RunStep(w) ==
  \/ RunEnter(w) \/ RunEnterFails(w) \/ RunBadSignature(w) \/ RunScan(w)
  \/ RunFails(w) \/ RunPublish(w) \/ RunPublishRefused(w) \/ RunPublishRaises(w) \/ RunFailureResponse(w)
  \/ RunCleanupFails(w) \/ RunAck(w)

TimeoutStep(t) ==
  \/ TimeoutResubmit(t) \/ TimeoutFailure(t) \/ TimeoutIgnore(t) \/ TimeoutFails(t)
  \/ TimeoutBadSignature(t) \/ TimeoutAck(t)

ResultStep(h) ==
  ResultHandle(h) \/ ResultScanOver(h) \/ ResultFails(h) \/ ResultBadSignature(h) \/ ResultAck(h)

Next ==
  \/ \E r \in Requests : RequestScan(r) \/ RequestNotDelegated(r) \/ ScanEnds(r)
  \/ \E i \in MsgIds :
       \/ RequestExpires(i)
       \/ \E w \in Runners : RunReceive(w, i)
       \/ \E t \in TimeoutHandlers : TimeoutReceive(t, i)
       \/ \E h \in ResultHandlers : ResultReceive(h, i)
  \/ \E w \in Runners : RunStep(w) \/ RunCrash(w) \/ RunAckTimeout(w)
  \/ \E t \in TimeoutHandlers : TimeoutStep(t) \/ TimeoutCrash(t)
  \/ \E h \in ResultHandlers : ResultStep(h) \/ ResultCrash(h)

Spec == Init /\ [][Next]_vars

(* Agents consume and handlers run on; a request that no runner takes       *)
(* expires.  Nothing is assumed of faults, nor of the scan's end.           *)
FairSpec ==
  /\ Spec
  /\ \A i \in MsgIds :
       /\ WF_vars(RequestExpires(i) \/ \E w \in Runners : RunReceive(w, i))
       /\ WF_vars(\E t \in TimeoutHandlers : TimeoutReceive(t, i))
       /\ WF_vars(\E h \in ResultHandlers : ResultReceive(h, i))
  /\ \A w \in Runners : WF_vars(RunStep(w))
  /\ \A t \in TimeoutHandlers : WF_vars(TimeoutStep(t))
  /\ \A h \in ResultHandlers : WF_vars(ResultStep(h))
-----------------------------------------------------------------------------
(* Messages that no handler has answered already.                           *)
Answered(i) ==
  \/ \E w \in Runners : runner[w].id = i /\ ~runner[w].ghost /\ runner[w].pc \in {"ack", "nack"}
  \/ \E t \in TimeoutHandlers : tmo[t].id = i /\ tmo[t].pc = "ack"
  \/ \E h \in ResultHandlers : res[h].id = i /\ res[h].pc = "ack"
  \/ msgs[i].text = "rejected"

Pending(r) == { i \in MsgIds : msgs[i].scan = r /\ ~Answered(i) }

(* A delegated request is pending in some queue or handler, has had its     *)
(* outcome, or was lost for a reason recorded: crashes, expiries and        *)
(* redeliveries alone lose none.                                            *)
DelegationSurvives ==
  \A r \in Requests : req[r] = "delegated" /\ outcomes[r] = 0 /\ dropped[r] = {} => Pending(r) # {}

(* What is pending and what has ended is one, and one more for each         *)
(* redelivery or failed clean-up: in particular the dead letter of a        *)
(* request that its runner rejected is not another chance for the request,  *)
(* and a request is scanned once.                                           *)
OutcomeBound ==
  \A r \in Requests :
    /\ Cardinality(Pending(r)) + outcomes[r] <= 1 + disturb[r]
    /\ scans[r] <= 1 + disturb[r]

(* The retries left fall on every round: with each number of them a request *)
(* is published once, and once more for each redelivery, which may double   *)
(* the rounds that follow.  Hence at most (ScanRetries - 1) rounds each.    *)
RetryBound ==
  \A r \in Requests, n \in 0..ScanRetries : published[r][n] <= 1 + disturb[r]

(* Every delegated request ends: its outcome is handled, is lost for a      *)
(* reason recorded, or a runner has stalled on it.                          *)
DelegationEnds ==
  \A r \in Requests : req[r] = "delegated" ~>
    \/ outcomes[r] > 0 \/ dropped[r] # {}
    \/ \E w \in Runners : runner[w].pc = "stalled" /\ runner[w].req = r

(* A scan of a delegated push gets its SARIF feedback: the workflow is      *)
(* started, whenever the result message is handled.                         *)
PushFeedbackStarts == \A r \in Pushes : "over" \notin dropped[r]
=============================================================================

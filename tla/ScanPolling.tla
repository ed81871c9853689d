----------------------------- MODULE ScanPolling -----------------------------
(***************************************************************************)
(* Scan monitoring: a started workflow publishes an await message whose TTL *)
(* is the poll interval; when it expires it is dead-lettered to the polling *)
(* queue; a poll handler asks CxOne for the state of the scan and either    *)
(* publishes the await message again with a longer TTL or starts the next   *)
(* step of the workflow.  (workflows/scan_polling_service.py, pull_request, *)
(* push, pr_feedback_service, push_feedback_service, workflow_agent.)       *)
(*                                                                          *)
(* A handler is a coroutine: each await of an external call ends a step.    *)
(***************************************************************************)
EXTENDS Naturals, FiniteSets, Topology, Broker

CONSTANTS PRScans, PushScans,   \* scans of pull requests and of pushes
          Pollers,              \* handler slots of the process_poll consumers
          NoMessage,            \* the message slot of an idle handler
          Interval,             \* poll-interval-seconds
          Backoff,              \* poll-backoff-multiplier
          MaxInterval,          \* poll-max-interval-seconds
          ScanTimeout,          \* scan-timeout-hours, 0 is never
          Faults,               \* which failures the environment may cause
          MaxDisturb            \* bound: redeliveries and duplicates of one scan

FaultKinds == {"crash", "duplicate", "publish", "channel", "response", "request",
               "load", "scm", "repeat", "sarif", "refuse", "connect"}

ASSUME PollingAssumption ==
  /\ PRScans \cap PushScans = {} /\ NoScan \notin PRScans \cup PushScans
  /\ NoMessage \notin MsgIds /\ IsFiniteSet(MsgIds)
  /\ Interval \in Nat \ {0} /\ Backoff \in Nat \ {0} /\ MaxInterval \in Nat \ {0}
  /\ ScanTimeout \in Nat /\ MaxDisturb \in Nat
  /\ Faults \subseteq FaultKinds

Scans == PRScans \cup PushScans

VARIABLES
  scan,      \* CxOne: state of each scan
  dropBy,    \* whether the drop_by time of the scan's await messages has passed
  start,     \* progress of start_pr_scan_workflow / start_sarif_feedback
  msgs,      \* the broker's messages
  poller,    \* the poll handlers
  notified,  \* history: next-step messages published for the scan
  stopped,   \* history: why monitoring of the scan was given up
  disturb    \* history: redeliveries and duplicates of the scan's messages

vars == <<scan, dropBy, start, msgs, poller, notified, stopped, disturb>>

Idle == [pc |-> "idle", id |-> NoMessage, seen |-> "none"]

PollPC == {"idle", "received", "requeue", "notify", "ack"}
Reasons == {"expired", "response", "dropped", "unpublished"}
Delays == 0..(IF Interval > MaxInterval THEN Interval ELSE MaxInterval)
Queues == {AwaitedScans, AwaitedScansLegacy, PollingScans, PollingScansLegacy,
           PRFeedback, PRAnnotating, SarifGen}
Texts == {"await", "started", "results", "error"}

Message == [queue : Queues, held : BOOLEAN, scan : Scans, ttl : Delays, text : Texts]

(* Types: in particular no await message waits longer than                  *)
(* poll-max-interval-seconds allows, and every message is of a known scan.  *)
TypeOK ==
  /\ scan \in [Scans -> {"none", "executing", "successful", "failed"}]
  /\ dropBy \in [Scans -> BOOLEAN]
  /\ start \in [Scans -> {"none", "submitted", "awaited", "done"}]
  /\ msgs \in [MsgIds -> Message \cup {NoMsg}]
  /\ poller \in [Pollers -> [pc : PollPC, id : MsgIds \cup {NoMessage},
                             seen : {"none", "executing", "successful", "failed"}]]
  /\ notified \in [Scans -> Nat]
  /\ stopped \in [Scans -> SUBSET Reasons]
  /\ disturb \in [Scans -> 0..MaxDisturb]

Init ==
  /\ scan = [s \in Scans |-> "none"]
  /\ dropBy = [s \in Scans |-> FALSE]
  /\ start = [s \in Scans |-> "none"]
  /\ msgs = [i \in MsgIds |-> NoMsg]
  /\ poller = [w \in Pollers |-> Idle]
  /\ notified = [s \in Scans |-> 0]
  /\ stopped = [s \in Scans |-> {}]
  /\ disturb = [s \in Scans |-> 0]
-----------------------------------------------------------------------------
(***************************************************************************)
(* CxOne (external): a scan runs and ends; time passes.                     *)
(***************************************************************************)
Finished(s) == scan[s] \in {"successful", "failed"}

Submit(s) ==
  /\ scan[s] = "none"
  /\ scan' = [scan EXCEPT ![s] = "executing"]
  /\ start' = [start EXCEPT ![s] = "submitted"]
  /\ UNCHANGED <<dropBy, msgs, poller, notified, stopped, disturb>>

FinishScan(s) ==
  /\ scan[s] = "executing"
  /\ \E outcome \in {"successful", "failed"} : scan' = [scan EXCEPT ![s] = outcome]
  /\ UNCHANGED <<dropBy, start, msgs, poller, notified, stopped, disturb>>

(* compute_drop_by_timestamp: a timeout of 0 yields a time never reached.   *)
DropByPasses(s) ==
  /\ ScanTimeout # 0 /\ ~dropBy[s]
  /\ start[s] \in {"awaited", "done"}
  /\ dropBy' = [dropBy EXCEPT ![s] = TRUE]
  /\ UNCHANGED <<scan, start, msgs, poller, notified, stopped, disturb>>

-----------------------------------------------------------------------------
(***************************************************************************)
(* start_pr_scan_workflow publishes the await message and then the "Scan    *)
(* Started" annotation; start_sarif_feedback only the await message.        *)
(***************************************************************************)
AfterAwait(s) == IF s \in PRScans THEN "awaited" ELSE "done"

WorkflowStart(s) ==
  /\ start[s] = "submitted"
  /\ Free(msgs) # {} /\ msgs' = Publish(msgs, Msg(AwaitedScans, s, Interval, "await"))
  /\ start' = [start EXCEPT ![s] = AfterAwait(s)]
  /\ UNCHANGED <<scan, dropBy, poller, notified, stopped, disturb>>

(* A publisher of the previous version, still running during an upgrade.    *)
WorkflowStartLegacy(s) ==
  /\ start[s] = "submitted" /\ s \in PRScans
  /\ Free(msgs) # {} /\ msgs' = Publish(msgs, Msg(AwaitedScansLegacy, s, Interval, "await"))
  /\ start' = [start EXCEPT ![s] = AfterAwait(s)]
  /\ UNCHANGED <<scan, dropBy, poller, notified, stopped, disturb>>

(* The broker refuses the message: _publish returns FALSE, which is ignored.*)
(* No channel: the exception ends start_pr_scan_workflow.                   *)
WorkflowStartFails(s) ==
  /\ start[s] = "submitted"
  /\ \/ "publish" \in Faults /\ start' = [start EXCEPT ![s] = AfterAwait(s)]
     \/ "channel" \in Faults /\ start' = [start EXCEPT ![s] = "done"]
  /\ stopped' = [stopped EXCEPT ![s] = @ \cup {"unpublished"}]
  /\ UNCHANGED <<scan, dropBy, msgs, poller, notified, disturb>>

AnnotationStart(s) ==
  /\ start[s] = "awaited"
  /\ \/ Free(msgs) # {} /\ msgs' = Publish(msgs, Msg(PRAnnotating, s, 0, "started"))
     \/ Faults \cap {"publish", "channel"} # {} /\ UNCHANGED msgs
  /\ start' = [start EXCEPT ![s] = "done"]
  /\ UNCHANGED <<scan, dropBy, poller, notified, stopped, disturb>>

-----------------------------------------------------------------------------
(***************************************************************************)
(* The TTL of an await message runs out: it is dead-lettered to the polling *)
(* queue.  The at-least-once strategy may deliver it twice.                 *)
(***************************************************************************)
PollQueueOf(q) == IF q = AwaitedScans THEN PollingScans ELSE PollingScansLegacy

Awaiting(i) == msgs[i].queue \in {AwaitedScans, AwaitedScansLegacy}

ExpireAwait(i) ==
  /\ Awaiting(i)
  /\ msgs' = DeadLetter(msgs, i, PollQueueOf(msgs[i].queue))
  /\ UNCHANGED <<scan, dropBy, start, poller, notified, stopped, disturb>>

ExpireTwice(i) ==
  /\ "duplicate" \in Faults
  /\ Awaiting(i)
  /\ disturb[msgs[i].scan] < MaxDisturb
  /\ Free(msgs) # {}
  /\ msgs' = Publish(DeadLetter(msgs, i, PollQueueOf(msgs[i].queue)),
                     [msgs[i] EXCEPT !.queue = PollQueueOf(msgs[i].queue)])
  /\ disturb' = [disturb EXCEPT ![msgs[i].scan] = @ + 1]
  /\ UNCHANGED <<scan, dropBy, start, poller, notified, stopped>>

-----------------------------------------------------------------------------
(***************************************************************************)
(* execute_poll_scan_workflow, run by process_poll.                         *)
(***************************************************************************)
ScanOf(w) == msgs[poller[w].id].scan

IsExpired_Reversed(s) == ~dropBy[s]

IsExpired(s) == dropBy[s]

PollReceive(w, i) ==
  /\ poller[w].pc = "idle"
  /\ i \in Ready(msgs, PollingScans) \cup Ready(msgs, PollingScansLegacy)
  /\ msgs' = Deliver(msgs, i)
  /\ poller' = [poller EXCEPT ![w] = [pc |-> "received", id |-> i, seen |-> "none"]]
  /\ UNCHANGED <<scan, dropBy, start, notified, stopped, disturb>>

(* The handler ends: its message leaves the broker and monitoring of the    *)
(* scan is given up for the reason.                                         *)
GiveUp(w, reason) ==
  /\ stopped' = [stopped EXCEPT ![ScanOf(w)] = @ \cup {reason}]
  /\ msgs' = Ack(msgs, poller[w].id)
  /\ poller' = [poller EXCEPT ![w] = Idle]
  /\ UNCHANGED <<scan, dropBy, start, notified, disturb>>

PollExpired(w) ==
  /\ poller[w].pc = "received"
  /\ IsExpired(ScanOf(w))
  /\ GiveUp(w, "expired")

(* No channel: no exchange to requeue to, and process_poll rejects the      *)
(* message, which the polling queue does not dead-letter.                   *)
PollNoChannel(w) ==
  /\ "channel" \in Faults
  /\ poller[w].pc = "received"
  /\ ~IsExpired(ScanOf(w))
  /\ GiveUp(w, "dropped")

PollResponseException(w) ==
  /\ "response" \in Faults
  /\ poller[w].pc = "received"
  /\ ~IsExpired(ScanOf(w))
  /\ GiveUp(w, "response")

(* Any other exception of load_scan_inspector: the finally clause requeues; *)
(* process_poll's nack then finds the message already processed.            *)
PollRequestException(w) ==
  /\ "request" \in Faults
  /\ poller[w].pc = "received"
  /\ ~IsExpired(ScanOf(w))
  /\ poller' = [poller EXCEPT ![w].pc = "requeue"]
  /\ UNCHANGED <<scan, dropBy, start, msgs, notified, stopped, disturb>>

PollInspect(w) ==
  /\ poller[w].pc = "received"
  /\ ~IsExpired(ScanOf(w))
  /\ poller' = [poller EXCEPT ![w].seen = scan[ScanOf(w)],
                              ![w].pc = IF Finished(ScanOf(w)) THEN "notify" ELSE "requeue"]
  /\ UNCHANGED <<scan, dropBy, start, msgs, notified, stopped, disturb>>

NextDelay_Uncapped(ttl) == ttl * Backoff

NextDelay(ttl) == IF ttl * Backoff < MaxInterval THEN ttl * Backoff ELSE MaxInterval

PollRequeue(w) ==
  /\ poller[w].pc = "requeue"
  /\ Free(msgs) # {}
  /\ msgs' = Publish(msgs, Msg(AwaitedScans, ScanOf(w), NextDelay(msgs[poller[w].id].ttl), "await"))
  /\ poller' = [poller EXCEPT ![w].pc = "ack"]
  /\ UNCHANGED <<scan, dropBy, start, notified, stopped, disturb>>

PollRequeueRefused_Acks(w) ==
  /\ "publish" \in Faults
  /\ poller[w].pc = "requeue"
  /\ poller' = [poller EXCEPT ![w].pc = "ack"]
  /\ UNCHANGED <<scan, dropBy, start, msgs, notified, stopped, disturb>>

(* Not acknowledged by the broker: msg.nack() puts the message back.        *)
PollRequeueRefused(w) ==
  /\ "publish" \in Faults
  /\ poller[w].pc = "requeue"
  /\ msgs' = Requeue(msgs, poller[w].id)
  /\ poller' = [poller EXCEPT ![w] = Idle]
  /\ UNCHANGED <<scan, dropBy, start, notified, stopped, disturb>>

PollRequeueFails(w) ==
  /\ "channel" \in Faults
  /\ poller[w].pc = "requeue"
  /\ GiveUp(w, "dropped")

NextStep_AnyEnd(s, seen) == Msg(IF s \in PRScans THEN PRFeedback ELSE SarifGen, s, 0, "results")

(* handle_completed_scan / handle_awaited_scan_error of the one service     *)
(* whose workflow the message names.                                        *)
NextStep(s, seen) ==
  IF s \in PRScans
  THEN IF seen = "successful" THEN Msg(PRFeedback, s, 0, "results") ELSE Msg(PRAnnotating, s, 0, "error")
  ELSE Msg(SarifGen, s, 0, IF seen = "successful" THEN "results" ELSE "error")

PollNotify_StillRequeues(w) ==
  /\ poller[w].pc = "notify"
  /\ Free(msgs) # {} /\ msgs' = Publish(msgs, NextStep(ScanOf(w), poller[w].seen))
  /\ notified' = [notified EXCEPT ![ScanOf(w)] = @ + 1]
  /\ poller' = [poller EXCEPT ![w].pc = "requeue"]
  /\ UNCHANGED <<scan, dropBy, start, stopped, disturb>>

PollNotify_Unpublished(w) ==
  /\ poller[w].pc = "notify"
  /\ notified' = [notified EXCEPT ![ScanOf(w)] = @ + 1]
  /\ poller' = [poller EXCEPT ![w].pc = "ack"]
  /\ UNCHANGED <<scan, dropBy, start, msgs, stopped, disturb>>

PollNotify(w) ==
  /\ poller[w].pc = "notify"
  /\ Free(msgs) # {} /\ msgs' = Publish(msgs, NextStep(ScanOf(w), poller[w].seen))
  /\ notified' = [notified EXCEPT ![ScanOf(w)] = @ + 1]
  /\ poller' = [poller EXCEPT ![w].pc = "ack"]
  /\ UNCHANGED <<scan, dropBy, start, stopped, disturb>>

(* A refused publish is ignored, an exception is logged; the message is     *)
(* acknowledged either way.                                                 *)
PollNotifyFails(w) ==
  /\ Faults \cap {"publish", "channel"} # {}
  /\ poller[w].pc = "notify"
  /\ stopped' = [stopped EXCEPT ![ScanOf(w)] = @ \cup {"unpublished"}]
  /\ poller' = [poller EXCEPT ![w].pc = "ack"]
  /\ UNCHANGED <<scan, dropBy, start, msgs, notified, disturb>>

PollAck(w) ==
  /\ poller[w].pc = "ack"
  /\ msgs' = Ack(msgs, poller[w].id)
  /\ poller' = [poller EXCEPT ![w] = Idle]
  /\ UNCHANGED <<scan, dropBy, start, notified, stopped, disturb>>

(* The agent dies or loses its connection: the broker redelivers.           *)
PollCrash(w) ==
  /\ "crash" \in Faults
  /\ poller[w].pc # "idle"
  /\ disturb[ScanOf(w)] < MaxDisturb
  /\ disturb' = [disturb EXCEPT ![ScanOf(w)] = @ + 1]
  /\ msgs' = Requeue(msgs, poller[w].id)
  /\ poller' = [poller EXCEPT ![w] = Idle]
  /\ UNCHANGED <<scan, dropBy, start, notified, stopped>>

-----------------------------------------------------------------------------
ScanStep(s) == Submit(s) \/ FinishScan(s) \/ DropByPasses(s)

StartStep(s) ==
  WorkflowStart(s) \/ WorkflowStartLegacy(s) \/ WorkflowStartFails(s) \/ AnnotationStart(s)

PollStep(w) ==
  \/ PollExpired(w) \/ PollNoChannel(w) \/ PollResponseException(w) \/ PollRequestException(w)
  \/ PollInspect(w) \/ PollRequeue(w) \/ PollRequeueRefused(w) \/ PollRequeueFails(w)
  \/ PollNotify(w) \/ PollNotifyFails(w) \/ PollAck(w)

Next ==
  \/ \E s \in Scans : ScanStep(s) \/ StartStep(s)
  \/ \E i \in MsgIds : ExpireAwait(i) \/ ExpireTwice(i)
  \/ \E w \in Pollers : PollStep(w) \/ PollCrash(w) \/ \E i \in MsgIds : PollReceive(w, i)

Spec == Init /\ [][Next]_vars

(***************************************************************************)
(* The broker dead-letters and delivers, agents keep consuming, and a       *)
(* coroutine is resumed when what it awaits completes.  Strong fairness of  *)
(* the delivery: a handler is free again and again and the queue is FIFO,   *)
(* so no message is passed over for ever.  Nothing is assumed of CxOne or   *)
(* of the faults.                                                           *)
(***************************************************************************)
Fairness ==
  /\ \A s \in Scans : WF_vars(StartStep(s))
  /\ \A i \in MsgIds : WF_vars(ExpireAwait(i))
  /\ \A i \in MsgIds : SF_vars(\E w \in Pollers : PollReceive(w, i))
  /\ \A w \in Pollers : WF_vars(PollStep(w))

FairSpec == Spec /\ Fairness
-----------------------------------------------------------------------------
(* The monitoring messages of a scan, and those of them that no handler has *)
(* dealt with and is about to acknowledge.                                  *)
MonitorQueues == {AwaitedScans, AwaitedScansLegacy, PollingScans, PollingScansLegacy}

Spent(i) == \E w \in Pollers : poller[w].pc = "ack" /\ poller[w].id = i

Copies(s) == { i \in MsgIds : msgs[i].queue \in MonitorQueues /\ msgs[i].scan = s }

Active(s) == { i \in Copies(s) : ~Spent(i) }

(* A started workflow that has not reported and was not given up for one of *)
(* the logged reasons still has its await message somewhere in the broker:  *)
(* no crash, redelivery or refused publish in execute_poll_scan_workflow    *)
(* makes a scan silently unmonitored.                                       *)
MonitoringSurvives ==
  \A s \in Scans : start[s] \in {"awaited", "done"} /\ notified[s] = 0 /\ stopped[s] = {}
                      => Active(s) # {}

(* Without redelivery a scan has one await message and starts the next step *)
(* of its workflow at most once; each redelivery adds at most one.          *)
FeedbackBound ==
  \A s \in Scans : Cardinality(Active(s)) + notified[s] <= 1 + disturb[s]

(* The next step is the one for how the scan ended, though the state was    *)
(* read before the publish and the message may be a duplicate.              *)
OutcomeFaithful ==
  \A i \in MsgIds :
    /\ msgs[i].text = "results" => scan[msgs[i].scan] = "successful"
    /\ msgs[i].text = "error" => scan[msgs[i].scan] = "failed"

(***************************************************************************)
(* What monitoring promises; execute_poll_scan_workflow implements it.      *)
(***************************************************************************)
Status == [s \in Scans |-> IF notified[s] > 0 THEN "reported"
                           ELSE IF Copies(s) # {} THEN "monitoring"
                           ELSE IF start[s] \in {"awaited", "done"} THEN "abandoned" ELSE "none"]

Contract == INSTANCE ScanMonitorContract
              WITH status <- Status, ended <- { s \in Scans : Finished(s) },
                   overdue <- { s \in Scans : dropBy[s] }

(* Monitoring begins once, ends by a report of a finished scan or by being  *)
(* abandoned when overdue, and nothing else ends it.                        *)
ImplementsContract == Contract!Spec
=============================================================================

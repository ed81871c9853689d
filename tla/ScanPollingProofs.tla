-------------------------- MODULE ScanPollingProofs --------------------------
(***************************************************************************)
(* Proofs about ScanPolling, for all scans, handlers, messages, intervals   *)
(* and faults: its types, that monitoring survives, and that the next step  *)
(* of a workflow is the one for the outcome of the scan.                    *)
(***************************************************************************)
EXTENDS ScanPolling, FiniteSetTheorems, TLAPS

Pool == [MsgIds -> Message \cup {NoMsg}]
PollQueues == {PollingScans, PollingScansLegacy}

-----------------------------------------------------------------------------
(***************************************************************************)
(* The broker's operations on a pool of typed messages.                     *)
(***************************************************************************)

(* A message of the pool that is in a queue is a proper one.                *)
LEMMA UsedIsMessage ==
  ASSUME NEW ms \in Pool, NEW i \in MsgIds, ms[i].queue # NoQueue
  PROVE  ms[i] \in Message
BY DEF Pool, NoMsg

(* Publishing puts the message at an unused identity, and only there.       *)
LEMMA PublishFacts ==
  ASSUME NEW ms \in Pool, NEW m \in Message, Free(ms) # {}
  PROVE  /\ NewId(ms) \in MsgIds
         /\ ms[NewId(ms)].queue = NoQueue
         /\ Publish(ms, m) \in Pool
         /\ Publish(ms, m)[NewId(ms)] = m
         /\ \A j \in MsgIds \ {NewId(ms)} : Publish(ms, m)[j] = ms[j]
<1>1. NewId(ms) \in Free(ms)
  BY DEF NewId
<1>. QED
  BY <1>1 DEF Free, Publish, Pool

(* Delivering a used message marks it held and changes nothing else.        *)
LEMMA DeliverFacts ==
  ASSUME NEW ms \in Pool, NEW i \in MsgIds, ms[i].queue # NoQueue
  PROVE  /\ Deliver(ms, i) \in Pool /\ Deliver(ms, i)[i].held
         /\ Deliver(ms, i)[i].queue = ms[i].queue /\ Deliver(ms, i)[i].scan = ms[i].scan
         /\ Deliver(ms, i)[i].text = ms[i].text
         /\ \A j \in MsgIds \ {i} : Deliver(ms, i)[j] = ms[j]
<1>1. ms[i] \in Message
  BY UsedIsMessage
<1>. QED
  BY <1>1 DEF Pool, Message, Deliver

(* Requeueing a message makes it ready and changes nothing else.            *)
LEMMA RequeueFacts ==
  ASSUME NEW ms \in Pool, NEW i \in MsgIds, ms[i].queue # NoQueue
  PROVE  /\ Requeue(ms, i) \in Pool /\ ~Requeue(ms, i)[i].held
         /\ Requeue(ms, i)[i].queue = ms[i].queue /\ Requeue(ms, i)[i].scan = ms[i].scan
         /\ Requeue(ms, i)[i].text = ms[i].text
         /\ \A j \in MsgIds \ {i} : Requeue(ms, i)[j] = ms[j]
<1>1. ms[i] \in Message
  BY UsedIsMessage
<1>. QED
  BY <1>1 DEF Pool, Message, Requeue

(* Acknowledging frees the identity of the message.                         *)
LEMMA AckFacts ==
  ASSUME NEW ms \in Pool, NEW i \in MsgIds
  PROVE  /\ Ack(ms, i) \in Pool
         /\ Ack(ms, i)[i] = NoMsg
         /\ \A j \in MsgIds \ {i} : Ack(ms, i)[j] = ms[j]
BY DEF Ack, Pool

(* Dead-lettering moves a message to another queue, ready.                  *)
LEMMA DeadLetterFacts ==
  ASSUME NEW ms \in Pool, NEW i \in MsgIds, ms[i].queue # NoQueue, NEW q \in Queues
  PROVE  LET ns == DeadLetter(ms, i, q)
         IN  /\ ns \in Pool
             /\ ns[i] \in Message
             /\ ns[i].queue = q /\ ns[i].scan = ms[i].scan /\ ns[i].text = ms[i].text
             /\ ns[i].ttl = ms[i].ttl /\ ~ns[i].held
             /\ \A j \in MsgIds \ {i} : ns[j] = ms[j]
<1>1. ms[i] \in Message
  BY UsedIsMessage
<1>. QED
  BY <1>1 DEF Pool, Message, DeadLetter

(* What Msg builds is a message.                                            *)
LEMMA MsgFacts ==
  ASSUME NEW q \in Queues, NEW s \in Scans, NEW d \in Delays, NEW t \in Texts
  PROVE  /\ Msg(q, s, d, t) \in Message
         /\ Msg(q, s, d, t).queue = q /\ Msg(q, s, d, t).scan = s /\ Msg(q, s, d, t).text = t
BY DEF Msg, Message

(* The delays of requeued messages stay within the configured interval.     *)
LEMMA DelayFacts ==
  /\ Interval \in Delays /\ 0 \in Delays
  /\ \A d \in Delays : NextDelay(d) \in Delays
<1>1. \A d \in Delays : d * Backoff \in Nat
  BY PollingAssumption DEF Delays
<1>. QED
  BY <1>1, PollingAssumption DEF Delays, NextDelay

(* The queues have different names.                                         *)
LEMMA QueueFacts ==
  /\ Queues = {AwaitedScans, AwaitedScansLegacy, PRFeedback, PRAnnotating, SarifGen} \cup PollQueues
  /\ PollQueues \cap {AwaitedScans, AwaitedScansLegacy, PRFeedback, PRAnnotating, SarifGen} = {}
  /\ NoQueue \notin Queues /\ MonitorQueues \subseteq Queues
  /\ MonitorQueues = {AwaitedScans, AwaitedScansLegacy} \cup PollQueues
BY DEF Queues, PollQueues, MonitorQueues, NoQueue, AwaitedScans, AwaitedScansLegacy, PollingScans,
       PollingScansLegacy, PRFeedback, PRAnnotating, SarifGen
-----------------------------------------------------------------------------
(***************************************************************************)
(* The inductive invariant: a busy handler holds a delivered message of a   *)
(* polling queue, no two handlers hold the same one, and what a handler is  *)
(* about to report is still how the scan ended; before its workflow starts, *)
(* a scan has no message and no report, and the workflow of a scan that is  *)
(* not submitted has not started.                                           *)
(***************************************************************************)
Busy(w) == poller[w].pc # "idle"

HandlersHold ==
  \A w \in Pollers : Busy(w) => /\ poller[w].id \in MsgIds
                                /\ msgs[poller[w].id].queue \in PollQueues
                                /\ msgs[poller[w].id].held

Exclusive ==
  \A v, w \in Pollers : v # w /\ Busy(v) /\ Busy(w) => poller[v].id # poller[w].id

SeenFaithful ==
  \A w \in Pollers : poller[w].pc = "notify" => /\ poller[w].seen = scan[ScanOf(w)]
                                                /\ Finished(ScanOf(w))

Unstarted(s) == start[s] \in {"none", "submitted"}

Fresh ==
  \A s \in Scans : /\ Unstarted(s) => Copies(s) = {} /\ notified[s] = 0
                   /\ scan[s] = "none" => start[s] = "none"

IInv ==
  /\ TypeOK /\ HandlersHold /\ Exclusive /\ SeenFaithful /\ Fresh
  /\ MonitoringSurvives /\ OutcomeFaithful /\ FeedbackBound

(* The message a busy handler works on is a proper one, of a known scan.    *)
LEMMA HandlerFacts ==
  ASSUME TypeOK, HandlersHold, NEW w \in Pollers, Busy(w)
  PROVE  /\ poller[w].id \in MsgIds /\ msgs[poller[w].id] \in Message
         /\ msgs[poller[w].id].queue # NoQueue
         /\ ScanOf(w) \in Scans /\ msgs[poller[w].id].ttl \in Delays
<1>1. poller[w].id \in MsgIds /\ msgs[poller[w].id].queue # NoQueue
  BY QueueFacts DEF HandlersHold
<1>2. msgs \in Pool
  BY DEF TypeOK, Pool
<1>3. msgs[poller[w].id] \in Message
  BY <1>1, <1>2, UsedIsMessage
<1>. QED
  BY <1>1, <1>3 DEF ScanOf, Message

(* Types are preserved by every step.                                       *)
LEMMA TypeStep ==
  ASSUME TypeOK, HandlersHold, Next
  PROVE  TypeOK'
<1>0. msgs \in Pool
  BY DEF TypeOK, Pool
<1>1. ASSUME NEW s \in Scans, ScanStep(s)
      PROVE  TypeOK'
  BY <1>1 DEF TypeOK, ScanStep, Submit, FinishScan, DropByPasses
<1>2. ASSUME NEW s \in Scans, StartStep(s)
      PROVE  TypeOK'
  <2>1. CASE WorkflowStart(s)
    <3>1. Msg(AwaitedScans, s, Interval, "await") \in Message
      BY MsgFacts, DelayFacts, QueueFacts DEF Queues, Texts
    <3>2. msgs' \in Pool
      BY <2>1, <3>1, <1>0, PublishFacts DEF WorkflowStart
    <3>. QED
      BY <2>1, <3>2 DEF TypeOK, WorkflowStart, AfterAwait, Pool
  <2>2. CASE WorkflowStartLegacy(s)
    <3>1. Msg(AwaitedScansLegacy, s, Interval, "await") \in Message
      BY MsgFacts, DelayFacts, QueueFacts DEF Queues, Texts
    <3>2. msgs' \in Pool
      BY <2>2, <3>1, <1>0, PublishFacts DEF WorkflowStartLegacy
    <3>. QED
      BY <2>2, <3>2 DEF TypeOK, WorkflowStartLegacy, AfterAwait, Pool
  <2>3. CASE WorkflowStartFails(s)
    BY <2>3 DEF TypeOK, WorkflowStartFails, AfterAwait, Reasons
  <2>4. CASE AnnotationStart(s)
    <3>1. Msg(PRAnnotating, s, 0, "started") \in Message
      BY MsgFacts, DelayFacts, QueueFacts DEF Queues, Texts
    <3>2. msgs' \in Pool
      BY <2>4, <3>1, <1>0, PublishFacts DEF AnnotationStart
    <3>. QED
      BY <2>4, <3>2 DEF TypeOK, AnnotationStart, Pool
  <2>. QED
    BY <1>2, <2>1, <2>2, <2>3, <2>4 DEF StartStep
<1>3. ASSUME NEW i \in MsgIds, ExpireAwait(i) \/ ExpireTwice(i)
      PROVE  TypeOK'
  <2>1. /\ msgs[i].queue # NoQueue
        /\ PollQueueOf(msgs[i].queue) \in Queues
    BY <1>3, QueueFacts DEF ExpireAwait, ExpireTwice, Awaiting, PollQueueOf, Queues
  <2>2. msgs[i] \in Message
    BY <2>1, <1>0, UsedIsMessage
  <2>3. CASE ExpireAwait(i)
    BY <2>3, <2>1, <1>0, DeadLetterFacts DEF TypeOK, ExpireAwait, Pool
  <2>4. CASE ExpireTwice(i)
    <3>1. [msgs[i] EXCEPT !.queue = PollQueueOf(msgs[i].queue)] \in Message
      BY <2>1, <2>2 DEF Message
    <3>2. DeadLetter(msgs, i, PollQueueOf(msgs[i].queue)) \in Pool
      BY <2>1, <1>0, DeadLetterFacts
    <3>3. Free(DeadLetter(msgs, i, PollQueueOf(msgs[i].queue))) # {}
      <4>1. PICK j \in MsgIds : msgs[j].queue = NoQueue
        BY <2>4 DEF ExpireTwice, Free
      <4>2. DeadLetter(msgs, i, PollQueueOf(msgs[i].queue))[j] = msgs[j]
        BY <4>1, <2>1, <1>0, DeadLetterFacts
      <4>. QED
        BY <4>1, <4>2 DEF Free
    <3>4. msgs' \in Pool
      BY <2>4, <3>1, <3>2, <3>3, PublishFacts DEF ExpireTwice
    <3>5. disturb' \in [Scans -> 0..MaxDisturb]
      BY <2>4, <2>2, PollingAssumption DEF TypeOK, ExpireTwice, Message
    <3>. QED
      BY <2>4, <3>4, <3>5 DEF TypeOK, ExpireTwice, Pool
  <2>. QED
    BY <1>3, <2>3, <2>4
<1>4. ASSUME NEW w \in Pollers, PollStep(w)
      PROVE  TypeOK'
  <2>0. Busy(w)
    BY <1>4 DEF PollStep, PollExpired, PollNoChannel, PollResponseException, PollRequestException,
                PollInspect, PollRequeue, PollRequeueRefused, PollRequeueFails, PollNotify,
                PollNotifyFails, PollAck, Busy
  <2>. DEFINE i == poller[w].id
  <2>i. /\ i \in MsgIds /\ msgs[i] \in Message /\ msgs[i].queue # NoQueue
        /\ ScanOf(w) \in Scans /\ msgs[i].ttl \in Delays
    BY <2>0, HandlerFacts
  <2>1. ASSUME NEW r \in Reasons, GiveUp(w, r)
        PROVE  TypeOK'
    <3>1. msgs' \in Pool
      BY <2>1, <2>i, <1>0, AckFacts DEF GiveUp
    <3>2. stopped' \in [Scans -> SUBSET Reasons]
      BY <2>1, <2>i DEF TypeOK, GiveUp
    <3>. QED
      BY <2>1, <3>1, <3>2 DEF TypeOK, GiveUp, Pool, Idle, PollPC
  <2>2. CASE PollExpired(w) \/ PollNoChannel(w) \/ PollResponseException(w) \/ PollRequeueFails(w)
    BY <2>1, <2>2 DEF PollExpired, PollNoChannel, PollResponseException, PollRequeueFails, Reasons
  <2>3. CASE PollRequestException(w)
    BY <2>3 DEF TypeOK, PollRequestException, PollPC
  <2>4. CASE PollInspect(w)
    BY <2>4, <2>i DEF TypeOK, PollInspect, PollPC
  <2>5. CASE PollRequeue(w)
    <3>1. Msg(AwaitedScans, ScanOf(w), NextDelay(msgs[i].ttl), "await") \in Message
      BY <2>i, MsgFacts, DelayFacts DEF Queues, Texts
    <3>2. msgs' \in Pool
      BY <2>5, <3>1, <1>0, PublishFacts DEF PollRequeue
    <3>. QED
      BY <2>5, <3>2 DEF TypeOK, PollRequeue, Pool, PollPC
  <2>6. CASE PollRequeueRefused(w)
    <3>1. msgs' \in Pool
      BY <2>6, <2>i, <1>0, RequeueFacts DEF PollRequeueRefused
    <3>. QED
      BY <2>6, <3>1 DEF TypeOK, PollRequeueRefused, Pool, Idle, PollPC
  <2>7. CASE PollNotify(w)
    <3>1. NextStep(ScanOf(w), poller[w].seen) \in Message
      BY <2>i, MsgFacts, DelayFacts DEF NextStep, Queues, Texts
    <3>2. msgs' \in Pool
      BY <2>7, <3>1, <1>0, PublishFacts DEF PollNotify
    <3>3. notified' \in [Scans -> Nat]
      BY <2>7, <2>i DEF TypeOK, PollNotify
    <3>. QED
      BY <2>7, <3>2, <3>3 DEF TypeOK, PollNotify, Pool, PollPC
  <2>8. CASE PollNotifyFails(w)
    BY <2>8, <2>i DEF TypeOK, PollNotifyFails, PollPC, Reasons
  <2>9. CASE PollAck(w)
    <3>1. msgs' \in Pool
      BY <2>9, <2>i, <1>0, AckFacts DEF PollAck
    <3>. QED
      BY <2>9, <3>1 DEF TypeOK, PollAck, Pool, Idle, PollPC
  <2>. QED
    BY <1>4, <2>2, <2>3, <2>4, <2>5, <2>6, <2>7, <2>8, <2>9 DEF PollStep
<1>5. ASSUME NEW w \in Pollers, PollCrash(w)
      PROVE  TypeOK'
  <2>1. /\ poller[w].id \in MsgIds /\ msgs[poller[w].id].queue # NoQueue /\ ScanOf(w) \in Scans
    BY <1>5, HandlerFacts DEF PollCrash, Busy
  <2>2. msgs' \in Pool
    BY <1>5, <2>1, <1>0, RequeueFacts DEF PollCrash
  <2>3. disturb' \in [Scans -> 0..MaxDisturb]
    BY <1>5, <2>1, PollingAssumption DEF TypeOK, PollCrash
  <2>. QED
    BY <1>5, <2>2, <2>3 DEF TypeOK, PollCrash, Pool, Idle, PollPC
<1>6. ASSUME NEW w \in Pollers, NEW i \in MsgIds, PollReceive(w, i)
      PROVE  TypeOK'
  <2>1. msgs[i].queue # NoQueue
    BY <1>6, QueueFacts DEF PollReceive, Ready, PollQueues
  <2>2. msgs' \in Pool
    BY <1>6, <2>1, <1>0, DeliverFacts DEF PollReceive
  <2>. QED
    BY <1>6, <2>2 DEF TypeOK, PollReceive, Pool, PollPC
<1>. QED
  BY <1>1, <1>2, <1>3, <1>4, <1>5, <1>6 DEF Next
-----------------------------------------------------------------------------
(***************************************************************************)
(* What a step leaves alone: a handler that does not take the step keeps    *)
(* its state and its message.                                               *)
(***************************************************************************)
Kept(v) == /\ poller'[v] = poller[v]
           /\ Busy(v) => msgs'[poller[v].id] = msgs[poller[v].id]

(* A published message does not take the identity of a message in use.      *)
LEMMA PublishKeeps ==
  ASSUME msgs \in Pool, NEW m \in Message, Free(msgs) # {}, msgs' = Publish(msgs, m)
  PROVE  \A j \in MsgIds : msgs[j].queue # NoQueue => msgs'[j] = msgs[j]
BY PublishFacts

(* Steps of CxOne, of a workflow's start and of an expiring await message   *)
(* leave all handlers and their messages alone.                             *)
LEMMA QuietStep ==
  ASSUME TypeOK, HandlersHold,
         \/ \E s \in Scans : ScanStep(s) \/ StartStep(s)
         \/ \E i \in MsgIds : ExpireAwait(i) \/ ExpireTwice(i)
  PROVE  poller' = poller /\ \A v \in Pollers : Kept(v)
<1>0. msgs \in Pool
  BY DEF TypeOK, Pool
<1>1. ASSUME NEW s \in Scans, ScanStep(s)
      PROVE  poller' = poller /\ msgs' = msgs
  BY <1>1 DEF ScanStep, Submit, FinishScan, DropByPasses
<1>2. ASSUME NEW s \in Scans, StartStep(s)
      PROVE  /\ poller' = poller
             /\ \A j \in MsgIds : msgs[j].queue # NoQueue => msgs'[j] = msgs[j]
  <2>1. /\ Msg(AwaitedScans, s, Interval, "await") \in Message
        /\ Msg(AwaitedScansLegacy, s, Interval, "await") \in Message
        /\ Msg(PRAnnotating, s, 0, "started") \in Message
    BY MsgFacts, DelayFacts DEF Queues, Texts
  <2>. QED
    BY <1>0, <1>2, <2>1, PublishKeeps
       DEF StartStep, WorkflowStart, WorkflowStartLegacy, WorkflowStartFails, AnnotationStart
<1>3. ASSUME NEW i \in MsgIds, ExpireAwait(i) \/ ExpireTwice(i)
      PROVE  /\ poller' = poller
             /\ \A j \in MsgIds : msgs[j].queue \in PollQueues => msgs'[j] = msgs[j]
  <2>. DEFINE ns == DeadLetter(msgs, i, PollQueueOf(msgs[i].queue))
  <2>1. /\ msgs[i].queue # NoQueue /\ msgs[i].queue \notin PollQueues
        /\ PollQueueOf(msgs[i].queue) \in Queues
    BY <1>3, QueueFacts DEF ExpireAwait, ExpireTwice, Awaiting, PollQueueOf, Queues
  <2>2. /\ ns \in Pool /\ ns[i].queue = PollQueueOf(msgs[i].queue)
        /\ \A j \in MsgIds \ {i} : ns[j] = msgs[j]
    BY <2>1, <1>0, DeadLetterFacts
  <2>3. CASE ExpireAwait(i)
    BY <2>3, <2>1, <2>2 DEF ExpireAwait
  <2>4. CASE ExpireTwice(i)
    <3>1. [msgs[i] EXCEPT !.queue = PollQueueOf(msgs[i].queue)] \in Message
      BY <2>1, <1>0, UsedIsMessage DEF Message
    <3>2. Free(ns) # {}
      <4>1. PICK j \in MsgIds : msgs[j].queue = NoQueue
        BY <2>4 DEF ExpireTwice, Free
      <4>. QED
        BY <4>1, <2>1, <2>2 DEF Free
    <3>3. \A j \in MsgIds : ns[j].queue # NoQueue => msgs'[j] = ns[j]
      BY <2>4, <3>1, <3>2, <2>2, PublishFacts DEF ExpireTwice
    <3>. QED
      BY <2>4, <3>3, <2>1, <2>2, QueueFacts DEF ExpireTwice
  <2>. QED
    BY <1>3, <2>3, <2>4
<1>. QED
  BY <1>1, <1>2, <1>3, QueueFacts DEF HandlersHold, Kept

(* A handler's step leaves the other handlers alone, and either ends the    *)
(* handler or keeps its message.                                            *)
LEMMA HandlerStep ==
  ASSUME TypeOK, HandlersHold, Exclusive, NEW w \in Pollers, PollStep(w) \/ PollCrash(w)
  PROVE  /\ Busy(w)
         /\ \A v \in Pollers \ {w} : Kept(v)
         /\ \/ poller'[w] = Idle
            \/ /\ poller'[w].id = poller[w].id /\ poller'[w].pc # "idle"
               /\ msgs'[poller[w].id] = msgs[poller[w].id]
<1>0. msgs \in Pool
  BY DEF TypeOK, Pool
<1>1. Busy(w)
  BY DEF PollStep, PollExpired, PollNoChannel, PollResponseException, PollRequestException,
         PollInspect, PollRequeue, PollRequeueRefused, PollRequeueFails, PollNotify,
         PollNotifyFails, PollAck, PollCrash, Busy
<1>2. /\ poller[w].id \in MsgIds /\ msgs[poller[w].id].queue # NoQueue
      /\ ScanOf(w) \in Scans /\ msgs[poller[w].id].ttl \in Delays
  BY <1>1, HandlerFacts
<1>3. ASSUME poller' = [poller EXCEPT ![w] = Idle],
             \A j \in MsgIds \ {poller[w].id} : msgs'[j] = msgs[j]
      PROVE  poller'[w] = Idle /\ \A v \in Pollers \ {w} : Kept(v)
  BY <1>1, <1>3 DEF Kept, Exclusive, HandlersHold, TypeOK
<1>4. CASE \E r \in Reasons : GiveUp(w, r)
  BY <1>4, <1>1, <1>2, <1>3, <1>0, AckFacts DEF GiveUp
<1>5. CASE PollRequeueRefused(w) \/ PollCrash(w)
  BY <1>5, <1>1, <1>2, <1>3, <1>0, RequeueFacts DEF PollRequeueRefused, PollCrash
<1>6. CASE PollAck(w)
  BY <1>6, <1>1, <1>2, <1>3, <1>0, AckFacts DEF PollAck
<1>7. CASE PollRequestException(w) \/ PollInspect(w) \/ PollNotifyFails(w)
  BY <1>7, <1>1 DEF PollRequestException, PollInspect, PollNotifyFails, Kept, TypeOK
<1>8. CASE PollRequeue(w)
  <2>1. Msg(AwaitedScans, ScanOf(w), NextDelay(msgs[poller[w].id].ttl), "await") \in Message
    BY <1>2, MsgFacts, DelayFacts DEF Queues, Texts
  <2>2. \A j \in MsgIds : msgs[j].queue # NoQueue => msgs'[j] = msgs[j]
    BY <1>8, <2>1, <1>0, PublishKeeps DEF PollRequeue
  <2>. QED
    BY <1>8, <2>2, <1>1, <1>2, HandlerFacts DEF PollRequeue, Kept, TypeOK
<1>9. CASE PollNotify(w)
  <2>1. NextStep(ScanOf(w), poller[w].seen) \in Message
    BY <1>2, MsgFacts, DelayFacts DEF NextStep, Queues, Texts
  <2>2. \A j \in MsgIds : msgs[j].queue # NoQueue => msgs'[j] = msgs[j]
    BY <1>9, <2>1, <1>0, PublishKeeps DEF PollNotify
  <2>. QED
    BY <1>9, <2>2, <1>1, <1>2, HandlerFacts DEF PollNotify, Kept, TypeOK
<1>. QED
  BY <1>1, <1>4, <1>5, <1>6, <1>7, <1>8, <1>9
     DEF PollStep, PollExpired, PollNoChannel, PollResponseException, PollRequeueFails, Reasons

(* A delivery gives an idle handler a message that no other handler holds.  *)
LEMMA ReceiveStep ==
  ASSUME TypeOK, HandlersHold, NEW w \in Pollers, NEW i \in MsgIds, PollReceive(w, i)
  PROVE  /\ \A v \in Pollers \ {w} : Kept(v) /\ (Busy(v) => poller[v].id # i)
         /\ ~Busy(w) /\ poller'[w].pc = "received" /\ poller'[w].id = i
         /\ msgs'[i].queue \in PollQueues /\ msgs'[i].held
         /\ msgs'[i].queue = msgs[i].queue /\ msgs'[i].scan = msgs[i].scan /\ msgs'[i].text = msgs[i].text
         /\ \A j \in MsgIds \ {i} : msgs'[j] = msgs[j]
<1>0. msgs \in Pool
  BY DEF TypeOK, Pool
<1>1. msgs[i].queue \in PollQueues /\ msgs[i].queue # NoQueue /\ ~msgs[i].held
  BY QueueFacts DEF PollReceive, Ready, PollQueues
<1>2. /\ msgs'[i].held /\ msgs'[i].queue = msgs[i].queue /\ msgs'[i].scan = msgs[i].scan
      /\ msgs'[i].text = msgs[i].text
      /\ \A j \in MsgIds \ {i} : msgs'[j] = msgs[j]
  BY <1>0, <1>1, DeliverFacts DEF PollReceive
<1>3. \A v \in Pollers : Busy(v) => poller[v].id \in MsgIds \ {i}
  BY <1>1 DEF HandlersHold
<1>4. /\ \A v \in Pollers \ {w} : poller'[v] = poller[v]
      /\ poller'[w].pc = "received" /\ poller'[w].id = i /\ ~Busy(w)
  BY DEF PollReceive, TypeOK, Busy
<1>. QED
  BY <1>1, <1>2, <1>3, <1>4 DEF Kept
-----------------------------------------------------------------------------
(***************************************************************************)
(* The three kinds of steps.                                                *)
(***************************************************************************)
Quiet ==
  \/ \E s \in Scans : ScanStep(s) \/ StartStep(s)
  \/ \E i \in MsgIds : ExpireAwait(i) \/ ExpireTwice(i)

(* Every step is a quiet one, a handler's, or a delivery.                   *)
LEMMA StepKinds ==
  ASSUME Next
  PROVE  \/ Quiet
         \/ \E w \in Pollers : PollStep(w) \/ PollCrash(w)
         \/ \E w \in Pollers, i \in MsgIds : PollReceive(w, i)
BY DEF Next, Quiet

(* Busy handlers go on holding messages of their own.                       *)
LEMMA HoldStep ==
  ASSUME TypeOK, HandlersHold, Exclusive, Next
  PROVE  HandlersHold' /\ Exclusive'
<1>1. CASE Quiet
  BY <1>1, QuietStep DEF Quiet, HandlersHold, Exclusive, Kept, Busy
<1>2. ASSUME NEW w \in Pollers, PollStep(w) \/ PollCrash(w)
      PROVE  HandlersHold' /\ Exclusive'
  BY <1>2, HandlerStep DEF HandlersHold, Exclusive, Kept, Busy, Idle
<1>3. ASSUME NEW w \in Pollers, NEW i \in MsgIds, PollReceive(w, i)
      PROVE  HandlersHold' /\ Exclusive'
  <2>1. /\ \A v \in Pollers \ {w} : Kept(v) /\ (Busy(v) => poller[v].id # i)
        /\ poller'[w].id = i /\ msgs'[i].queue \in PollQueues /\ msgs'[i].held
    BY <1>3, ReceiveStep
  <2>. QED
    BY <2>1 DEF HandlersHold, Exclusive, Kept, Busy
<1>. QED
  BY <1>1, <1>2, <1>3, StepKinds

(* The outcome of a finished scan is final.                                 *)
LEMMA ScanStable ==
  ASSUME TypeOK, Next
  PROVE  \A s \in Scans : Finished(s) => scan'[s] = scan[s]
<1>1. ASSUME NEW t \in Scans, ScanStep(t)
      PROVE  \A s \in Scans : Finished(s) => scan'[s] = scan[s]
  BY <1>1 DEF ScanStep, Submit, FinishScan, DropByPasses, Finished, TypeOK
<1>2. CASE UNCHANGED scan
  BY <1>2
<1>3. ASSUME NEW t \in Scans, StartStep(t)
      PROVE  UNCHANGED scan
  BY <1>3 DEF StartStep, WorkflowStart, WorkflowStartLegacy, WorkflowStartFails, AnnotationStart
<1>4. ASSUME NEW i \in MsgIds, ExpireAwait(i) \/ ExpireTwice(i)
      PROVE  UNCHANGED scan
  BY <1>4 DEF ExpireAwait, ExpireTwice
<1>5. ASSUME NEW w \in Pollers, PollStep(w) \/ PollCrash(w)
      PROVE  UNCHANGED scan
  BY <1>5 DEF PollStep, PollExpired, PollNoChannel, PollResponseException, PollRequestException,
              PollInspect, PollRequeue, PollRequeueRefused, PollRequeueFails, PollNotify,
              PollNotifyFails, PollAck, PollCrash, GiveUp
<1>6. ASSUME NEW w \in Pollers, NEW i \in MsgIds, PollReceive(w, i)
      PROVE  UNCHANGED scan
  BY <1>6 DEF PollReceive
<1>. QED
  BY <1>1, <1>2, <1>3, <1>4, <1>5, <1>6 DEF Next

(* What a handler is about to report stays true of its scan.                *)
LEMMA SeenStep ==
  ASSUME TypeOK, HandlersHold, Exclusive, SeenFaithful, Next
  PROVE  SeenFaithful'
<1>1. ASSUME NEW v \in Pollers, Kept(v), poller'[v].pc = "notify"
      PROVE  poller'[v].seen = scan'[ScanOf(v)'] /\ Finished(ScanOf(v))'
  <2>1. poller[v].pc = "notify" /\ Busy(v) /\ ScanOf(v)' = ScanOf(v)
    BY <1>1 DEF Kept, Busy, ScanOf
  <2>2. ScanOf(v) \in Scans /\ Finished(ScanOf(v)) /\ poller[v].seen = scan[ScanOf(v)]
    BY <2>1, HandlerFacts DEF SeenFaithful
  <2>3. scan'[ScanOf(v)] = scan[ScanOf(v)]
    BY <2>2, ScanStable
  <2>. QED
    BY <1>1, <2>1, <2>2, <2>3 DEF Kept, Finished
<1>2. CASE Quiet
  BY <1>1, <1>2, QuietStep DEF Quiet, SeenFaithful
<1>3. ASSUME NEW w \in Pollers, PollStep(w) \/ PollCrash(w)
      PROVE  SeenFaithful'
  <2>1. CASE PollInspect(w)
    <3>1. Busy(w) /\ msgs' = msgs /\ scan' = scan /\ poller'[w].id = poller[w].id
      BY <2>1 DEF PollInspect, Busy, TypeOK
    <3>2. ScanOf(w)' = ScanOf(w)
      BY <3>1 DEF ScanOf
    <3>3. poller'[w].pc = "notify" => poller'[w].seen = scan[ScanOf(w)] /\ Finished(ScanOf(w))
      BY <2>1 DEF PollInspect, TypeOK
    <3>4. \A v \in Pollers \ {w} : Kept(v)
      BY <1>3, HandlerStep
    <3>. QED
      BY <1>1, <3>1, <3>2, <3>3, <3>4 DEF SeenFaithful, Finished
  <2>2. CASE ~PollInspect(w)
    <3>1. poller'[w].pc # "notify"
      BY <1>3, <2>2 DEF PollStep, PollExpired, PollNoChannel, PollResponseException,
         PollRequestException, PollRequeue, PollRequeueRefused, PollRequeueFails, PollNotify,
         PollNotifyFails, PollAck, PollCrash, GiveUp, Idle, TypeOK
    <3>. QED
      BY <1>1, <1>3, <3>1, HandlerStep DEF SeenFaithful
  <2>. QED
    BY <2>1, <2>2
<1>4. ASSUME NEW w \in Pollers, NEW i \in MsgIds, PollReceive(w, i)
      PROVE  SeenFaithful'
  <2>1. poller'[w].pc # "notify" /\ \A v \in Pollers \ {w} : Kept(v)
    BY <1>4, ReceiveStep
  <2>. QED
    BY <1>1, <2>1 DEF SeenFaithful
<1>. QED
  BY <1>2, <1>3, <1>4, StepKinds

-----------------------------------------------------------------------------
(***************************************************************************)
(* The texts of the messages.                                               *)
(***************************************************************************)
Honest(j) ==
  /\ msgs[j].text = "results" => scan[msgs[j].scan] = "successful"
  /\ msgs[j].text = "error" => scan[msgs[j].scan] = "failed"

(* A message that says what an earlier one said is as honest as that one.   *)
LEMMA SameText ==
  ASSUME TypeOK, Next, NEW i \in MsgIds, Honest(i), NEW j \in MsgIds,
         msgs'[j].text = msgs[i].text, msgs'[j].scan = msgs[i].scan
  PROVE  Honest(j)'
<1>1. CASE msgs[i] = NoMsg
  BY <1>1 DEF NoMsg, Honest
<1>2. CASE msgs[i] \in Message
  <2>1. msgs[i].scan \in Scans
    BY <1>2 DEF Message
  <2>. QED
    BY <2>1, ScanStable DEF Honest, Finished
<1>. QED
  BY <1>1, <1>2 DEF TypeOK

(* A step that publishes one message leaves the others honest.              *)
LEMMA PublishHonest ==
  ASSUME TypeOK, Next, \A i \in MsgIds : Honest(i),
         NEW m \in Message, Free(msgs) # {}, msgs' = Publish(msgs, m),
         m.text = "results" => scan'[m.scan] = "successful",
         m.text = "error" => scan'[m.scan] = "failed"
  PROVE  \A j \in MsgIds : Honest(j)'
<1>0. msgs \in Pool
  BY DEF TypeOK, Pool
<1>1. /\ msgs'[NewId(msgs)] = m
      /\ \A j \in MsgIds \ {NewId(msgs)} : msgs'[j] = msgs[j]
  BY <1>0, PublishFacts
<1>. QED
  BY <1>1, SameText DEF Honest

(* No step puts a wrong outcome into a message.                             *)
LEMMA FaithfulStep ==
  ASSUME TypeOK, HandlersHold, Exclusive, SeenFaithful, OutcomeFaithful, Next
  PROVE  OutcomeFaithful'
<1>. SUFFICES \A j \in MsgIds : Honest(j)'
  BY DEF OutcomeFaithful, Honest
<1>h. \A i \in MsgIds : Honest(i)
  BY DEF OutcomeFaithful, Honest
<1>0. msgs \in Pool
  BY DEF TypeOK, Pool
<1>u. CASE UNCHANGED msgs
  BY <1>h, <1>u, SameText
<1>1. ASSUME NEW s \in Scans, ScanStep(s) \/ StartStep(s)
      PROVE  \A j \in MsgIds : Honest(j)'
  <2>1. /\ Msg(AwaitedScans, s, Interval, "await") \in Message
        /\ Msg(AwaitedScans, s, Interval, "await").text = "await"
        /\ Msg(AwaitedScansLegacy, s, Interval, "await") \in Message
        /\ Msg(AwaitedScansLegacy, s, Interval, "await").text = "await"
        /\ Msg(PRAnnotating, s, 0, "started") \in Message
        /\ Msg(PRAnnotating, s, 0, "started").text = "started"
    BY MsgFacts, DelayFacts DEF Queues, Texts
  <2>2. \/ UNCHANGED msgs
        \/ \E m \in Message : /\ m.text \in {"await", "started"}
                              /\ Free(msgs) # {} /\ msgs' = Publish(msgs, m)
    BY <1>1, <2>1 DEF ScanStep, Submit, FinishScan, DropByPasses, StartStep, WorkflowStart,
       WorkflowStartLegacy, WorkflowStartFails, AnnotationStart
  <2>. QED
    BY <1>h, <1>u, <2>2, PublishHonest
<1>2. ASSUME NEW i \in MsgIds, ExpireAwait(i) \/ ExpireTwice(i)
      PROVE  \A j \in MsgIds : Honest(j)'
  <2>. DEFINE ns == DeadLetter(msgs, i, PollQueueOf(msgs[i].queue))
  <2>1. /\ msgs[i].queue # NoQueue /\ PollQueueOf(msgs[i].queue) \in Queues
    BY <1>2, QueueFacts DEF ExpireAwait, ExpireTwice, Awaiting, PollQueueOf, Queues
  <2>2. /\ ns \in Pool /\ ns[i].scan = msgs[i].scan /\ ns[i].text = msgs[i].text
        /\ ns[i].queue = PollQueueOf(msgs[i].queue)
        /\ \A j \in MsgIds \ {i} : ns[j] = msgs[j]
    BY <2>1, <1>0, DeadLetterFacts
  <2>3. CASE ExpireAwait(i)
    BY <2>3, <2>2, <1>h, SameText DEF ExpireAwait
  <2>4. CASE ExpireTwice(i)
    <3>. DEFINE m == [msgs[i] EXCEPT !.queue = PollQueueOf(msgs[i].queue)]
    <3>1. m \in Message /\ m.text = msgs[i].text /\ m.scan = msgs[i].scan
      BY <2>1, <1>0, UsedIsMessage DEF Message
    <3>2. Free(ns) # {}
      <4>1. PICK j \in MsgIds : msgs[j].queue = NoQueue
        BY <2>4 DEF ExpireTwice, Free
      <4>. QED
        BY <4>1, <2>1, <2>2 DEF Free
    <3>3. msgs' = Publish(ns, m)
      BY <2>4 DEF ExpireTwice
    <3>. HIDE DEF ns, m
    <3>4. \A j \in MsgIds : msgs'[j] = m \/ msgs'[j] = ns[j]
      BY <3>1, <3>2, <3>3, <2>2, PublishFacts
    <3>. QED
      BY <3>1, <3>4, <2>2, <1>h, SameText
  <2>. QED
    BY <1>2, <2>3, <2>4
<1>3. ASSUME NEW w \in Pollers, PollStep(w) \/ PollCrash(w)
      PROVE  \A j \in MsgIds : Honest(j)'
  <2>1. /\ Busy(w) /\ poller[w].id \in MsgIds /\ msgs[poller[w].id].queue # NoQueue
        /\ ScanOf(w) \in Scans /\ msgs[poller[w].id].ttl \in Delays
    BY <1>3, HandlerStep, HandlerFacts
  <2>2. CASE msgs' = Ack(msgs, poller[w].id)
    <3>0. PICK i \in MsgIds : i = poller[w].id
      BY <2>1
    <3>1. Honest(i)'
      BY <3>0, <2>2, <1>0, AckFacts DEF Honest, NoMsg
    <3>2. \A j \in MsgIds \ {i} : msgs'[j] = msgs[j]
      BY <3>0, <2>2, <1>0, AckFacts
    <3>3. \A j \in MsgIds \ {i} : Honest(j)'
      BY <3>2, <1>h, SameText
    <3>. QED
      BY <3>1, <3>3
  <2>3. CASE msgs' = Requeue(msgs, poller[w].id)
    <3>1. \A j \in MsgIds : msgs'[j].text = msgs[j].text /\ msgs'[j].scan = msgs[j].scan
      BY <2>1, <2>3, <1>0, RequeueFacts
    <3>. QED
      BY <3>1, <1>h, SameText
  <2>4. CASE PollRequeue(w)
    <3>. DEFINE m == Msg(AwaitedScans, ScanOf(w), NextDelay(msgs[poller[w].id].ttl), "await")
    <3>1. m \in Message /\ m.text = "await"
      BY <2>1, MsgFacts, DelayFacts DEF Queues, Texts
    <3>2. Free(msgs) # {} /\ msgs' = Publish(msgs, m)
      BY <2>4 DEF PollRequeue
    <3>. HIDE DEF m
    <3>. QED
      BY <3>1, <3>2, <1>h, PublishHonest
  <2>5. CASE PollNotify(w)
    <3>. DEFINE m == NextStep(ScanOf(w), poller[w].seen)
    <3>1. poller[w].seen = scan[ScanOf(w)] /\ Finished(ScanOf(w)) /\ scan' = scan
      BY <2>5 DEF PollNotify, SeenFaithful
    <3>2. /\ m \in Message /\ m.scan = ScanOf(w)
          /\ m.text = IF poller[w].seen = "successful" THEN "results" ELSE "error"
      BY <2>1, MsgFacts, DelayFacts DEF NextStep, Queues, Texts
    <3>3. Free(msgs) # {} /\ msgs' = Publish(msgs, m)
      BY <2>5 DEF PollNotify
    <3>. HIDE DEF m
    <3>4. /\ m.text = "results" => scan'[m.scan] = "successful"
          /\ m.text = "error" => scan'[m.scan] = "failed"
      BY <3>1, <3>2 DEF Finished
    <3>. QED
      BY <3>2, <3>3, <3>4, <1>h, PublishHonest
  <2>. QED
    BY <1>3, <1>u, <2>2, <2>3, <2>4, <2>5
       DEF PollStep, PollExpired, PollNoChannel, PollResponseException, PollRequestException,
           PollInspect, PollRequeueRefused, PollRequeueFails, PollNotifyFails, PollAck,
           PollCrash, GiveUp
<1>4. ASSUME NEW w \in Pollers, NEW i \in MsgIds, PollReceive(w, i)
      PROVE  \A j \in MsgIds : Honest(j)'
  <2>1. \A j \in MsgIds : msgs'[j].text = msgs[j].text /\ msgs'[j].scan = msgs[j].scan
    BY <1>4, ReceiveStep
  <2>. QED
    BY <2>1, <1>h, SameText
<1>. QED
  BY <1>1, <1>2, <1>3, <1>4 DEF Next

-----------------------------------------------------------------------------
(***************************************************************************)
(* Monitoring survives.                                                     *)
(***************************************************************************)

(* A message stays active if it stays a monitoring message of its scan and  *)
(* no handler comes to acknowledge it.                                      *)
LEMMA StaysActive ==
  ASSUME NEW s \in Scans, NEW i \in Active(s),
         msgs'[i].queue \in MonitorQueues, msgs'[i].scan = msgs[i].scan,
         \A v \in Pollers : poller'[v].pc = "ack" =>
           \/ poller'[v] = poller[v]
           \/ poller[v].id # i /\ poller'[v].id = poller[v].id
  PROVE  Active(s)' # {}
<1>1. i \in MsgIds /\ msgs[i].scan = s /\ \A v \in Pollers : poller[v].pc = "ack" => poller[v].id # i
  BY DEF Active, Copies, Spent
<1>2. \A v \in Pollers : poller'[v].pc = "ack" => poller'[v].id # i
  BY <1>1
<1>. QED
  BY <1>1, <1>2 DEF Active, Copies, Spent

(* A published await message is active: no handler holds an unused identity.*)
LEMMA AwaitIsActive ==
  ASSUME TypeOK, HandlersHold, NEW s \in Scans, NEW m \in Message,
         m.queue \in MonitorQueues, m.scan = s,
         Free(msgs) # {}, msgs' = Publish(msgs, m),
         \A v \in Pollers : Busy(v)' => Busy(v) /\ poller'[v].id = poller[v].id
  PROVE  Active(s)' # {}
<1>1. PICK n \in MsgIds : n = NewId(msgs) /\ msgs[n].queue = NoQueue /\ msgs'[n] = m
  BY PublishFacts DEF TypeOK, Pool
<1>2. \A v \in Pollers : Busy(v) => poller[v].id # n
  BY <1>1, QueueFacts DEF HandlersHold
<1>3. \A v \in Pollers : poller'[v].pc = "ack" => poller'[v].id # n
  BY <1>2 DEF Busy
<1>. QED
  BY <1>1, <1>3 DEF Active, Copies, Spent

(* Publishing leaves every active message as it was.                        *)
LEMMA PublishActive ==
  ASSUME TypeOK, NEW s \in Scans, NEW i \in Active(s), NEW m \in Message,
         Free(msgs) # {}, msgs' = Publish(msgs, m)
  PROVE  i \in MsgIds /\ msgs'[i] = msgs[i] /\ msgs'[i].queue \in MonitorQueues
<1>1. i \in MsgIds /\ msgs[i].queue \in MonitorQueues /\ msgs[i].queue # NoQueue
  BY QueueFacts DEF Active, Copies
<1>. QED
  BY <1>1, PublishKeeps DEF TypeOK, Pool

Monitored(s) == start[s] \in {"awaited", "done"} /\ notified[s] = 0 /\ stopped[s] = {}

(* No step leaves a scan silently unmonitored.                              *)
LEMMA SurvivesStep ==
  ASSUME TypeOK, HandlersHold, Exclusive, MonitoringSurvives, Next
  PROVE  MonitoringSurvives'
<1>. SUFFICES ASSUME NEW s \in Scans, Monitored(s)'
              PROVE  Active(s)' # {}
  BY DEF MonitoringSurvives, Monitored
<1>m. Monitored(s) => \E i \in MsgIds : i \in Active(s)
  BY DEF MonitoringSurvives, Monitored, Active, Copies
<1>0. msgs \in Pool
  BY DEF TypeOK, Pool
<1>a. \A i \in Active(s) : i \in MsgIds /\ msgs[i].queue \in MonitorQueues /\ msgs[i].scan = s
                           /\ msgs[i].queue # NoQueue
  BY QueueFacts DEF Active, Copies
<1>1. ASSUME NEW t \in Scans, ScanStep(t)
      PROVE  Active(s)' # {}
  <2>1. Monitored(s) /\ msgs' = msgs /\ poller' = poller
    BY <1>1 DEF ScanStep, Submit, FinishScan, DropByPasses, Monitored, TypeOK
  <2>. QED
    BY <2>1, <1>m, <1>a, StaysActive
<1>2. ASSUME NEW t \in Scans, StartStep(t)
      PROVE  Active(s)' # {}
  <2>0. poller' = poller
    BY <1>2 DEF StartStep, WorkflowStart, WorkflowStartLegacy, WorkflowStartFails, AnnotationStart
  <2>1. ASSUME NEW m \in Message, Free(msgs) # {}, msgs' = Publish(msgs, m), Monitored(s)
        PROVE  Active(s)' # {}
    BY <2>0, <2>1, <1>m, <1>a, PublishActive, StaysActive
  <2>2. ASSUME NEW q \in {AwaitedScans, AwaitedScansLegacy}, Free(msgs) # {},
               msgs' = Publish(msgs, Msg(q, t, Interval, "await")),
               start' = [start EXCEPT ![t] = AfterAwait(t)], UNCHANGED <<notified, stopped>>
        PROVE  Active(s)' # {}
    <3>. DEFINE m == Msg(q, t, Interval, "await")
    <3>1. m \in Message /\ m.queue \in MonitorQueues /\ m.scan = t
      BY MsgFacts, DelayFacts DEF Queues, Texts, MonitorQueues
    <3>2. msgs' = Publish(msgs, m)
      BY <2>2
    <3>. HIDE DEF m
    <3>3. CASE s = t
      BY <2>0, <2>2, <3>1, <3>2, <3>3, AwaitIsActive DEF Busy
    <3>4. CASE s # t
      <4>1. Monitored(s)
        BY <2>2, <3>4 DEF Monitored, TypeOK
      <4>. QED
        BY <4>1, <2>1, <2>2, <3>1, <3>2
    <3>. QED
      BY <3>3, <3>4
  <2>3. CASE WorkflowStart(t) \/ WorkflowStartLegacy(t)
    BY <2>3, <2>2 DEF WorkflowStart, WorkflowStartLegacy
  <2>4. CASE WorkflowStartFails(t)
    <3>1. Monitored(s) /\ msgs' = msgs
      BY <2>4 DEF WorkflowStartFails, Monitored, TypeOK
    <3>. QED
      BY <3>1, <2>0, <1>m, <1>a, StaysActive
  <2>5. CASE AnnotationStart(t)
    <3>1. Monitored(s)
      BY <2>5 DEF AnnotationStart, Monitored, TypeOK
    <3>2. CASE UNCHANGED msgs
      BY <3>1, <3>2, <2>0, <1>m, <1>a, StaysActive
    <3>3. Msg(PRAnnotating, t, 0, "started") \in Message
      BY MsgFacts, DelayFacts DEF Queues, Texts
    <3>. QED
      BY <3>1, <3>2, <3>3, <2>1, <2>5 DEF AnnotationStart
  <2>. QED
    BY <1>2, <2>3, <2>4, <2>5 DEF StartStep
<1>3. ASSUME NEW k \in MsgIds, ExpireAwait(k) \/ ExpireTwice(k)
      PROVE  Active(s)' # {}
  <2>. DEFINE ns == DeadLetter(msgs, k, PollQueueOf(msgs[k].queue))
  <2>0. Monitored(s) /\ poller' = poller
    BY <1>3 DEF ExpireAwait, ExpireTwice, Monitored
  <2>1. /\ msgs[k].queue # NoQueue /\ PollQueueOf(msgs[k].queue) \in Queues
        /\ PollQueueOf(msgs[k].queue) \in MonitorQueues
    BY <1>3, QueueFacts DEF ExpireAwait, ExpireTwice, Awaiting, PollQueueOf, Queues, MonitorQueues
  <2>2. /\ ns \in Pool /\ ns[k].scan = msgs[k].scan /\ ns[k].queue = PollQueueOf(msgs[k].queue)
        /\ \A j \in MsgIds \ {k} : ns[j] = msgs[j]
    BY <2>1, <1>0, DeadLetterFacts
  <2>3. \A j \in MsgIds : ns[j].queue # NoQueue => msgs'[j] = ns[j]
    <3>1. CASE ExpireAwait(k)
      BY <3>1 DEF ExpireAwait
    <3>2. CASE ExpireTwice(k)
      <4>1. [msgs[k] EXCEPT !.queue = PollQueueOf(msgs[k].queue)] \in Message
        BY <2>1, <1>0, UsedIsMessage DEF Message
      <4>2. PICK j \in MsgIds : msgs[j].queue = NoQueue
        BY <3>2 DEF ExpireTwice, Free
      <4>3. Free(ns) # {}
        BY <4>2, <2>1, <2>2 DEF Free
      <4>. QED
        BY <3>2, <4>1, <4>3, <2>2, PublishFacts DEF ExpireTwice
    <3>. QED
      BY <1>3, <3>1, <3>2
  <2>. HIDE DEF ns
  <2>4. PICK i \in Active(s) : i \in MsgIds
    BY <2>0, <1>m
  <2>5. ns[i].queue \in MonitorQueues /\ ns[i].scan = msgs[i].scan /\ ns[i].queue # NoQueue
    BY <2>4, <2>1, <2>2, <1>a, QueueFacts
  <2>. QED
    BY <2>0, <2>3, <2>4, <2>5, StaysActive
<1>4. ASSUME NEW w \in Pollers, PollStep(w) \/ PollCrash(w)
      PROVE  Active(s)' # {}
  <2>1. /\ Busy(w) /\ poller[w].id \in MsgIds /\ msgs[poller[w].id].queue # NoQueue
        /\ ScanOf(w) \in Scans /\ msgs[poller[w].id].ttl \in Delays
    BY <1>4, HandlerStep, HandlerFacts
  <2>2. \A v \in Pollers \ {w} : poller'[v] = poller[v]
    BY <1>4, HandlerStep DEF Kept
  <2>3. ASSUME ScanOf(w) # s, Monitored(s), msgs' = Ack(msgs, poller[w].id), poller'[w] = Idle
        PROVE  Active(s)' # {}
    <3>1. PICK i \in Active(s) : i \in MsgIds
      BY <2>3, <1>m
    <3>2. msgs'[i] = msgs[i]
      BY <3>1, <2>1, <2>3, <1>a, <1>0, AckFacts DEF ScanOf
    <3>. QED
      BY <3>1, <3>2, <1>a, <2>2, <2>3, StaysActive DEF Idle
  <2>4. CASE \E r \in Reasons : GiveUp(w, r)
    <3>0. stopped'[ScanOf(w)] # {} /\ \A t \in Scans \ {ScanOf(w)} : stopped'[t] = stopped[t]
      BY <2>4, <2>1 DEF GiveUp, TypeOK
    <3>1. ScanOf(w) # s /\ Monitored(s)
      BY <2>4, <3>0 DEF GiveUp, Monitored
    <3>2. msgs' = Ack(msgs, poller[w].id) /\ poller'[w] = Idle
      BY <2>4 DEF GiveUp, TypeOK
    <3>. QED
      BY <3>1, <3>2, <2>3
  <2>5. CASE PollRequestException(w) \/ PollInspect(w)
    <3>1. Monitored(s) /\ msgs' = msgs /\ poller'[w].pc # "ack"
      BY <2>5 DEF PollRequestException, PollInspect, Monitored, TypeOK
    <3>. QED
      BY <3>1, <2>2, <1>m, <1>a, StaysActive
  <2>6. CASE PollRequeueRefused(w) \/ PollCrash(w)
    <3>1. Monitored(s) /\ msgs' = Requeue(msgs, poller[w].id) /\ poller'[w].pc # "ack"
      BY <2>6 DEF PollRequeueRefused, PollCrash, Monitored, TypeOK, Idle
    <3>2. \A j \in MsgIds : msgs'[j].queue = msgs[j].queue /\ msgs'[j].scan = msgs[j].scan
      BY <3>1, <2>1, <1>0, RequeueFacts
    <3>. QED
      BY <3>1, <3>2, <2>2, <1>m, <1>a, StaysActive
  <2>7. CASE PollRequeue(w)
    <3>. DEFINE m == Msg(AwaitedScans, ScanOf(w), NextDelay(msgs[poller[w].id].ttl), "await")
    <3>1. m \in Message /\ m.queue \in MonitorQueues /\ m.scan = ScanOf(w)
      BY <2>1, MsgFacts, DelayFacts DEF Queues, Texts, MonitorQueues
    <3>2. /\ Free(msgs) # {} /\ msgs' = Publish(msgs, m) /\ poller'[w].id = poller[w].id
          /\ Monitored(s)
      BY <2>7 DEF PollRequeue, TypeOK, Monitored
    <3>. HIDE DEF m
    <3>3. CASE s = ScanOf(w)
      BY <3>1, <3>2, <3>3, <2>1, <2>2, AwaitIsActive DEF Busy
    <3>4. CASE s # ScanOf(w)
      <4>1. PICK i \in Active(s) : i \in MsgIds
        BY <3>2, <1>m
      <4>2. msgs'[i] = msgs[i] /\ i # poller[w].id
        BY <4>1, <3>1, <3>2, <3>4, <1>a, PublishActive DEF ScanOf
      <4>. QED
        BY <4>1, <4>2, <3>2, <1>a, <2>2, StaysActive
    <3>. QED
      BY <3>3, <3>4
  <2>8. CASE PollNotify(w) \/ PollNotifyFails(w)
    <3>a. /\ notified'[ScanOf(w)] # 0 \/ stopped'[ScanOf(w)] # {}
          /\ \A t \in Scans \ {ScanOf(w)} : stopped'[t] = stopped[t] /\ notified'[t] = notified[t]
          /\ start' = start /\ poller'[w].id = poller[w].id
      <4>1. CASE PollNotify(w)
        BY <4>1, <2>1 DEF PollNotify, TypeOK
      <4>2. CASE PollNotifyFails(w)
        BY <4>2, <2>1 DEF PollNotifyFails, TypeOK
      <4>. QED
        BY <2>8, <4>1, <4>2
    <3>1. Monitored(s) /\ s # ScanOf(w) /\ poller'[w].id = poller[w].id
      BY <3>a DEF Monitored
    <3>2. NextStep(ScanOf(w), poller[w].seen) \in Message
      BY <2>1, MsgFacts, DelayFacts DEF NextStep, Queues, Texts
    <3>3. PICK i \in Active(s) : i \in MsgIds
      BY <3>1, <1>m
    <3>4. msgs'[i] = msgs[i] /\ i # poller[w].id
      BY <2>8, <3>1, <3>2, <3>3, <1>a, PublishActive DEF ScanOf, PollNotify, PollNotifyFails
    <3>. QED
      BY <3>1, <3>3, <3>4, <1>a, <2>2, StaysActive
  <2>9. CASE PollAck(w)
    <3>1. /\ Monitored(s) /\ msgs' = Ack(msgs, poller[w].id) /\ poller'[w] = Idle
          /\ poller[w].pc = "ack"
      BY <2>9 DEF PollAck, Monitored, TypeOK
    <3>2. PICK i \in Active(s) : i \in MsgIds
      BY <3>1, <1>m
    <3>3. i # poller[w].id
      BY <3>1, <3>2 DEF Active, Spent
    <3>4. msgs'[i] = msgs[i]
      BY <3>1, <3>2, <3>3, <2>1, <1>0, AckFacts
    <3>. QED
      BY <3>1, <3>2, <3>4, <1>a, <2>2, StaysActive DEF Idle
  <2>. QED
    BY <1>4, <2>4, <2>5, <2>6, <2>7, <2>8, <2>9
       DEF PollStep, PollExpired, PollNoChannel, PollResponseException, PollRequeueFails, Reasons
<1>5. ASSUME NEW w \in Pollers, NEW k \in MsgIds, PollReceive(w, k)
      PROVE  Active(s)' # {}
  <2>1. Monitored(s)
    BY <1>5 DEF PollReceive, Monitored
  <2>2. /\ \A j \in MsgIds : msgs'[j].queue = msgs[j].queue /\ msgs'[j].scan = msgs[j].scan
        /\ poller'[w].pc # "ack" /\ \A v \in Pollers \ {w} : poller'[v] = poller[v]
    BY <1>5, ReceiveStep DEF Kept
  <2>. QED
    BY <2>1, <2>2, <1>m, <1>a, StaysActive
<1>. QED
  BY <1>1, <1>2, <1>3, <1>4, <1>5 DEF Next
-----------------------------------------------------------------------------
(***************************************************************************)
(* The monitoring messages of a scan after each kind of change of the pool. *)
(***************************************************************************)

(* A published message is one more monitoring message of its scan, at an    *)
(* identity no handler holds, if it goes to a monitoring queue.             *)
LEMMA CopiesPublish ==
  ASSUME TypeOK, HandlersHold, NEW m \in Message, Free(msgs) # {}, msgs' = Publish(msgs, m)
  PROVE  \E n \in MsgIds :
           /\ \A v \in Pollers : Busy(v) => poller[v].id # n
           /\ \A s \in Scans :
                /\ n \notin Copies(s)
                /\ m.queue \in MonitorQueues /\ m.scan = s => Copies(s)' = Copies(s) \cup {n}
                /\ m.queue \notin MonitorQueues \/ m.scan # s => Copies(s)' = Copies(s)
<1>1. msgs \in Pool
  BY DEF TypeOK, Pool
<1>2. PICK n \in MsgIds : /\ msgs[n].queue = NoQueue /\ msgs'[n] = m
                         /\ \A j \in MsgIds \ {n} : msgs'[j] = msgs[j]
  BY <1>1, PublishFacts
<1>3. \A v \in Pollers : Busy(v) => poller[v].id # n
  BY <1>2, QueueFacts DEF HandlersHold
<1>4. \A s \in Scans : n \notin Copies(s)
  BY <1>2, QueueFacts DEF Copies
<1>5. \A s \in Scans, j \in MsgIds \ {n} : j \in Copies(s)' <=> j \in Copies(s)
  BY <1>2 DEF Copies
<1>6. \A s \in Scans : n \in Copies(s)' <=> m.queue \in MonitorQueues /\ m.scan = s
  BY <1>2 DEF Copies
<1>7. \A s \in Scans : Copies(s) \subseteq MsgIds /\ Copies(s)' \subseteq MsgIds
  BY DEF Copies
<1>. QED
  BY <1>3, <1>4, <1>5, <1>6, <1>7

(* An acknowledged message is one less.                                     *)
LEMMA CopiesAck ==
  ASSUME TypeOK, NEW i \in MsgIds, msgs' = Ack(msgs, i), NEW s \in Scans
  PROVE  Copies(s)' = Copies(s) \ {i}
<1>1. msgs \in Pool
  BY DEF TypeOK, Pool
<1>2. msgs'[i] = NoMsg /\ \A j \in MsgIds \ {i} : msgs'[j] = msgs[j]
  BY <1>1, AckFacts
<1>3. msgs'[i].queue \notin MonitorQueues
  BY <1>2, QueueFacts DEF NoMsg
<1>. QED
  BY <1>2, <1>3 DEF Copies

(* Messages that keep their scans and stay in or out of the monitoring      *)
(* queues.                                                                  *)
LEMMA CopiesSame ==
  ASSUME \A j \in MsgIds : /\ msgs'[j].queue \in MonitorQueues <=> msgs[j].queue \in MonitorQueues
                           /\ msgs'[j].scan = msgs[j].scan,
         NEW s \in Scans
  PROVE  Copies(s)' = Copies(s)
BY DEF Copies

(* An expired await message stays a monitoring message of its scan; a       *)
(* duplicate of it is one more.                                             *)
LEMMA CopiesExpire ==
  ASSUME TypeOK, HandlersHold, NEW k \in MsgIds, ExpireAwait(k) \/ ExpireTwice(k)
  PROVE  \/ ExpireAwait(k) /\ \A s \in Scans : Copies(s)' = Copies(s)
         \/ /\ ExpireTwice(k) /\ msgs[k].scan \in Scans
            /\ \E n \in MsgIds :
                 /\ \A v \in Pollers : Busy(v) => poller[v].id # n
                 /\ \A s \in Scans :
                      /\ s = msgs[k].scan => k \in Copies(s) /\ Copies(s)' = Copies(s) \cup {n}
                      /\ s # msgs[k].scan => Copies(s)' = Copies(s)
<1>. DEFINE q == PollQueueOf(msgs[k].queue)
            ns == DeadLetter(msgs, k, q)
            m == [msgs[k] EXCEPT !.queue = q]
<1>0. msgs \in Pool
  BY DEF TypeOK, Pool
<1>1. /\ msgs[k].queue # NoQueue /\ msgs[k].queue \in MonitorQueues
      /\ q \in Queues /\ q \in MonitorQueues /\ q # NoQueue
  BY QueueFacts DEF ExpireAwait, ExpireTwice, Awaiting, PollQueueOf, Queues, MonitorQueues
<1>2. msgs[k] \in Message /\ msgs[k].scan \in Scans /\ k \in Copies(msgs[k].scan)
  BY <1>0, <1>1, UsedIsMessage DEF Message, Copies
<1>3. m \in Message /\ m.queue = q /\ m.scan = msgs[k].scan
  BY <1>1, <1>2 DEF Message
<1>4. /\ ns \in Pool /\ ns[k].queue = q /\ ns[k].scan = msgs[k].scan
      /\ \A j \in MsgIds \ {k} : ns[j] = msgs[j]
  BY <1>0, <1>1, DeadLetterFacts
<1>5. ExpireAwait(k) => msgs' = ns
  BY DEF ExpireAwait
<1>6. ExpireTwice(k) => msgs' = Publish(ns, m) /\ Free(msgs) # {}
  BY DEF ExpireTwice
<1>. HIDE DEF q, ns, m
<1>7. CASE ExpireAwait(k)
  <2>1. \A j \in MsgIds : /\ msgs'[j].queue \in MonitorQueues <=> msgs[j].queue \in MonitorQueues
                          /\ msgs'[j].scan = msgs[j].scan
    BY <1>7, <1>5, <1>4, <1>1
  <2>. QED
    BY <1>7, <2>1, CopiesSame
<1>8. CASE ExpireTwice(k)
  <2>1. Free(ns) # {}
    <3>1. PICK j \in MsgIds : msgs[j].queue = NoQueue
      BY <1>8, <1>6 DEF Free
    <3>. QED
      BY <3>1, <1>1, <1>4 DEF Free
  <2>2. PICK n \in MsgIds : /\ ns[n].queue = NoQueue /\ msgs'[n] = m
                           /\ \A j \in MsgIds \ {n} : msgs'[j] = ns[j]
    BY <1>8, <1>6, <1>3, <1>4, <2>1, PublishFacts
  <2>3. n # k /\ msgs[n].queue = NoQueue
    BY <2>2, <1>4, <1>1
  <2>4. \A v \in Pollers : Busy(v) => poller[v].id # n
    BY <2>3, QueueFacts DEF HandlersHold
  <2>5. \A s \in Scans, j \in MsgIds \ {n} : j \in Copies(s)' <=> j \in Copies(s)
    BY <2>2, <2>3, <1>1, <1>4 DEF Copies
  <2>6. \A s \in Scans : /\ n \in Copies(s)' <=> s = msgs[k].scan
                         /\ n \notin Copies(s)
    BY <2>2, <2>3, <1>1, <1>3, QueueFacts DEF Copies
  <2>7. \A s \in Scans : Copies(s) \subseteq MsgIds /\ Copies(s)' \subseteq MsgIds
    BY DEF Copies
  <2>8. \A s \in Scans : s # msgs[k].scan => Copies(s)' = Copies(s)
    BY <2>5, <2>6, <2>7
  <2>9. \A s \in Scans : s = msgs[k].scan => k \in Copies(s) /\ Copies(s)' = Copies(s) \cup {n}
    BY <1>2, <2>5, <2>6, <2>7
  <2>. QED
    BY <1>8, <1>2, <2>4, <2>8, <2>9
<1>. QED
  BY <1>7, <1>8
-----------------------------------------------------------------------------
(***************************************************************************)
(* What each step does to the monitoring messages of the scans.             *)
(***************************************************************************)

(* The message a busy handler works on is a monitoring message of its scan  *)
(* only.                                                                    *)
LEMMA HandlerCopy ==
  ASSUME TypeOK, HandlersHold, NEW w \in Pollers, Busy(w), NEW s \in Scans
  PROVE  poller[w].id \in Copies(s) <=> s = ScanOf(w)
<1>1. poller[w].id \in MsgIds /\ msgs[poller[w].id].queue \in MonitorQueues
  BY QueueFacts DEF HandlersHold
<1>. QED
  BY <1>1 DEF Copies, ScanOf

(* The queues of the next steps are not monitoring queues.                  *)
LEMMA StepQueues ==
  /\ PRFeedback \in Queues /\ PRAnnotating \in Queues /\ SarifGen \in Queues
  /\ {PRFeedback, PRAnnotating, SarifGen} \cap MonitorQueues = {}
BY DEF Queues, MonitorQueues, AwaitedScans, AwaitedScansLegacy, PollingScans,
       PollingScansLegacy, PRFeedback, PRAnnotating, SarifGen

(* Scan t has message n more.                                               *)
Grows(t, n) == \A s \in Scans : Copies(s)' = IF s = t THEN Copies(s) \cup {n} ELSE Copies(s)

(* What the start of a workflow does to the monitoring messages: one more   *)
(* for a scan whose await message is published.                             *)
LEMMA StartCopies ==
  ASSUME TypeOK, HandlersHold, NEW t \in Scans, StartStep(t)
  PROVE  \/ /\ ~Unstarted(t)' /\ Unstarted(t) /\ UNCHANGED stopped
            /\ \E n \in MsgIds : Grows(t, n)
         \/ WorkflowStartFails(t) /\ \A s \in Scans : Copies(s)' = Copies(s)
         \/ AnnotationStart(t) /\ \A s \in Scans : Copies(s)' = Copies(s)
<1>1. ASSUME NEW q \in {AwaitedScans, AwaitedScansLegacy}, Free(msgs) # {},
             msgs' = Publish(msgs, Msg(q, t, Interval, "await"))
      PROVE  \E n \in MsgIds : Grows(t, n)
  <2>. DEFINE m == Msg(q, t, Interval, "await")
  <2>1. m \in Message /\ m.queue \in MonitorQueues /\ m.scan = t
    BY MsgFacts, DelayFacts DEF Queues, Texts, MonitorQueues
  <2>2. msgs' = Publish(msgs, m)
    BY <1>1
  <2>. HIDE DEF m
  <2>. QED
    BY <1>1, <2>1, <2>2, CopiesPublish DEF Grows
<1>2. CASE WorkflowStart(t) \/ WorkflowStartLegacy(t)
  <2>1. ~Unstarted(t)' /\ Unstarted(t) /\ UNCHANGED stopped
    BY <1>2 DEF WorkflowStart, WorkflowStartLegacy, Unstarted, AfterAwait, TypeOK
  <2>. QED
    BY <1>1, <1>2, <2>1 DEF WorkflowStart, WorkflowStartLegacy
<1>3. CASE UNCHANGED msgs
  <2>1. \A s \in Scans : Copies(s)' = Copies(s)
    BY <1>3, CopiesSame
  <2>. QED
    BY <1>2, <2>1 DEF StartStep
<1>4. CASE AnnotationStart(t) /\ ~UNCHANGED msgs
  <2>. DEFINE m == Msg(PRAnnotating, t, 0, "started")
  <2>1. m \in Message /\ m.queue \notin MonitorQueues
    BY MsgFacts, DelayFacts, StepQueues DEF Texts
  <2>2. Free(msgs) # {} /\ msgs' = Publish(msgs, m)
    BY <1>4 DEF AnnotationStart
  <2>. HIDE DEF m
  <2>. QED
    BY <1>4, <2>1, <2>2, CopiesPublish
<1>. QED
  BY <1>2, <1>3, <1>4 DEF StartStep, WorkflowStartFails

(* What a handler's step does to them.                                      *)
Ends(w) == poller'[w] = Idle

HandlerAcks(w, i) == /\ Ends(w) /\ UNCHANGED <<notified, disturb>>
                     /\ \A s \in Scans : Copies(s)' = Copies(s) \ {i}

HandlerKeeps(w) == /\ poller[w].pc # "ack" /\ UNCHANGED <<notified, disturb>>
                   /\ \A s \in Scans : Copies(s)' = Copies(s)

HandlerCrashes(w, t) == /\ Ends(w) /\ PollCrash(w) /\ disturb'[t] = disturb[t] + 1
                        /\ \A s \in Scans \ {t} : disturb'[s] = disturb[s]
                        /\ UNCHANGED <<notified, stopped>>
                        /\ \A s \in Scans : Copies(s)' = Copies(s)

HandlerRequeues(w, t) ==
  /\ PollRequeue(w) /\ poller'[w].pc = "ack" /\ UNCHANGED <<notified, disturb, stopped>>
  /\ \E n \in MsgIds : Grows(t, n)

HandlerNotifies(w, t) ==
  /\ PollNotify(w) /\ poller'[w].pc = "ack" /\ UNCHANGED <<disturb, stopped>>
  /\ notified'[t] = notified[t] + 1 /\ \A s \in Scans \ {t} : notified'[s] = notified[s]
  /\ \A s \in Scans : Copies(s)' = Copies(s)

(* Every step of a poll handler is one of these.                            *)
LEMMA HandlerCopies ==
  ASSUME TypeOK, HandlersHold, Exclusive, NEW w \in Pollers, PollStep(w) \/ PollCrash(w),
         NEW i, i = poller[w].id, NEW t, t = ScanOf(w)
  PROVE  /\ Busy(w) /\ i \in MsgIds /\ t \in Scans /\ UNCHANGED <<scan, dropBy, start>>
         /\ \/ HandlerAcks(w, i) \/ HandlerKeeps(w) \/ HandlerCrashes(w, t)
            \/ HandlerRequeues(w, t) \/ HandlerNotifies(w, t)
<1>0. msgs \in Pool
  BY DEF TypeOK, Pool
<1>1. /\ Busy(w) /\ i \in MsgIds /\ msgs[i].queue # NoQueue /\ t \in Scans
      /\ msgs[i].ttl \in Delays
  BY HandlerStep, HandlerFacts
<1>2. UNCHANGED <<scan, dropBy, start>>
  BY DEF PollStep, PollExpired, PollNoChannel, PollResponseException, PollRequestException,
         PollInspect, PollRequeue, PollRequeueRefused, PollRequeueFails, PollNotify,
         PollNotifyFails, PollAck, PollCrash, GiveUp
<1>3. CASE PollExpired(w) \/ PollNoChannel(w) \/ PollResponseException(w) \/ PollRequeueFails(w) \/ PollAck(w)
  <2>1. msgs' = Ack(msgs, i) /\ Ends(w) /\ UNCHANGED <<notified, disturb>>
    BY <1>3 DEF PollExpired, PollNoChannel, PollResponseException, PollRequeueFails, PollAck,
                GiveUp, Ends, TypeOK
  <2>. QED
    BY <1>1, <1>2, <2>1, CopiesAck DEF HandlerAcks
<1>4. CASE PollRequestException(w) \/ PollInspect(w) \/ PollNotifyFails(w)
  <2>1. msgs' = msgs /\ poller[w].pc # "ack" /\ UNCHANGED <<notified, disturb>>
    BY <1>4 DEF PollRequestException, PollInspect, PollNotifyFails
  <2>. QED
    BY <1>1, <1>2, <2>1, CopiesSame DEF HandlerKeeps
<1>5. ASSUME msgs' = Requeue(msgs, i)
      PROVE  \A s \in Scans : Copies(s)' = Copies(s)
  <2>1. \A j \in MsgIds : msgs'[j].queue = msgs[j].queue /\ msgs'[j].scan = msgs[j].scan
    BY <1>0, <1>1, <1>5, RequeueFacts
  <2>. QED
    BY <2>1, CopiesSame
<1>6. CASE PollRequeueRefused(w)
  <2>1. msgs' = Requeue(msgs, i) /\ poller[w].pc # "ack" /\ UNCHANGED <<notified, disturb>>
    BY <1>6 DEF PollRequeueRefused
  <2>. QED
    BY <1>1, <1>2, <1>5, <2>1 DEF HandlerKeeps
<1>7. CASE PollCrash(w)
  <2>1. /\ msgs' = Requeue(msgs, i) /\ Ends(w) /\ UNCHANGED <<notified, stopped>>
        /\ disturb'[t] = disturb[t] + 1 /\ \A s \in Scans \ {t} : disturb'[s] = disturb[s]
    BY <1>7, <1>1 DEF PollCrash, Ends, TypeOK
  <2>. QED
    BY <1>1, <1>2, <1>5, <1>7, <2>1 DEF HandlerCrashes
<1>8. CASE PollRequeue(w)
  <2>. DEFINE m == Msg(AwaitedScans, t, NextDelay(msgs[i].ttl), "await")
  <2>1. m \in Message /\ m.queue \in MonitorQueues /\ m.scan = t
    BY <1>1, MsgFacts, DelayFacts DEF Queues, Texts, MonitorQueues
  <2>2. /\ Free(msgs) # {} /\ msgs' = Publish(msgs, m) /\ poller'[w].pc = "ack"
        /\ UNCHANGED <<notified, disturb, stopped>>
    BY <1>8 DEF PollRequeue, TypeOK
  <2>. HIDE DEF m
  <2>3. \E n \in MsgIds : Grows(t, n)
    BY <2>1, <2>2, CopiesPublish DEF Grows
  <2>. QED
    BY <1>1, <1>2, <1>8, <2>2, <2>3 DEF HandlerRequeues
<1>9. CASE PollNotify(w)
  <2>. DEFINE m == NextStep(t, poller[w].seen)
  <2>1. m \in Message /\ m.queue \notin MonitorQueues
    BY <1>1, MsgFacts, DelayFacts, StepQueues DEF NextStep, Texts
  <2>2. /\ Free(msgs) # {} /\ msgs' = Publish(msgs, m) /\ poller'[w].pc = "ack"
        /\ UNCHANGED <<disturb, stopped>>
        /\ notified'[t] = notified[t] + 1 /\ \A s \in Scans \ {t} : notified'[s] = notified[s]
    BY <1>9, <1>1 DEF PollNotify, TypeOK
  <2>. HIDE DEF m
  <2>3. \A s \in Scans : Copies(s)' = Copies(s)
    BY <2>1, <2>2, CopiesPublish
  <2>. QED
    BY <1>1, <1>2, <1>9, <2>2, <2>3 DEF HandlerNotifies
<1>. QED
  BY <1>1, <1>2, <1>3, <1>4, <1>6, <1>7, <1>8, <1>9 DEF PollStep

(* A delivery leaves them alone.                                            *)
LEMMA ReceiveCopies ==
  ASSUME TypeOK, HandlersHold, NEW w \in Pollers, NEW k \in MsgIds, PollReceive(w, k)
  PROVE  /\ \A s \in Scans : Copies(s)' = Copies(s)
         /\ UNCHANGED <<scan, dropBy, start, notified, stopped, disturb>>
<1>1. \A j \in MsgIds : msgs'[j].queue = msgs[j].queue /\ msgs'[j].scan = msgs[j].scan
  BY ReceiveStep
<1>2. UNCHANGED <<scan, dropBy, start, notified, stopped, disturb>>
  BY DEF PollReceive
<1>. QED
  BY <1>1, <1>2, CopiesSame

(* Nothing happens for a scan before its workflow starts.                   *)
LEMMA FreshStep ==
  ASSUME TypeOK, HandlersHold, Exclusive, Fresh, Next
  PROVE  Fresh'
<1>. SUFFICES ASSUME NEW s \in Scans
              PROVE  /\ Unstarted(s)' => Copies(s)' = {} /\ notified'[s] = 0
                     /\ scan'[s] = "none" => start'[s] = "none"
  BY DEF Fresh
<1>0. /\ Unstarted(s) => Copies(s) = {} /\ notified[s] = 0
      /\ scan[s] = "none" => start[s] = "none"
  BY DEF Fresh
<1>1. ASSUME NEW t \in Scans, ScanStep(t)
      PROVE  /\ Unstarted(s)' => Copies(s)' = {} /\ notified'[s] = 0
             /\ scan'[s] = "none" => start'[s] = "none"
  <2>1. Copies(s)' = Copies(s) /\ notified' = notified
    BY <1>1, CopiesSame DEF ScanStep, Submit, FinishScan, DropByPasses
  <2>2. /\ Unstarted(s)' => Unstarted(s)
        /\ scan'[s] = "none" => scan[s] = "none" /\ start'[s] = start[s]
    BY <1>0, <1>1 DEF ScanStep, Submit, FinishScan, DropByPasses, Unstarted, TypeOK
  <2>. QED
    BY <1>0, <2>1, <2>2
<1>2. ASSUME NEW t \in Scans, StartStep(t)
      PROVE  /\ Unstarted(s)' => Copies(s)' = {} /\ notified'[s] = 0
             /\ scan'[s] = "none" => start'[s] = "none"
  <2>1. /\ scan' = scan /\ notified' = notified /\ start[t] # "none" /\ ~Unstarted(t)'
        /\ s # t => start'[s] = start[s]
    BY <1>2 DEF StartStep, WorkflowStart, WorkflowStartLegacy, WorkflowStartFails, AnnotationStart,
                Unstarted, AfterAwait, TypeOK
  <2>2. s # t => Copies(s)' = Copies(s)
    BY <1>2, StartCopies DEF Grows
  <2>. QED
    BY <1>0, <2>1, <2>2 DEF Unstarted
<1>3. ASSUME NEW k \in MsgIds, ExpireAwait(k) \/ ExpireTwice(k)
      PROVE  /\ Unstarted(s)' => Copies(s)' = {} /\ notified'[s] = 0
             /\ scan'[s] = "none" => start'[s] = "none"
  <2>1. scan' = scan /\ notified' = notified /\ start' = start
    BY <1>3 DEF ExpireAwait, ExpireTwice
  <2>2. Copies(s)' = Copies(s) \/ Copies(s) # {}
    BY <1>3, CopiesExpire
  <2>. QED
    BY <1>0, <2>1, <2>2 DEF Unstarted
<1>4. ASSUME NEW w \in Pollers, PollStep(w) \/ PollCrash(w)
      PROVE  /\ Unstarted(s)' => Copies(s)' = {} /\ notified'[s] = 0
             /\ scan'[s] = "none" => start'[s] = "none"
  <2>1. PICK i, t : i = poller[w].id /\ t = ScanOf(w)
    OBVIOUS
  <2>2. /\ Busy(w) /\ i \in MsgIds /\ t \in Scans /\ UNCHANGED <<scan, dropBy, start>>
        /\ \/ HandlerAcks(w, i) \/ HandlerKeeps(w) \/ HandlerCrashes(w, t)
           \/ HandlerRequeues(w, t) \/ HandlerNotifies(w, t)
    BY <1>4, <2>1, HandlerCopies
  <2>3. s = t => Copies(s) # {}
    BY <2>1, <2>2, HandlerCopy
  <2>4. s # t => Copies(s)' \subseteq Copies(s) /\ notified'[s] = notified[s]
    BY <2>2 DEF HandlerAcks, HandlerKeeps, HandlerCrashes, HandlerRequeues, HandlerNotifies, Grows
  <2>. QED
    BY <1>0, <2>2, <2>3, <2>4 DEF Unstarted
<1>5. ASSUME NEW w \in Pollers, NEW k \in MsgIds, PollReceive(w, k)
      PROVE  /\ Unstarted(s)' => Copies(s)' = {} /\ notified'[s] = 0
             /\ scan'[s] = "none" => start'[s] = "none"
  BY <1>0, <1>5, ReceiveCopies DEF Unstarted
<1>. QED
  BY <1>1, <1>2, <1>3, <1>4, <1>5 DEF Next
-----------------------------------------------------------------------------
(***************************************************************************)
(* The budget of a scan: its active messages and its reports are no more    *)
(* than one and the number of its redeliveries.                             *)
(***************************************************************************)

(* Cardinalities under the changes a step makes to a set.                   *)
LEMMA CardFacts ==
  ASSUME NEW S, IsFiniteSet(S), NEW T
  PROVE  /\ Cardinality(S) \in Nat
         /\ T \subseteq S => Cardinality(T) \in Nat /\ Cardinality(T) <= Cardinality(S)
         /\ \A y : T \subseteq S \cup {y} => Cardinality(T) \in Nat /\ Cardinality(T) <= Cardinality(S) + 1
         /\ \A x \in S : T \subseteq S \ {x} => Cardinality(T) \in Nat /\ Cardinality(T) <= Cardinality(S) - 1
         /\ \A x \in S : \A y : T \subseteq (S \ {x}) \cup {y} =>
              Cardinality(T) \in Nat /\ Cardinality(T) <= Cardinality(S)
<1>1. Cardinality(S) \in Nat
  BY FS_CardinalityType
<1>2. \A R : IsFiniteSet(R) /\ T \subseteq R =>
         Cardinality(R) \in Nat /\ Cardinality(T) \in Nat /\ Cardinality(T) <= Cardinality(R)
  BY FS_Subset, FS_CardinalityType
<1>3. \A R, y : IsFiniteSet(R) => IsFiniteSet(R \cup {y}) /\ Cardinality(R \cup {y}) <= Cardinality(R) + 1
  <2>1. SUFFICES ASSUME NEW R, NEW y, IsFiniteSet(R)
                 PROVE  IsFiniteSet(R \cup {y}) /\ Cardinality(R \cup {y}) <= Cardinality(R) + 1
    OBVIOUS
  <2>2. IsFiniteSet(R \cup {y}) /\ (Cardinality(R \cup {y}) = Cardinality(R) \/ Cardinality(R \cup {y}) = Cardinality(R) + 1)
    BY <2>1, FS_AddElement
  <2>3. Cardinality(R) \in Nat
    BY <2>1, FS_CardinalityType
  <2>. QED
    BY <2>2, <2>3
<1>4. \A x \in S : IsFiniteSet(S \ {x}) /\ Cardinality(S \ {x}) = Cardinality(S) - 1
  BY FS_RemoveElement
<1>5. ASSUME NEW y, T \subseteq S \cup {y}
      PROVE  Cardinality(T) \in Nat /\ Cardinality(T) <= Cardinality(S) + 1
  <2>1. IsFiniteSet(S \cup {y}) /\ Cardinality(S \cup {y}) <= Cardinality(S) + 1
    BY <1>3
  <2>2. Cardinality(S \cup {y}) \in Nat /\ Cardinality(T) \in Nat /\ Cardinality(T) <= Cardinality(S \cup {y})
    BY <2>1, <1>2, <1>5
  <2>. QED
    BY <2>1, <2>2, <1>1
<1>6. ASSUME NEW x \in S, T \subseteq S \ {x}
      PROVE  Cardinality(T) \in Nat /\ Cardinality(T) <= Cardinality(S) - 1
  BY <1>6, <1>4, <1>2
<1>7. ASSUME NEW x \in S, NEW y, T \subseteq (S \ {x}) \cup {y}
      PROVE  Cardinality(T) \in Nat /\ Cardinality(T) <= Cardinality(S)
  <2>1. IsFiniteSet(S \ {x}) /\ Cardinality(S \ {x}) = Cardinality(S) - 1
    BY <1>4
  <2>2. /\ IsFiniteSet((S \ {x}) \cup {y})
        /\ Cardinality((S \ {x}) \cup {y}) <= Cardinality(S \ {x}) + 1
    BY <2>1, <1>3
  <2>3. /\ Cardinality((S \ {x}) \cup {y}) \in Nat /\ Cardinality(T) \in Nat
        /\ Cardinality(T) <= Cardinality((S \ {x}) \cup {y})
    BY <2>2, <1>2, <1>7
  <2>. QED
    BY <2>1, <2>2, <2>3, <1>1
<1>8. T \subseteq S => Cardinality(T) \in Nat /\ Cardinality(T) <= Cardinality(S)
  BY <1>2
<1>. QED
  BY <1>1, <1>8, <1>5, <1>6, <1>7

(* The steps that keep the budget: nothing is added; one message with one   *)
(* more redelivery; one message for another; one message for a report.      *)
Fits(A, n, d, A1, n1, d1) ==
  \/ A1 \subseteq A /\ n1 = n /\ d1 = d
  \/ \E y : A1 \subseteq A \cup {y} /\ n1 = n /\ d1 = d + 1
  \/ \E x \in A : \E y : A1 \subseteq (A \ {x}) \cup {y} /\ n1 = n /\ d1 = d
  \/ \E x \in A : A1 \subseteq A \ {x} /\ n1 = n + 1 /\ d1 = d

(* Such a step keeps it.                                                    *)
LEMMA BudgetKept ==
  ASSUME NEW A, IsFiniteSet(A), NEW A1, NEW n \in Nat, NEW n1 \in Nat, NEW d \in Nat, NEW d1 \in Nat,
         Cardinality(A) + n <= 1 + d, Fits(A, n, d, A1, n1, d1)
  PROVE  Cardinality(A1) + n1 <= 1 + d1
<1>. DEFINE a == Cardinality(A)
            a1 == Cardinality(A1)
<1>0. a \in Nat /\ a + n <= 1 + d
  BY CardFacts
<1>1. CASE A1 \subseteq A /\ n1 = n /\ d1 = d
  <2>1. a1 \in Nat /\ a1 <= a
    BY <1>1, CardFacts
  <2>. QED
    BY <1>0, <1>1, <2>1
<1>2. CASE \E y : A1 \subseteq A \cup {y} /\ n1 = n /\ d1 = d + 1
  <2>1. a1 \in Nat /\ a1 <= a + 1
    BY <1>2, CardFacts
  <2>. QED
    BY <1>0, <1>2, <2>1
<1>3. CASE \E x \in A : \E y : A1 \subseteq (A \ {x}) \cup {y} /\ n1 = n /\ d1 = d
  <2>1. a1 \in Nat /\ a1 <= a
    BY <1>3, CardFacts
  <2>. QED
    BY <1>0, <1>3, <2>1
<1>4. CASE \E x \in A : A1 \subseteq A \ {x} /\ n1 = n + 1 /\ d1 = d
  <2>1. a1 \in Nat /\ a1 <= a - 1
    BY <1>4, CardFacts
  <2>. QED
    BY <1>0, <1>4, <2>1
<1>. HIDE DEF a, a1
<1>. QED
  BY <1>1, <1>2, <1>3, <1>4 DEF Fits

(* A message that is about to be acknowledged stays so, unless its handler  *)
(* takes the step.                                                          *)
LEMMA SpentStays ==
  ASSUME NEW w \in Pollers, \A v \in Pollers \ {w} : poller'[v] = poller[v], NEW j,
         poller[w].pc # "ack" \/ poller[w].id # j
  PROVE  Spent(j) => Spent(j)'
BY DEF Spent

(* Messages that stay monitoring messages and stay unspent.                 *)
LEMMA ActiveFits ==
  ASSUME NEW s \in Scans, Copies(s)' \subseteq Copies(s), \A j \in Copies(s)' : Spent(j) => Spent(j)',
         notified'[s] = notified[s], disturb'[s] = disturb[s]
  PROVE  Fits(Active(s), notified[s], disturb[s], Active(s)', notified'[s], disturb'[s])
<1>1. Active(s)' \subseteq Active(s)
  BY DEF Active
<1>. QED
  BY <1>1 DEF Fits

(* A scan gets its first monitoring message.                                *)
Begins(s) == /\ Unstarted(s) /\ Copies(s) = {} /\ notified[s] = 0 /\ notified'[s] = 0
             /\ disturb'[s] = disturb[s] /\ \E n \in MsgIds : Active(s)' \subseteq {n}

(* What a step does to the active messages and the reports of a scan.       *)
LEMMA ActiveStep ==
  ASSUME TypeOK, HandlersHold, Exclusive, Fresh, Next, NEW s \in Scans
  PROVE  \/ Fits(Active(s), notified[s], disturb[s], Active(s)', notified'[s], disturb'[s])
         \/ Begins(s)
<1>. DEFINE Within == Fits(Active(s), notified[s], disturb[s], Active(s)', notified'[s], disturb'[s])
<1>. HIDE DEF Within
<1>1. ASSUME NEW t \in Scans, ScanStep(t)
      PROVE  Within
  <2>1. msgs' = msgs /\ poller' = poller /\ notified' = notified /\ disturb' = disturb
    BY <1>1 DEF ScanStep, Submit, FinishScan, DropByPasses
  <2>2. Copies(s)' = Copies(s)
    BY <2>1, CopiesSame
  <2>3. \A j : Spent(j)' <=> Spent(j)
    BY <2>1 DEF Spent
  <2>. QED
    BY <2>1, <2>2, <2>3, ActiveFits DEF Within
<1>2. ASSUME NEW t \in Scans, StartStep(t)
      PROVE  Within \/ Begins(s)
  <2>1. poller' = poller /\ notified' = notified /\ disturb' = disturb
    BY <1>2 DEF StartStep, WorkflowStart, WorkflowStartLegacy, WorkflowStartFails, AnnotationStart
  <2>2. \A j : Spent(j)' <=> Spent(j)
    BY <2>1 DEF Spent
  <2>3. CASE Copies(s)' = Copies(s)
    BY <2>1, <2>2, <2>3, ActiveFits DEF Within
  <2>4. CASE Copies(s)' # Copies(s)
    <3>1. Unstarted(s) /\ \E n \in MsgIds : Copies(s)' = Copies(s) \cup {n}
      <4>1. \/ /\ ~Unstarted(t)' /\ Unstarted(t) /\ UNCHANGED stopped
               /\ \E n \in MsgIds : Grows(t, n)
            \/ \A r \in Scans : Copies(r)' = Copies(r)
        BY <1>2, StartCopies
      <4>2. Unstarted(t)
        BY <2>4, <4>1
      <4>3. PICK n \in MsgIds : Grows(t, n)
        BY <2>4, <4>1
      <4>4. s = t /\ Copies(s)' = Copies(s) \cup {n}
        BY <2>4, <4>3 DEF Grows
      <4>. QED
        BY <4>2, <4>4
    <3>2. Copies(s) = {} /\ notified[s] = 0
      BY <3>1 DEF Fresh
    <3>3. PICK n \in MsgIds : Copies(s)' = {n}
      BY <3>1, <3>2
    <3>4. Active(s)' \subseteq {n}
      BY <3>3 DEF Active
    <3>. QED
      BY <2>1, <3>1, <3>2, <3>4 DEF Begins
  <2>. QED
    BY <2>3, <2>4
<1>3. ASSUME NEW k \in MsgIds, ExpireAwait(k) \/ ExpireTwice(k)
      PROVE  Within
  <2>1. poller' = poller /\ notified' = notified
    BY <1>3 DEF ExpireAwait, ExpireTwice
  <2>2. \A j : Spent(j)' <=> Spent(j)
    BY <2>1 DEF Spent
  <2>3. \/ ExpireAwait(k) /\ Copies(s)' = Copies(s)
        \/ ExpireTwice(k) /\ s # msgs[k].scan /\ Copies(s)' = Copies(s)
        \/ ExpireTwice(k) /\ s = msgs[k].scan /\ \E n \in MsgIds : Copies(s)' = Copies(s) \cup {n}
    BY <1>3, CopiesExpire
  <2>4. /\ ExpireAwait(k) => disturb' = disturb
        /\ ExpireTwice(k) /\ s # msgs[k].scan => disturb'[s] = disturb[s]
        /\ ExpireTwice(k) /\ s = msgs[k].scan => disturb'[s] = disturb[s] + 1
    BY DEF ExpireAwait, ExpireTwice, TypeOK
  <2>5. CASE Copies(s)' = Copies(s) /\ disturb'[s] = disturb[s]
    BY <2>1, <2>2, <2>5, ActiveFits DEF Within
  <2>6. ASSUME NEW n \in MsgIds, Copies(s)' = Copies(s) \cup {n}, disturb'[s] = disturb[s] + 1
        PROVE  Within
    <3>1. Active(s)' \subseteq Active(s) \cup {n}
      BY <2>2, <2>6 DEF Active
    <3>. QED
      BY <2>1, <2>6, <3>1 DEF Within, Fits
  <2>. QED
    BY <2>3, <2>4, <2>5, <2>6
<1>4. ASSUME NEW w \in Pollers, PollStep(w) \/ PollCrash(w)
      PROVE  Within
  <2>1. PICK i, t : i = poller[w].id /\ t = ScanOf(w)
    OBVIOUS
  <2>2. /\ Busy(w) /\ i \in MsgIds /\ t \in Scans /\ UNCHANGED <<scan, dropBy, start>>
        /\ \/ HandlerAcks(w, i) \/ HandlerKeeps(w) \/ HandlerCrashes(w, t)
           \/ HandlerRequeues(w, t) \/ HandlerNotifies(w, t)
    BY <1>4, <2>1, HandlerCopies
  <2>3. \A v \in Pollers \ {w} : poller'[v] = poller[v]
    BY <1>4, HandlerStep DEF Kept
  <2>4. \A j : poller[w].pc # "ack" \/ j # i => (Spent(j) => Spent(j)')
    BY <2>1, <2>3, SpentStays
  <2>5. i \in Copies(s) <=> s = t
    BY <2>1, <2>2, HandlerCopy
  <2>6. CASE HandlerAcks(w, i)
    <3>1. Copies(s)' \subseteq Copies(s) /\ notified' = notified /\ disturb' = disturb
          /\ \A j \in Copies(s)' : j # i
      BY <2>6 DEF HandlerAcks
    <3>. QED
      BY <2>4, <3>1, ActiveFits DEF Within
  <2>7. CASE HandlerKeeps(w)
    <3>1. /\ Copies(s)' \subseteq Copies(s) /\ notified' = notified /\ disturb' = disturb
          /\ poller[w].pc # "ack"
      BY <2>7 DEF HandlerKeeps
    <3>. QED
      BY <2>4, <3>1, ActiveFits DEF Within
  <2>8. CASE HandlerCrashes(w, t)
    <3>1. /\ Copies(s)' = Copies(s) /\ notified' = notified
          /\ s = t => disturb'[s] = disturb[s] + 1
          /\ s # t => disturb'[s] = disturb[s]
      BY <2>8 DEF HandlerCrashes
    <3>2. CASE s = t
      <4>1. Active(s)' \subseteq Active(s) \cup {i}
        BY <2>4, <3>1 DEF Active
      <4>. QED
        BY <3>1, <3>2, <4>1 DEF Within, Fits
    <3>3. CASE s # t
      BY <2>4, <2>5, <3>1, <3>3, ActiveFits DEF Within
    <3>. QED
      BY <3>2, <3>3
  <2>9. i \in Copies(s) /\ poller[w].pc # "ack" => i \in Active(s)
    <3>1. \A v \in Pollers : poller[v].pc = "ack" /\ v # w => poller[v].id # i
      BY <2>1, <2>2 DEF Exclusive, Busy
    <3>. QED
      BY <3>1 DEF Active, Spent
  <2>10. CASE HandlerRequeues(w, t) \/ HandlerNotifies(w, t)
    <3>1. /\ poller[w].pc # "ack" /\ poller'[w].pc = "ack" /\ poller'[w].id = i
          /\ disturb' = disturb
      BY <2>10, <2>1 DEF HandlerRequeues, HandlerNotifies, PollRequeue, PollNotify, TypeOK
    <3>2. i \notin Active(s)'
      BY <3>1 DEF Active, Spent
    <3>3. CASE s # t
      <4>1. Copies(s)' = Copies(s) /\ notified'[s] = notified[s]
        BY <2>10, <3>3 DEF HandlerRequeues, HandlerNotifies, Grows
      <4>. QED
        BY <2>4, <3>1, <4>1, ActiveFits DEF Within
    <3>4. CASE s = t /\ HandlerRequeues(w, t)
      <4>0. PICK n \in MsgIds : Grows(t, n)
        BY <3>4 DEF HandlerRequeues
      <4>1. Copies(s)' = Copies(s) \cup {n}
        BY <3>4, <4>0 DEF Grows
      <4>2. Active(s)' \subseteq (Active(s) \ {i}) \cup {n}
        BY <2>4, <3>1, <3>2, <4>1 DEF Active
      <4>3. i \in Active(s) /\ notified' = notified
        BY <2>5, <2>9, <3>1, <3>4 DEF HandlerRequeues
      <4>. QED
        BY <3>1, <4>2, <4>3 DEF Within, Fits
    <3>5. CASE s = t /\ HandlerNotifies(w, t)
      <4>1. Copies(s)' = Copies(s) /\ notified'[s] = notified[s] + 1
        BY <3>5 DEF HandlerNotifies
      <4>2. Active(s)' \subseteq Active(s) \ {i}
        BY <2>4, <3>1, <3>2, <4>1 DEF Active
      <4>3. i \in Active(s)
        BY <2>5, <2>9, <3>1, <3>5
      <4>. QED
        BY <3>1, <4>1, <4>2, <4>3 DEF Within, Fits
    <3>. QED
      BY <2>10, <3>3, <3>4, <3>5
  <2>. QED
    BY <2>2, <2>6, <2>7, <2>8, <2>10
<1>5. ASSUME NEW w \in Pollers, NEW k \in MsgIds, PollReceive(w, k)
      PROVE  Within
  <2>1. Copies(s)' = Copies(s) /\ notified' = notified /\ disturb' = disturb
    BY <1>5, ReceiveCopies
  <2>2. poller[w].pc # "ack" /\ \A v \in Pollers \ {w} : poller'[v] = poller[v]
    BY <1>5, ReceiveStep DEF Kept, Busy
  <2>. QED
    BY <2>1, <2>2, SpentStays, ActiveFits DEF Within
<1>. QED
  BY <1>1, <1>2, <1>3, <1>4, <1>5 DEF Next, Within

(* No step exceeds the budget of a scan.                                    *)
LEMMA BoundStep ==
  ASSUME TypeOK, TypeOK', HandlersHold, Exclusive, Fresh, FeedbackBound, Next
  PROVE  FeedbackBound'
<1>. SUFFICES ASSUME NEW s \in Scans
              PROVE  Cardinality(Active(s)') + notified'[s] <= 1 + disturb'[s]
  BY DEF FeedbackBound
<1>1. /\ IsFiniteSet(Active(s)) /\ Active(s) \subseteq Copies(s)
      /\ notified[s] \in Nat /\ notified'[s] \in Nat /\ disturb[s] \in Nat /\ disturb'[s] \in Nat
      /\ Cardinality(Active(s)) + notified[s] <= 1 + disturb[s]
  <2>1. Active(s) \subseteq MsgIds /\ Active(s) \subseteq Copies(s)
    BY DEF Active, Copies
  <2>2. IsFiniteSet(Active(s))
    BY <2>1, PollingAssumption, FS_Subset
  <2>3. notified \in [Scans -> Nat] /\ disturb \in [Scans -> 0..MaxDisturb]
    BY DEF TypeOK
  <2>4. notified' \in [Scans -> Nat] /\ disturb' \in [Scans -> 0..MaxDisturb]
    BY DEF TypeOK
  <2>. QED
    BY <2>1, <2>2, <2>3, <2>4, PollingAssumption DEF FeedbackBound
<1>2. CASE Fits(Active(s), notified[s], disturb[s], Active(s)', notified'[s], disturb'[s])
  BY <1>1, <1>2, BudgetKept
<1>3. CASE Begins(s)
  <2>1. PICK n \in MsgIds : Active(s)' \subseteq {} \cup {n}
    BY <1>3 DEF Begins
  <2>2. IsFiniteSet({}) /\ Cardinality({}) = 0
    BY FS_EmptySet
  <2>3. Cardinality(Active(s)') \in Nat /\ Cardinality(Active(s)') <= 0 + 1
    BY <2>1, <2>2, CardFacts
  <2>. QED
    BY <1>1, <1>3, <2>3 DEF Begins
<1>. QED
  BY <1>2, <1>3, ActiveStep
-----------------------------------------------------------------------------
(***************************************************************************)
(* The contract of monitoring.  It is kept where a publish, the channel and *)
(* CxOne's answers do not fail for good: those failures end monitoring for  *)
(* a logged reason that the contract does not know.                         *)
(***************************************************************************)
Lossless == Faults \cap {"publish", "channel", "response"} = {}

(* The only reason left is that the drop_by time has passed.                *)
GivenUpOverdue == \A s \in Scans : stopped[s] # {} => dropBy[s]

(* No step gives a scan up for another reason.                              *)
LEMMA GivenUpStep ==
  ASSUME Lossless, TypeOK, HandlersHold, GivenUpOverdue, Next
  PROVE  GivenUpOverdue'
<1>1. CASE UNCHANGED <<stopped, dropBy>>
  BY <1>1 DEF GivenUpOverdue
<1>2. ASSUME NEW t \in Scans, ScanStep(t)
      PROVE  GivenUpOverdue'
  BY <1>2 DEF ScanStep, Submit, FinishScan, DropByPasses, GivenUpOverdue, TypeOK
<1>3. ASSUME NEW t \in Scans, StartStep(t)
      PROVE  UNCHANGED <<stopped, dropBy>>
  <2>1. ~WorkflowStartFails(t)
    BY DEF WorkflowStartFails, Lossless
  <2>. QED
    BY <1>3, <2>1 DEF StartStep, WorkflowStart, WorkflowStartLegacy, AnnotationStart
<1>4. ASSUME NEW i \in MsgIds, ExpireAwait(i) \/ ExpireTwice(i)
      PROVE  UNCHANGED <<stopped, dropBy>>
  BY <1>4 DEF ExpireAwait, ExpireTwice
<1>5. ASSUME NEW w \in Pollers, PollStep(w) \/ PollCrash(w)
      PROVE  GivenUpOverdue'
  <2>1. ~PollNoChannel(w) /\ ~PollResponseException(w) /\ ~PollRequeueFails(w) /\ ~PollNotifyFails(w)
    BY DEF PollNoChannel, PollResponseException, PollRequeueFails, PollNotifyFails, Lossless
  <2>2. CASE PollExpired(w)
    <3>1. ScanOf(w) \in Scans
      BY <2>2, HandlerFacts DEF PollExpired, Busy
    <3>2. /\ dropBy[ScanOf(w)] /\ dropBy' = dropBy
          /\ \A s \in Scans : s # ScanOf(w) => stopped'[s] = stopped[s]
      BY <2>2, <3>1 DEF PollExpired, IsExpired, GiveUp, TypeOK
    <3>. QED
      BY <3>1, <3>2 DEF GivenUpOverdue
  <2>3. CASE ~PollExpired(w)
    BY <1>1, <1>5, <2>1, <2>3
       DEF PollStep, PollRequestException, PollInspect, PollRequeue, PollRequeueRefused, PollNotify,
           PollAck, PollCrash
  <2>. QED
    BY <2>2, <2>3
<1>6. ASSUME NEW w \in Pollers, NEW i \in MsgIds, PollReceive(w, i)
      PROVE  UNCHANGED <<stopped, dropBy>>
  BY <1>6 DEF PollReceive
<1>. QED
  BY <1>1, <1>2, <1>3, <1>4, <1>5, <1>6 DEF Next

(* The contract's state, scan by scan.                                      *)
Phase(s) == IF notified[s] > 0 THEN "reported"
            ELSE IF Copies(s) # {} THEN "monitoring"
            ELSE IF start[s] \in {"awaited", "done"} THEN "abandoned" ELSE "none"

EndedScans == { s \in Scans : Finished(s) }
OverdueScans == { s \in Scans : dropBy[s] }

(* The status is the phase of each scan, before and after a step.           *)
LEMMA StatusIs ==
  /\ Status = [s \in Scans |-> Phase(s)]
  /\ Status' = [s \in Scans |-> Phase(s)']
BY DEF Status, Phase

(* A scan whose messages, reports and start stay the same for the contract. *)
LEMMA SamePhase ==
  ASSUME TypeOK, Fresh, Fresh', NEW s \in Scans, notified'[s] = notified[s],
         Copies(s)' = {} <=> Copies(s) = {}, Unstarted(s)' <=> Unstarted(s),
         start'[s] \in {"none", "submitted", "awaited", "done"}
  PROVE  Phase(s)' = Phase(s)
<1>1. start[s] \in {"none", "submitted", "awaited", "done"}
  BY DEF TypeOK
<1>. QED
  BY <1>1 DEF Phase, Unstarted

(* The steps of the contract that change the status of one scan.            *)
LEMMA ContractMove ==
  ASSUME NEW t \in Scans, \A s \in Scans \ {t} : Phase(s)' = Phase(s),
         EndedScans' = EndedScans, OverdueScans' = OverdueScans,
         \/ Phase(t)' = Phase(t)
         \/ Phase(t) = "none" /\ Phase(t)' = "monitoring"
         \/ Phase(t) = "monitoring" /\ Phase(t)' = "reported" /\ Finished(t)
         \/ Phase(t) = "monitoring" /\ Phase(t)' = "abandoned" /\ dropBy[t]
  PROVE  [Contract!Next]_(Contract!vars)
<1>1. /\ Status = [s \in Scans |-> Phase(s)]
      /\ Status' = [s \in Scans |-> Phase(s)']
  BY StatusIs
<1>2. /\ { s \in Scans : Finished(s) }' = { s \in Scans : Finished(s) }
      /\ { s \in Scans : dropBy[s] }' = { s \in Scans : dropBy[s] }
  BY DEF EndedScans, OverdueScans
<1>3. CASE Phase(t)' = Phase(t)
  <2>1. Status' = Status
    BY <1>1, <1>3
  <2>. QED
    BY <1>2, <2>1 DEF Contract!vars
<1>4. CASE Phase(t) = "none" /\ Phase(t)' = "monitoring"
  <2>1. Status[t] = "none" /\ Status' = [Status EXCEPT ![t] = "monitoring"]
    BY <1>1, <1>4
  <2>. QED
    BY <1>2, <2>1 DEF Contract!Next, Contract!Begin
<1>5. CASE Phase(t) = "monitoring" /\ Phase(t)' = "reported" /\ Finished(t)
  <2>1. Status[t] = "monitoring" /\ Status' = [Status EXCEPT ![t] = "reported"]
    BY <1>1, <1>5
  <2>2. t \in { s \in Scans : Finished(s) }
    BY <1>5
  <2>. QED
    BY <1>2, <2>1, <2>2 DEF Contract!Next, Contract!Report
<1>6. CASE Phase(t) = "monitoring" /\ Phase(t)' = "abandoned" /\ dropBy[t]
  <2>1. Status[t] = "monitoring" /\ Status' = [Status EXCEPT ![t] = "abandoned"]
    BY <1>1, <1>6
  <2>2. t \in { s \in Scans : dropBy[s] }
    BY <1>6
  <2>. QED
    BY <1>2, <2>1, <2>2 DEF Contract!Next, Contract!Abandon
<1>. QED
  BY <1>3, <1>4, <1>5, <1>6

(* A step that changes nothing the contract sees.                           *)
LEMMA ContractStutter ==
  ASSUME \A s \in Scans : Phase(s)' = Phase(s), EndedScans' = EndedScans, OverdueScans' = OverdueScans
  PROVE  [Contract!Next]_(Contract!vars)
<1>1. Status' = Status
  BY StatusIs
<1>. QED
  BY <1>1 DEF Contract!vars, EndedScans, OverdueScans

(* Steps of CxOne and of time.                                              *)
LEMMA ScanSimulates ==
  ASSUME TypeOK, TypeOK', Fresh, Fresh', NEW t \in Scans, ScanStep(t)
  PROVE  [Contract!Next]_(Contract!vars)
<1>1. \A s \in Scans : Phase(s)' = Phase(s)
  <2>1. /\ \A s \in Scans : Copies(s)' = Copies(s)
        /\ notified' = notified
    BY CopiesSame DEF ScanStep, Submit, FinishScan, DropByPasses
  <2>2. \A s \in Scans : Unstarted(s)' <=> Unstarted(s)
    BY DEF ScanStep, Submit, FinishScan, DropByPasses, Unstarted, TypeOK, Fresh
  <2>3. \A s \in Scans : start'[s] \in {"none", "submitted", "awaited", "done"}
    BY DEF TypeOK
  <2>. QED
    BY <2>1, <2>2, <2>3, SamePhase
<1>2. Status' = Status
  BY <1>1, StatusIs
<1>3. CASE Submit(t)
  <2>1. \A s \in Scans : Finished(s)' <=> Finished(s)
    BY <1>3 DEF Submit, Finished, TypeOK
  <2>2. dropBy' = dropBy
    BY <1>3 DEF Submit
  <2>. QED
    BY <1>1, <2>1, <2>2, ContractStutter DEF EndedScans, OverdueScans
<1>4. CASE FinishScan(t)
  <2>1. \A s \in Scans : Finished(s)' <=> Finished(s) \/ s = t
    BY <1>4 DEF FinishScan, Finished, TypeOK
  <2>2. { s \in Scans : Finished(s) }' = { s \in Scans : Finished(s) } \cup {t}
    BY <2>1
  <2>3. { s \in Scans : dropBy[s] }' = { s \in Scans : dropBy[s] }
    BY <1>4 DEF FinishScan
  <2>. QED
    BY <1>2, <2>2, <2>3 DEF Contract!Next, Contract!End
<1>5. CASE DropByPasses(t)
  <2>1. /\ start[t] \in {"awaited", "done"} /\ scan' = scan
        /\ \A s \in Scans : dropBy'[s] <=> dropBy[s] \/ s = t
    BY <1>5 DEF DropByPasses, TypeOK
  <2>2. { s \in Scans : dropBy[s] }' = { s \in Scans : dropBy[s] } \cup {t}
    BY <2>1
  <2>3. { s \in Scans : Finished(s) }' = { s \in Scans : Finished(s) }
    BY <2>1 DEF Finished
  <2>4. Status[t] # "none"
    BY <2>1, StatusIs DEF Phase
  <2>. QED
    BY <1>2, <2>2, <2>3, <2>4 DEF Contract!Next, Contract!Overdue
<1>. QED
  BY <1>3, <1>4, <1>5 DEF ScanStep

(* The start of a workflow begins monitoring.                               *)
LEMMA StartSimulates ==
  ASSUME Lossless, TypeOK, TypeOK', HandlersHold, Fresh, Fresh', NEW t \in Scans, StartStep(t)
  PROVE  [Contract!Next]_(Contract!vars)
<1>1. /\ scan' = scan /\ dropBy' = dropBy /\ notified' = notified
      /\ \A s \in Scans \ {t} : start'[s] = start[s]
  BY DEF StartStep, WorkflowStart, WorkflowStartLegacy, WorkflowStartFails, AnnotationStart, TypeOK
<1>2. EndedScans' = EndedScans /\ OverdueScans' = OverdueScans
  BY <1>1 DEF EndedScans, OverdueScans, Finished
<1>3. \A s \in Scans : start'[s] \in {"none", "submitted", "awaited", "done"}
  BY DEF TypeOK
<1>4. \/ /\ ~Unstarted(t)' /\ Unstarted(t) /\ \E n \in MsgIds : Grows(t, n)
      \/ AnnotationStart(t) /\ \A s \in Scans : Copies(s)' = Copies(s)
  BY StartCopies DEF WorkflowStartFails, Lossless
<1>5. CASE ~Unstarted(t)' /\ Unstarted(t) /\ \E n \in MsgIds : Grows(t, n)
  <2>1. PICK n \in MsgIds : Grows(t, n)
    BY <1>5
  <2>2. \A s \in Scans \ {t} : Copies(s)' = Copies(s) /\ (Unstarted(s)' <=> Unstarted(s))
    BY <1>1, <2>1 DEF Grows, Unstarted
  <2>3. \A s \in Scans \ {t} : Phase(s)' = Phase(s)
    BY <1>1, <1>3, <2>2, SamePhase
  <2>4. Copies(t) = {} /\ Copies(t)' # {} /\ notified[t] = 0 /\ notified'[t] = 0
    BY <1>1, <1>5, <2>1 DEF Grows, Fresh
  <2>5. Phase(t) = "none" /\ Phase(t)' = "monitoring"
    BY <1>5, <2>4 DEF Phase, Unstarted
  <2>. QED
    BY <1>2, <2>3, <2>5, ContractMove
<1>6. CASE AnnotationStart(t) /\ \A s \in Scans : Copies(s)' = Copies(s)
  <2>1. \A s \in Scans : Unstarted(s)' <=> Unstarted(s)
    BY <1>1, <1>6 DEF AnnotationStart, Unstarted, TypeOK
  <2>2. \A s \in Scans : Phase(s)' = Phase(s)
    BY <1>1, <1>3, <1>6, <2>1, SamePhase
  <2>. QED
    BY <1>2, <2>2, ContractStutter
<1>. QED
  BY <1>4, <1>5, <1>6

(* A handler reports a scan, abandons it, or neither.                       *)
LEMMA HandlerSimulates ==
  ASSUME IInv, IInv', GivenUpOverdue', NEW w \in Pollers, PollStep(w) \/ PollCrash(w)
  PROVE  [Contract!Next]_(Contract!vars)
<1>0. TypeOK /\ HandlersHold /\ Exclusive /\ Fresh /\ Fresh' /\ MonitoringSurvives' /\ TypeOK'
  BY DEF IInv
<1>1. PICK i, t : i = poller[w].id /\ t = ScanOf(w)
  OBVIOUS
<1>2. /\ Busy(w) /\ i \in MsgIds /\ t \in Scans /\ UNCHANGED <<scan, dropBy, start>>
      /\ \/ HandlerAcks(w, i) \/ HandlerKeeps(w) \/ HandlerCrashes(w, t)
         \/ HandlerRequeues(w, t) \/ HandlerNotifies(w, t)
  BY <1>0, <1>1, HandlerCopies
<1>. t \in Scans
  BY <1>2
<1>3. EndedScans' = EndedScans /\ OverdueScans' = OverdueScans
  BY <1>2 DEF EndedScans, OverdueScans, Finished
<1>4. \A s \in Scans : /\ start'[s] \in {"none", "submitted", "awaited", "done"}
                       /\ Unstarted(s)' <=> Unstarted(s)
  BY <1>0, <1>2 DEF TypeOK, Unstarted
<1>5. \A s \in Scans : i \in Copies(s) <=> s = t
  BY <1>0, <1>1, <1>2, HandlerCopy
<1>6. \A s \in Scans : s # t => Copies(s)' = Copies(s) /\ notified'[s] = notified[s]
  BY <1>2, <1>5 DEF HandlerAcks, HandlerKeeps, HandlerCrashes, HandlerRequeues, HandlerNotifies, Grows
<1>7. \A s \in Scans \ {t} : Phase(s)' = Phase(s)
  BY <1>0, <1>4, <1>6, SamePhase
<1>8. /\ Copies(t) # {} /\ start[t] \in {"awaited", "done"} /\ start'[t] \in {"awaited", "done"}
      /\ notified[t] \in Nat
  BY <1>0, <1>2, <1>5 DEF Fresh, Unstarted, TypeOK
<1>9. CASE HandlerAcks(w, i) /\ Copies(t)' = {}
  <2>1. notified'[t] = notified[t]
    BY <1>9 DEF HandlerAcks
  <2>2. CASE notified[t] > 0
    <3>1. Phase(t)' = Phase(t)
      BY <2>1, <2>2 DEF Phase
    <3>. QED
      BY <1>3, <1>7, <3>1, ContractMove
  <2>3. CASE notified[t] = 0
    <3>1. Active(t)' = {}
      BY <1>9 DEF Active
    <3>2. stopped'[t] # {}
      BY <1>0, <1>8, <2>1, <2>3, <3>1 DEF MonitoringSurvives
    <3>3. dropBy[t]
      BY <1>2, <3>2 DEF GivenUpOverdue
    <3>4. Phase(t) = "monitoring" /\ Phase(t)' = "abandoned"
      BY <1>8, <1>9, <2>1, <2>3 DEF Phase
    <3>. QED
      BY <1>3, <1>7, <3>3, <3>4, ContractMove
  <2>. QED
    BY <1>8, <2>2, <2>3
<1>10. CASE HandlerNotifies(w, t)
  <2>1. /\ notified'[t] = notified[t] + 1 /\ poller[w].pc = "notify"
    BY <1>10 DEF HandlerNotifies, PollNotify
  <2>2. Finished(t)
    BY <1>1, <2>1 DEF IInv, SeenFaithful
  <2>3. Phase(t)' = "reported" /\ (Phase(t) = "reported" \/ Phase(t) = "monitoring")
    BY <1>8, <2>1 DEF Phase
  <2>. QED
    BY <1>3, <1>7, <2>2, <2>3, ContractMove
<1>11. CASE ~(HandlerAcks(w, i) /\ Copies(t)' = {}) /\ ~HandlerNotifies(w, t)
  <2>1. notified'[t] = notified[t] /\ Copies(t)' # {}
    BY <1>2, <1>8, <1>11 DEF HandlerAcks, HandlerKeeps, HandlerCrashes, HandlerRequeues, Grows
  <2>2. Phase(t)' = Phase(t)
    BY <1>8, <2>1 DEF Phase
  <2>. QED
    BY <1>3, <1>7, <2>2, ContractMove
<1>. QED
  BY <1>9, <1>10, <1>11

(* Every step is a step of the contract or invisible to it.                 *)
LEMMA StepSimulates ==
  ASSUME Lossless, IInv, IInv', GivenUpOverdue', [Next]_vars
  PROVE  [Contract!Next]_(Contract!vars)
<1>0. TypeOK /\ TypeOK' /\ HandlersHold /\ Exclusive /\ Fresh /\ Fresh'
  BY DEF IInv
<1>1. ASSUME NEW t \in Scans, ScanStep(t)
      PROVE  [Contract!Next]_(Contract!vars)
  BY <1>0, <1>1, ScanSimulates
<1>2. ASSUME NEW t \in Scans, StartStep(t)
      PROVE  [Contract!Next]_(Contract!vars)
  BY <1>0, <1>2, StartSimulates
<1>s. ASSUME scan' = scan, dropBy' = dropBy, start' = start, notified' = notified,
             \A s \in Scans : Copies(s)' = {} <=> Copies(s) = {}
      PROVE  [Contract!Next]_(Contract!vars)
  <2>1. \A s \in Scans : /\ start'[s] \in {"none", "submitted", "awaited", "done"}
                         /\ Unstarted(s)' <=> Unstarted(s)
    BY <1>0, <1>s DEF TypeOK, Unstarted
  <2>2. \A s \in Scans : Phase(s)' = Phase(s)
    BY <1>0, <1>s, <2>1, SamePhase
  <2>3. EndedScans' = EndedScans /\ OverdueScans' = OverdueScans
    BY <1>s DEF EndedScans, OverdueScans, Finished
  <2>. QED
    BY <2>2, <2>3, ContractStutter
<1>3. ASSUME NEW k \in MsgIds, ExpireAwait(k) \/ ExpireTwice(k)
      PROVE  [Contract!Next]_(Contract!vars)
  <2>1. scan' = scan /\ dropBy' = dropBy /\ start' = start /\ notified' = notified
    BY <1>3 DEF ExpireAwait, ExpireTwice
  <2>2. \A s \in Scans : Copies(s)' = Copies(s) \/ (Copies(s)' # {} /\ Copies(s) # {})
    BY <1>0, <1>3, CopiesExpire
  <2>. QED
    BY <1>s, <2>1, <2>2
<1>4. ASSUME NEW w \in Pollers, PollStep(w) \/ PollCrash(w)
      PROVE  [Contract!Next]_(Contract!vars)
  BY <1>4, HandlerSimulates
<1>5. ASSUME NEW w \in Pollers, NEW k \in MsgIds, PollReceive(w, k)
      PROVE  [Contract!Next]_(Contract!vars)
  BY <1>0, <1>5, <1>s, ReceiveCopies
<1>6. CASE UNCHANGED vars
  <2>1. /\ scan' = scan /\ dropBy' = dropBy /\ start' = start /\ notified' = notified
        /\ msgs' = msgs
    BY <1>6 DEF vars
  <2>. QED
    BY <1>s, <2>1, CopiesSame
<1>. QED
  BY <1>1, <1>2, <1>3, <1>4, <1>5, <1>6 DEF Next
-----------------------------------------------------------------------------
(***************************************************************************)
(* The theorems.                                                            *)
(***************************************************************************)

(* Before any scan is submitted the invariant holds.                        *)
LEMMA InitIInv == Init => IInv
<1>. SUFFICES ASSUME Init PROVE IInv
  OBVIOUS
<1>1. TypeOK
  BY PollingAssumption DEF Init, TypeOK, Idle, PollPC
<1>2. HandlersHold /\ Exclusive /\ SeenFaithful
  BY DEF Init, HandlersHold, Exclusive, SeenFaithful, Busy, Idle
<1>3. MonitoringSurvives /\ OutcomeFaithful
  BY DEF Init, MonitoringSurvives, OutcomeFaithful, NoMsg
<1>4. \A s \in Scans : Copies(s) = {}
  BY QueueFacts DEF Init, Copies, NoMsg
<1>5. Fresh
  BY <1>4 DEF Init, Fresh
<1>6. \A s \in Scans : Active(s) = {}
  BY <1>4 DEF Active
<1>7. FeedbackBound
  BY <1>6, FS_EmptySet DEF Init, FeedbackBound
<1>. QED
  BY <1>1, <1>2, <1>3, <1>5, <1>7 DEF IInv

(* The invariant is inductive.                                              *)
LEMMA NextIInv == IInv /\ [Next]_vars => IInv'
<1>1. ASSUME IInv, Next
      PROVE  IInv'
  BY <1>1, TypeStep, HoldStep, SeenStep, FaithfulStep, SurvivesStep, FreshStep, BoundStep DEF IInv
<1>2. ASSUME IInv, UNCHANGED vars
      PROVE  IInv'
  <2>1. /\ scan' = scan /\ dropBy' = dropBy /\ start' = start /\ msgs' = msgs /\ poller' = poller
        /\ notified' = notified /\ stopped' = stopped /\ disturb' = disturb
    BY <1>2 DEF vars
  <2>2. TypeOK' /\ HandlersHold' /\ Exclusive' /\ SeenFaithful'
    BY <1>2, <2>1 DEF IInv, TypeOK, HandlersHold, Exclusive, SeenFaithful, Busy, ScanOf, Finished
  <2>3. MonitoringSurvives' /\ OutcomeFaithful'
    BY <1>2, <2>1 DEF IInv, MonitoringSurvives, OutcomeFaithful, Active, Copies, Spent
  <2>4. \A s \in Scans : Copies(s)' = Copies(s) /\ Active(s)' = Active(s)
    BY <2>1 DEF Active, Copies, Spent
  <2>5. Fresh' /\ FeedbackBound'
    BY <1>2, <2>1, <2>4 DEF IInv, Fresh, Unstarted, FeedbackBound
  <2>. QED
    BY <2>2, <2>3, <2>5 DEF IInv
<1>. QED
  BY <1>1, <1>2

(* Scan monitoring keeps its inductive invariant for all scans, handlers,   *)
(* messages, intervals and faults.                                          *)
THEOREM PollingInvariant == Spec => []IInv
BY InitIInv, NextIInv, PTL DEF Spec

(* Types are kept; in particular the delay of a requeued await message      *)
(* stays within the configured interval.                                    *)
THEOREM TypeCorrect == Spec => []TypeOK
<1>1. IInv => TypeOK
  BY DEF IInv
<1>. QED
  BY <1>1, PollingInvariant, PTL

(* A started scan that has neither been reported nor given up always has an *)
(* await message in the broker, whatever the crashes, redeliveries and      *)
(* refused publishes of execute_poll_scan_workflow.                         *)
THEOREM MonitoringNeverLost == Spec => []MonitoringSurvives
<1>1. IInv => MonitoringSurvives
  BY DEF IInv
<1>. QED
  BY <1>1, PollingInvariant, PTL

(* The next step published for a scan is always the one for how the scan    *)
(* ended.                                                                   *)
THEOREM OutcomeAlwaysFaithful == Spec => []OutcomeFaithful
<1>1. IInv => OutcomeFaithful
  BY DEF IInv
<1>. QED
  BY <1>1, PollingInvariant, PTL

(* Each redelivery of a message of a scan causes at most one more next step *)
(* of its workflow, for any number of handlers and any interleaving.        *)
THEOREM FeedbackBounded == Spec => []FeedbackBound
<1>1. IInv => FeedbackBound
  BY DEF IInv
<1>. QED
  BY <1>1, PollingInvariant, PTL

(* Monitoring begins as the contract does.                                  *)
LEMMA ContractInit == Init => Contract!Init
<1>1. SUFFICES ASSUME Init
               PROVE  Contract!Init
  OBVIOUS
<1>2. IInv
  BY <1>1, InitIInv
<1>3. \A s \in Scans : start[s] = "none" /\ Copies(s) = {} /\ notified[s] = 0
  BY <1>1, <1>2 DEF Init, IInv, Fresh, Unstarted
<1>4. \A s \in Scans : Phase(s) = "none"
  BY <1>3 DEF Phase
<1>5. Status = [s \in Scans |-> "none"]
  BY <1>4, StatusIs
<1>6. { s \in Scans : Finished(s) } = {} /\ { s \in Scans : dropBy[s] } = {}
  BY <1>1 DEF Init, Finished
<1>. QED
  BY <1>5, <1>6 DEF Contract!Init

(* Where no publish, channel or answer of CxOne fails for good, and whatever*)
(* crashes, duplicates and failing requests there are, monitoring keeps its *)
(* contract: it begins once, and ends only by a report of a finished scan   *)
(* or, after drop_by, by being abandoned.                                   *)
THEOREM ContractKept ==
  ASSUME Lossless
  PROVE  Spec => ImplementsContract
<1>1. Init => Contract!Init
  BY ContractInit
<1>2. Init => GivenUpOverdue
  BY DEF Init, GivenUpOverdue
<1>3. IInv /\ GivenUpOverdue /\ [Next]_vars => GivenUpOverdue'
  <2>1. ASSUME IInv, GivenUpOverdue, UNCHANGED vars
        PROVE  GivenUpOverdue'
    BY <2>1 DEF GivenUpOverdue, vars
  <2>. QED
    BY <2>1, GivenUpStep DEF IInv
<1>4. IInv /\ IInv' /\ GivenUpOverdue' /\ [Next]_vars => [Contract!Next]_(Contract!vars)
  BY StepSimulates
<1>. QED
  BY <1>1, <1>2, <1>3, <1>4, PollingInvariant, PTL DEF Spec, ImplementsContract, Contract!Spec
=============================================================================

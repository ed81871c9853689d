------------------------ MODULE FeedbackSystemProofs ------------------------
(***************************************************************************)
(* Proofs about the composition FeedbackSystem, for all scans, handlers,    *)
(* messages, delivery agents and faults: its types, that the outcome of a   *)
(* scan reaches the pull request or the delivery agents, that comments of   *)
(* others are left alone, and that the comments of CxOneFlow and the        *)
(* deliveries are bounded.                                                  *)
(***************************************************************************)
EXTENDS FeedbackSystem, ScanPollingProofs, SequenceTheorems

OutQueues == {PRFeedback, PRAnnotating, SarifGen}
OutTexts == {"started", "results", "error"}

(* What a message in each queue is about.                                   *)
Route(m) ==
  /\ m.queue \in MonitorQueues => m.text = "await"
  /\ m.queue = PRFeedback => m.text = "results" /\ m.scan \in PRScans
  /\ m.queue = PRAnnotating => m.text \in {"started", "error"} /\ m.scan \in PRScans
  /\ m.queue = SarifGen => m.text \in {"results", "error"} /\ m.scan \in PushScans

Routed == \A i \in MsgIds : Route(msgs[i])

(* Only the workflow of a pull request has an annotation to publish.        *)
AwaitedPR == \A s \in Scans : start[s] = "awaited" => s \in PRScans

(* The states of the two kinds of consumers.                                *)
Comments == [scan : Scans \cup {NoScan}, text : {"other"} \cup OutTexts, ver : Nat]

DecoRec == [pc : {"idle", "received", "found", "written"}, id : MsgIds \cup {NoMessage},
            target : Nat, ver : Nat]

GenRec == [pc : {"idle", "received", "deliver"}, id : MsgIds \cup {NoMessage},
           tried : [G!Agents -> 0..(Retries + 1)], ended : SUBSET G!Agents, ok : SUBSET G!Agents]

DecoTypes ==
  /\ thread \in Seq(Comments) /\ deco \in [D!Decorators -> DecoRec]
  /\ shown \in [PRScans -> SUBSET OutTexts] /\ lost \in SUBSET PRScans
  /\ enabled \in BOOLEAN

GenOK(r) == /\ r \in GenRec /\ \A a \in G!Agents \ r.ended : r.tried[a] <= Retries
            /\ r.pc # "deliver" => r.ended = {}

GenTypes ==
  /\ gen \in [Generators -> GenRec]
  /\ sarifs \in [PushScans -> [G!Agents -> Nat]] /\ undelivered \in [PushScans -> SUBSET G!Agents]
  /\ sarifEnabled \in BOOLEAN
  /\ \A g \in Generators : GenOK(gen[g])

(* A working consumer holds a delivered message of its queue, alone.        *)
Decorating(d) == deco[d].pc # "idle"
Generating(g) == gen[g].pc # "idle"

DecoHold ==
  \A d \in D!Decorators : Decorating(d) => /\ deco[d].id \in MsgIds
                                           /\ msgs[deco[d].id].queue = D!QueueOf(d)
                                           /\ msgs[deco[d].id].held

DecoAlone ==
  \A d, e \in D!Decorators : d # e /\ Decorating(d) /\ Decorating(e) => deco[d].id # deco[e].id

GenHold ==
  \A g \in Generators : Generating(g) => /\ gen[g].id \in MsgIds
                                         /\ msgs[gen[g].id].queue = SarifGen
                                         /\ msgs[gen[g].id].held

GenAlone ==
  \A g, h \in Generators : g # h /\ Generating(g) /\ Generating(h) => gen[g].id # gen[h].id

(* A handler about to update a comment found one of CxOneFlow.              *)
TargetsOwn ==
  \A d \in D!Decorators : /\ deco[d].target \in 0..Len(thread)
                          /\ deco[d].target # 0 => deco[d].target \in D!Own

(* What users put away is CxOneFlow's, and on two of the SCMs nothing is.   *)
AwayOwn ==
  /\ away \subseteq D!Own /\ cleared \in Nat
  /\ scm \notin {"bbdc", "adoe"} => away = {} /\ cleared = 0

SInv ==
  /\ IInv /\ Routed /\ AwaitedPR
  /\ DecoTypes /\ DecoHold /\ DecoAlone /\ TargetsOwn /\ AwayOwn
  /\ GenTypes /\ GenHold /\ GenAlone

(* Outcomes on their way, and those that have arrived.                      *)
Outcome(s) == { i \in MsgIds : msgs[i].scan = s /\ msgs[i].text \in {"results", "error"} }

WrittenShown ==
  \A d \in D!Decorators : deco[d].pc = "written" => D!DecoText(d) \in shown[D!DecoScan(d)]

ReportInPR ==
  \A s \in PRScans : notified[s] > 0 /\ enabled /\ s \notin lost
                       => Outcome(s) # {} \/ shown[s] \cap {"results", "error"} # {}

Settled(s, a) == sarifs[s][a] > 0 \/ a \in undelivered[s]

EndedSettled ==
  \A g \in Generators : gen[g].pc = "deliver" => \A a \in gen[g].ended : Settled(G!GenScan(g), a)

ReportAtAgents ==
  \A s \in PushScans : notified[s] > 0 /\ sarifEnabled
                         => Outcome(s) # {} \/ \A a \in G!Agents : Settled(s, a)

(* Handlers that found no comment, each of which may still add Repeats.     *)
(* While a search would find a comment none of them is new; as many as      *)
(* there are handlers can be when users have cleared the comments.          *)
Creators == { d \in D!Decorators : deco[d].pc = "found" /\ deco[d].target = 0 }
Round == D!Repeats * Cardinality(D!Decorators)

CommentBudget ==
  /\ Cardinality(D!Own) + D!Repeats * Cardinality(Creators) <= Round * (1 + cleared)
  /\ D!Live = {} => Cardinality(D!Own) <= Round * cleared
  /\ Cardinality(DOMAIN thread \ D!Own) <= MaxOthers

(* The messages that may still lead to a delivery of s by agent a.          *)
Served(i, a) == \E g \in Generators : gen[g].pc = "deliver" /\ gen[g].id = i /\ a \in gen[g].ended
Owed(s, a) == Active(s) \cup { i \in MsgIds : /\ msgs[i].queue = SarifGen /\ msgs[i].scan = s
                                              /\ ~Served(i, a) }

DeliveryBudget ==
  \A s \in PushScans : \A a \in G!Agents : Cardinality(Owed(s, a)) + sarifs[s][a] <= 1 + disturb[s]

NothingYet ==
  \A s \in PushScans : notified[s] = 0 => Outcome(s) = {} /\ \A a \in G!Agents : sarifs[s][a] = 0
-----------------------------------------------------------------------------
(***************************************************************************)
(* Queues and messages.                                                     *)
(***************************************************************************)

(* The consumers use the queues and the broker of ScanPolling.              *)
LEMMA SameBroker ==
  /\ D!PRFeedback = PRFeedback /\ D!PRAnnotating = PRAnnotating /\ G!SarifGen = SarifGen
  /\ D!NoMsg = NoMsg /\ G!NoMsg = NoMsg
  /\ \A ms, i : /\ D!Ack(ms, i) = Ack(ms, i) /\ G!Ack(ms, i) = Ack(ms, i)
                /\ D!Requeue(ms, i) = Requeue(ms, i) /\ G!Requeue(ms, i) = Requeue(ms, i)
                /\ D!Deliver(ms, i) = Deliver(ms, i) /\ G!Deliver(ms, i) = Deliver(ms, i)
  /\ \A ms, q : D!Ready(ms, q) = Ready(ms, q) /\ G!Ready(ms, q) = Ready(ms, q)
BY DEF D!PRFeedback, PRFeedback, D!PRAnnotating, PRAnnotating, G!SarifGen, SarifGen,
       D!NoMsg, G!NoMsg, NoMsg, D!NoQueue, G!NoQueue, NoQueue, D!Ack, G!Ack, Ack,
       D!Requeue, G!Requeue, Requeue, D!Deliver, G!Deliver, Deliver, D!Ready, G!Ready, Ready

(* The queues have different names.                                         *)
LEMMA OutFacts ==
  /\ PRFeedback # PRAnnotating /\ PRFeedback # SarifGen /\ PRAnnotating # SarifGen
  /\ OutQueues \subseteq Queues /\ OutQueues \cap MonitorQueues = {}
  /\ NoQueue \notin OutQueues /\ NoQueue \notin MonitorQueues
  /\ PollQueues \subseteq MonitorQueues /\ Queues = MonitorQueues \cup OutQueues
  /\ \A d : D!QueueOf(d) \in {PRFeedback, PRAnnotating}
<1>1. \A d : D!QueueOf(d) \in {PRFeedback, PRAnnotating}
  BY SameBroker DEF D!QueueOf
<1>. QED
  BY <1>1 DEF OutQueues, PollQueues, Queues, MonitorQueues, NoQueue, AwaitedScans, AwaitedScansLegacy,
              PollingScans, PollingScansLegacy, PRFeedback, PRAnnotating, SarifGen

(* An unused identity is on no route, and what Msg builds is.               *)
LEMMA RouteFacts ==
  /\ Route(NoMsg)
  /\ \A m : m.queue \in MonitorQueues /\ m.text = "await" => Route(m)
  /\ \A m, k : Route(m) /\ k.queue = m.queue /\ k.text = m.text /\ k.scan = m.scan => Route(k)
BY OutFacts DEF Route, NoMsg, OutQueues

(* The parts of the polling invariant used here.                            *)
LEMMA PollParts ==
  ASSUME IInv
  PROVE  TypeOK /\ HandlersHold /\ Exclusive /\ SeenFaithful /\ Fresh /\ msgs \in Pool
BY DEF IInv, TypeOK, Pool

-----------------------------------------------------------------------------
(***************************************************************************)
(* What a step of ScanPolling does to the messages of the consumers.        *)
(***************************************************************************)

(* Message j is left alone, or stays among the monitoring messages.         *)
InMonitor(j) ==
  \/ msgs'[j] = msgs[j]
  \/ /\ msgs[j].queue \notin OutQueues
     /\ msgs'[j] = NoMsg \/ (msgs'[j].queue \in MonitorQueues /\ msgs'[j].text = "await")

(* Message m is new at n, and nothing else changes.                         *)
New(n, m) == /\ msgs[n].queue = NoQueue /\ msgs'[n] = m
             /\ \A j \in MsgIds \ {n} : msgs'[j] = msgs[j]

(* Publishing puts the message at an unused identity.                       *)
LEMMA PublishNew ==
  ASSUME msgs \in Pool, NEW m \in Message, Free(msgs) # {}, msgs' = Publish(msgs, m)
  PROVE  \E n \in MsgIds : New(n, m)
BY PublishFacts DEF New

(* A new await message stays among the monitoring messages.                 *)
LEMMA AwaitInMonitor ==
  ASSUME msgs \in Pool, NEW q \in MonitorQueues, NEW s \in Scans, NEW d \in Delays, Free(msgs) # {},
         msgs' = Publish(msgs, Msg(q, s, d, "await"))
  PROVE  \A j \in MsgIds : InMonitor(j)
<1>. DEFINE m == Msg(q, s, d, "await")
<1>1. m \in Message /\ m.queue \in MonitorQueues /\ m.text = "await"
  BY MsgFacts, QueueFacts DEF Texts
<1>2. msgs' = Publish(msgs, m)
  OBVIOUS
<1>. HIDE DEF m
<1>3. PICK n \in MsgIds : New(n, m)
  BY <1>1, <1>2, PublishNew
<1>. QED
  BY <1>1, <1>3, OutFacts DEF New, InMonitor

Started1(t, n) == t \in PRScans /\ New(n, Msg(PRAnnotating, t, 0, "started")) /\ UNCHANGED notified

Notified1(w, n) == /\ PollNotify(w) /\ poller[w].pc = "notify"
                   /\ New(n, NextStep(ScanOf(w), poller[w].seen))

(* A step of scan polling works on monitoring messages, publishes the       *)
(* "Scan Started" annotation, or reports one outcome.                       *)
LEMMA NextEffect ==
  ASSUME IInv, Routed, AwaitedPR, Next
  PROVE  \/ (\A j \in MsgIds : InMonitor(j)) /\ UNCHANGED notified
         \/ \E t \in Scans, n \in MsgIds : Started1(t, n)
         \/ \E w \in Pollers, n \in MsgIds : Notified1(w, n)
<1>0. TypeOK /\ HandlersHold /\ Exclusive /\ msgs \in Pool
  BY PollParts
<1>u. msgs' = msgs => \A j \in MsgIds : InMonitor(j)
  BY DEF InMonitor
<1>1. ASSUME NEW t \in Scans, ScanStep(t)
      PROVE  msgs' = msgs /\ UNCHANGED notified
  BY <1>1 DEF ScanStep, Submit, FinishScan, DropByPasses
<1>2. ASSUME NEW t \in Scans, StartStep(t)
      PROVE  \/ (\A j \in MsgIds : InMonitor(j)) /\ UNCHANGED notified
             \/ \E n \in MsgIds : Started1(t, n)
  <2>1. UNCHANGED notified
    BY <1>2 DEF StartStep, WorkflowStart, WorkflowStartLegacy, WorkflowStartFails, AnnotationStart
  <2>2. CASE WorkflowStart(t) \/ WorkflowStartLegacy(t)
    <3>1. AwaitedScans \in MonitorQueues /\ AwaitedScansLegacy \in MonitorQueues
      BY DEF MonitorQueues
    <3>2. Free(msgs) # {} /\ \/ msgs' = Publish(msgs, Msg(AwaitedScans, t, Interval, "await"))
                             \/ msgs' = Publish(msgs, Msg(AwaitedScansLegacy, t, Interval, "await"))
      BY <2>2 DEF WorkflowStart, WorkflowStartLegacy
    <3>. QED
      BY <1>0, <2>1, <3>1, <3>2, AwaitInMonitor, DelayFacts
  <2>3. CASE msgs' = msgs
    BY <1>u, <2>1, <2>3
  <2>4. CASE AnnotationStart(t) /\ msgs' # msgs
    <3>. DEFINE m == Msg(PRAnnotating, t, 0, "started")
    <3>1. m \in Message
      BY MsgFacts, DelayFacts, StepQueues DEF Texts
    <3>2. Free(msgs) # {} /\ msgs' = Publish(msgs, m) /\ t \in PRScans
      BY <2>4 DEF AnnotationStart, AwaitedPR
    <3>3. \E n \in MsgIds : New(n, m)
      BY <1>0, <3>1, <3>2, PublishNew
    <3>. QED
      BY <2>1, <3>2, <3>3 DEF Started1
  <2>. QED
    BY <1>2, <2>2, <2>3, <2>4 DEF StartStep, WorkflowStartFails
<1>3. ASSUME NEW k \in MsgIds, ExpireAwait(k) \/ ExpireTwice(k)
      PROVE  (\A j \in MsgIds : InMonitor(j)) /\ UNCHANGED notified
  <2>. DEFINE q == PollQueueOf(msgs[k].queue)
              ns == DeadLetter(msgs, k, q)
              m == [msgs[k] EXCEPT !.queue = q]
  <2>1. /\ msgs[k].queue \in MonitorQueues /\ msgs[k].queue # NoQueue
        /\ q \in Queues /\ q \in MonitorQueues
    BY <1>3, QueueFacts DEF ExpireAwait, ExpireTwice, Awaiting, PollQueueOf, Queues, MonitorQueues
  <2>2. msgs[k] \in Message /\ msgs[k].text = "await"
    BY <1>0, <2>1, UsedIsMessage DEF Routed, Route
  <2>3. m \in Message /\ m.queue = q /\ m.text = "await"
    BY <2>1, <2>2 DEF Message
  <2>4. /\ ns \in Pool /\ ns[k].queue = q /\ ns[k].text = "await"
        /\ \A j \in MsgIds \ {k} : ns[j] = msgs[j]
    BY <1>0, <2>1, <2>2, DeadLetterFacts
  <2>5. ExpireAwait(k) => msgs' = ns
    BY DEF ExpireAwait
  <2>6. ExpireTwice(k) => msgs' = Publish(ns, m) /\ Free(msgs) # {}
    BY DEF ExpireTwice
  <2>7. UNCHANGED notified
    BY <1>3 DEF ExpireAwait, ExpireTwice
  <2>. HIDE DEF q, ns, m
  <2>8. CASE ExpireAwait(k)
    BY <2>1, <2>4, <2>5, <2>7, <2>8, OutFacts DEF InMonitor
  <2>9. CASE ExpireTwice(k)
    <3>1. Free(ns) # {}
      <4>1. PICK j \in MsgIds : msgs[j].queue = NoQueue
        BY <2>6, <2>9 DEF Free
      <4>. QED
        BY <4>1, <2>1, <2>4 DEF Free
    <3>2. PICK n \in MsgIds : /\ ns[n].queue = NoQueue /\ msgs'[n] = m
                             /\ \A j \in MsgIds \ {n} : msgs'[j] = ns[j]
      BY <2>3, <2>4, <2>6, <2>9, <3>1, PublishFacts
    <3>3. n # k /\ msgs[n].queue = NoQueue
      BY <3>2, <2>1, <2>4, OutFacts
    <3>. QED
      BY <2>1, <2>3, <2>4, <2>7, <3>2, <3>3, OutFacts DEF InMonitor
  <2>. QED
    BY <1>3, <2>8, <2>9
<1>4. ASSUME NEW w \in Pollers, PollStep(w) \/ PollCrash(w)
      PROVE  \/ (\A j \in MsgIds : InMonitor(j)) /\ UNCHANGED notified
             \/ \E n \in MsgIds : Notified1(w, n)
  <2>. DEFINE i == poller[w].id
  <2>1. /\ i \in MsgIds /\ msgs[i].queue \in PollQueues /\ msgs[i].queue # NoQueue
        /\ msgs[i].queue \in MonitorQueues /\ msgs[i].queue \notin OutQueues
        /\ msgs[i].text = "await" /\ ScanOf(w) \in Scans /\ msgs[i].ttl \in Delays
    <3>1. Busy(w)
      BY <1>0, <1>4, HandlerStep
    <3>2. i \in MsgIds /\ msgs[i].queue \in PollQueues
      BY <1>0, <3>1 DEF HandlersHold
    <3>. QED
      BY <1>0, <3>1, <3>2, HandlerFacts, OutFacts DEF Routed, Route
  <2>2. CASE PollExpired(w) \/ PollNoChannel(w) \/ PollResponseException(w) \/ PollRequeueFails(w)
             \/ PollAck(w)
    <3>1. msgs' = Ack(msgs, i) /\ UNCHANGED notified
      BY <2>2 DEF PollExpired, PollNoChannel, PollResponseException, PollRequeueFails, PollAck, GiveUp
    <3>. QED
      BY <1>0, <2>1, <3>1, AckFacts DEF InMonitor
  <2>3. CASE PollRequestException(w) \/ PollInspect(w) \/ PollNotifyFails(w)
    BY <1>u, <2>3 DEF PollRequestException, PollInspect, PollNotifyFails
  <2>4. CASE PollRequeueRefused(w) \/ PollCrash(w)
    <3>1. msgs' = Requeue(msgs, i) /\ UNCHANGED notified
      BY <2>4 DEF PollRequeueRefused, PollCrash
    <3>. QED
      BY <1>0, <2>1, <3>1, RequeueFacts DEF InMonitor
  <2>5. CASE PollRequeue(w)
    <3>1. /\ Free(msgs) # {} /\ UNCHANGED notified
          /\ msgs' = Publish(msgs, Msg(AwaitedScans, ScanOf(w), NextDelay(msgs[i].ttl), "await"))
      BY <2>5 DEF PollRequeue
    <3>2. AwaitedScans \in MonitorQueues /\ NextDelay(msgs[i].ttl) \in Delays
      BY <2>1, DelayFacts DEF MonitorQueues
    <3>. QED
      BY <1>0, <2>1, <3>1, <3>2, AwaitInMonitor
  <2>6. CASE PollNotify(w)
    <3>. DEFINE m == NextStep(ScanOf(w), poller[w].seen)
    <3>1. m \in Message
      BY <2>1, MsgFacts, DelayFacts, StepQueues DEF NextStep, Texts
    <3>2. Free(msgs) # {} /\ msgs' = Publish(msgs, m) /\ poller[w].pc = "notify"
      BY <2>6 DEF PollNotify
    <3>3. \E n \in MsgIds : New(n, m)
      BY <1>0, <3>1, <3>2, PublishNew
    <3>. QED
      BY <2>6, <3>2, <3>3 DEF Notified1
  <2>. QED
    BY <1>4, <2>2, <2>3, <2>4, <2>5, <2>6 DEF PollStep
<1>5. ASSUME NEW w \in Pollers, NEW k \in MsgIds, PollReceive(w, k)
      PROVE  (\A j \in MsgIds : InMonitor(j)) /\ UNCHANGED notified
  <2>1. /\ msgs'[k].queue \in PollQueues /\ msgs'[k].queue = msgs[k].queue
        /\ msgs'[k].text = msgs[k].text /\ \A j \in MsgIds \ {k} : msgs'[j] = msgs[j]
    BY <1>0, <1>5, ReceiveStep
  <2>2. UNCHANGED notified
    BY <1>5 DEF PollReceive
  <2>. QED
    BY <2>1, <2>2, OutFacts DEF InMonitor, Routed, Route
<1>. QED
  BY <1>u, <1>1, <1>2, <1>3, <1>4, <1>5 DEF Next
-----------------------------------------------------------------------------
(***************************************************************************)
(* The comments of the pull request.                                        *)
(***************************************************************************)

(* A set of numbers has a least one, and a greatest one if it is bounded.   *)
LEMMA LeastNumber ==
  ASSUME NEW S, S \subseteq Nat, S # {}
  PROVE  \E x \in S : \A y \in S : x <= y
<1>. DEFINE R == OpToRel(<, Nat)
<1>1. IsWellFoundedOn(R, Nat)
  BY NatLessThanWellFounded
<1>2. \A x, y \in Nat : y < x => <<y, x>> \in R
  BY DEF OpToRel
<1>. HIDE DEF R
<1>3. PICK x \in S : \A y \in S : ~(<<y, x>> \in R)
  BY <1>1, WFMin
<1>4. \A y \in S : ~(y < x)
  BY <1>2, <1>3
<1>. QED
  BY <1>4

(* So Min and Max of a non-empty bounded set are members of it.             *)
LEMMA MinMaxFacts ==
  ASSUME NEW N \in Nat, NEW S, S \subseteq 1..N, S # {}
  PROVE  D!Max(S) \in S /\ D!Min(S) \in S
<1>0. S \subseteq Nat
  OBVIOUS
<1>1. \E x \in S : \A y \in S : x <= y
  BY <1>0, LeastNumber
<1>2. \E x \in S : \A y \in S : x >= y
  <2>. DEFINE T == {N - x : x \in S}
  <2>1. T \subseteq Nat /\ T # {}
    <3>1. \A x \in S : N - x \in Nat
      OBVIOUS
    <3>2. PICK x : x \in S
      OBVIOUS
    <3>3. N - x \in T
      BY <3>2
    <3>. QED
      BY <3>1, <3>3
  <2>2. PICK z \in T : \A y \in T : z <= y
    BY <2>1, LeastNumber
  <2>3. PICK x \in S : z = N - x
    OBVIOUS
  <2>4. \A y \in S : N - x <= N - y
    BY <2>2, <2>3
  <2>. QED
    BY <2>4
<1>. QED
  BY <1>1, <1>2 DEF D!Max, D!Min

(* The thread as a function, and the identities of CxOneFlow's comments.    *)
LEMMA ThreadFacts ==
  ASSUME thread \in Seq(Comments)
  PROVE  /\ Len(thread) \in Nat /\ DOMAIN thread = 1..Len(thread)
         /\ \A n \in 1..Len(thread) : thread[n] \in Comments /\ thread[n].ver \in Nat
         /\ D!Own \subseteq 1..Len(thread)
         /\ \A n \in 1..Len(thread) : n \in D!Own <=> thread[n].text # "other"
<1>1. Len(thread) \in Nat /\ DOMAIN thread = 1..Len(thread)
  BY LenProperties
<1>2. \A n \in 1..Len(thread) : thread[n] \in Comments
  BY ElementOfSeq
<1>. QED
  BY <1>1, <1>2 DEF D!Own, Comments

(* How often a comment may be posted.                                       *)
LEMMA RepeatsFacts == D!Repeats \in Nat \ {0}
BY SystemAssumption DEF D!Repeats

(* The search finds nothing or a comment of CxOneFlow.                      *)
LEMMA TargetFacts ==
  ASSUME thread \in Seq(Comments)
  PROVE  /\ D!Target \in 0..Len(thread) /\ (D!Target # 0 => D!Target \in D!Own)
         /\ D!Target = 0 <=> D!Live \cap D!Searched = {}
<1>1. Len(thread) \in Nat /\ D!Own \subseteq 1..Len(thread) /\ D!Live \subseteq D!Own
  BY ThreadFacts DEF D!Live
<1>2. CASE D!Live \cap D!Searched = {}
  BY <1>1, <1>2 DEF D!Target
<1>3. CASE D!Live \cap D!Searched # {}
  <2>. DEFINE S == D!Live \cap D!Searched
  <2>0. S \subseteq 1..Len(thread)
    BY <1>1
  <2>1. D!Max(S) \in S /\ D!Min(S) \in S
    BY <1>1, <1>3, <2>0, MinMaxFacts
  <2>2. D!Target = D!Max(S) \/ D!Target = D!Min(S)
    BY <1>3 DEF D!Target
  <2>3. S \subseteq D!Own /\ S \subseteq 1..Len(thread)
    BY <1>1
  <2>. HIDE DEF S
  <2>4. D!Target \in S
    BY <2>1, <2>2
  <2>5. D!Target \in 1..Len(thread) /\ D!Target \in D!Own
    BY <2>3, <2>4
  <2>. QED
    BY <1>1, <1>3, <2>5
<1>. QED
  BY <1>2, <1>3

(* The changes of the thread: k comments c are added, or comment m is set.  *)
Adds(k, c) == /\ Len(thread') = Len(thread) + k
              /\ \A n \in 1..Len(thread) : thread'[n] = thread[n]
              /\ \A n \in (Len(thread) + 1)..(Len(thread) + k) : thread'[n] = c

Sets(m, c) == /\ Len(thread') = Len(thread) /\ m \in 1..Len(thread) /\ thread'[m] = c
              /\ \A n \in 1..Len(thread) : n # m => thread'[n] = thread[n]

(* Creating comments: the thread grows by copies of the comment.            *)
LEMMA AddsFacts ==
  ASSUME thread \in Seq(Comments), NEW c \in Comments, NEW k \in Nat
  PROVE  /\ thread' = Append(thread, c) => thread' \in Seq(Comments) /\ Adds(1, c)
         /\ thread' = thread \o [n \in 1..k |-> c] => thread' \in Seq(Comments) /\ Adds(k, c)
<1>0. Len(thread) \in Nat
  BY ThreadFacts
<1>1. ASSUME thread' = Append(thread, c)
      PROVE  thread' \in Seq(Comments) /\ Adds(1, c)
  <2>1. thread' \in Seq(Comments)
    BY <1>1
  <2>2. /\ Len(thread') = Len(thread) + 1 /\ thread'[Len(thread) + 1] = c
        /\ \A n \in 1..Len(thread) : thread'[n] = thread[n]
    BY <1>1
  <2>. QED
    BY <1>0, <2>1, <2>2 DEF Adds
<1>2. ASSUME thread' = thread \o [n \in 1..k |-> c]
      PROVE  thread' \in Seq(Comments) /\ Adds(k, c)
  <2>. DEFINE e == [n \in 1..k |-> c]
  <2>1. e \in Seq(Comments) /\ Len(e) = k /\ \A n \in 1..k : e[n] = c
    OBVIOUS
  <2>2. thread' = thread \o e
    BY <1>2
  <2>. HIDE DEF e
  <2>3. /\ thread' \in Seq(Comments) /\ Len(thread') = Len(thread) + k
        /\ \A n \in 1..(Len(thread) + k) :
             thread'[n] = IF n <= Len(thread) THEN thread[n] ELSE e[n - Len(thread)]
    BY <2>1, <2>2, ConcatProperties
  <2>4. \A n \in 1..Len(thread) : thread'[n] = thread[n]
    BY <1>0, <2>3
  <2>5. \A n \in (Len(thread) + 1)..(Len(thread) + k) : thread'[n] = c
    <3>1. SUFFICES ASSUME NEW n \in (Len(thread) + 1)..(Len(thread) + k)
                   PROVE  thread'[n] = c
      OBVIOUS
    <3>2. thread'[n] = e[n - Len(thread)] /\ n - Len(thread) \in 1..k
      BY <1>0, <2>3
    <3>. QED
      BY <2>1, <3>2
  <2>. QED
    BY <2>3, <2>4, <2>5 DEF Adds
<1>. QED
  BY <1>1, <1>2

(* Updating a comment: only that one changes.                               *)
LEMMA SetsFacts ==
  ASSUME thread \in Seq(Comments), NEW c \in Comments, NEW m \in 1..Len(thread),
         thread' = [thread EXCEPT ![m] = c]
  PROVE  thread' \in Seq(Comments) /\ Sets(m, c)
<1>1. Len(thread) \in Nat
  BY ThreadFacts
<1>2. /\ [thread EXCEPT ![m] = c] \in Seq(Comments)
      /\ Len([thread EXCEPT ![m] = c]) = Len(thread)
      /\ \A j \in 1..Len(thread) : [thread EXCEPT ![m] = c][j] = IF j = m THEN c ELSE thread[j]
  BY ExceptSeq
<1>. QED
  BY <1>1, <1>2 DEF Sets
-----------------------------------------------------------------------------
(***************************************************************************)
(* A consumer works on one message: it keeps it, perhaps giving it back, or *)
(* acknowledges it.                                                         *)
(***************************************************************************)
Keeps(i) == /\ \A j \in MsgIds \ {i} : msgs'[j] = msgs[j]
            /\ msgs'[i].queue = msgs[i].queue /\ msgs'[i].scan = msgs[i].scan
            /\ msgs'[i].text = msgs[i].text

Drops(i) == msgs'[i] = NoMsg /\ \A j \in MsgIds \ {i} : msgs'[j] = msgs[j]

(* Ack, nack and delivery of a message, in these terms.                     *)
LEMMA PoolSteps ==
  ASSUME msgs \in Pool, NEW i \in MsgIds, msgs[i].queue # NoQueue
  PROVE  /\ msgs' = msgs => Keeps(i) /\ msgs' \in Pool
         /\ msgs' = Ack(msgs, i) => Drops(i) /\ msgs' \in Pool
         /\ msgs' = Requeue(msgs, i) => Keeps(i) /\ msgs' \in Pool
         /\ msgs' = Deliver(msgs, i) => Keeps(i) /\ msgs' \in Pool /\ msgs'[i].held
BY AckFacts, RequeueFacts, DeliverFacts DEF Keeps, Drops

(* Scan polling does not notice the step of another consumer.               *)
LEMMA OutsideStep ==
  ASSUME IInv, Routed, AwaitedPR, NEW i \in MsgIds, msgs[i].queue \in OutQueues,
         msgs' \in Pool, Keeps(i) \/ Drops(i),
         scan' = scan, dropBy' = dropBy, start' = start, poller' = poller, notified' = notified,
         stopped' = stopped, disturb' \in [Scans -> 0..MaxDisturb],
         \A s \in Scans : disturb'[s] >= disturb[s]
  PROVE  IInv' /\ Routed' /\ AwaitedPR'
<1>0. TypeOK /\ HandlersHold /\ Exclusive /\ SeenFaithful /\ Fresh
  BY PollParts
<1>1. TypeOK'
  BY <1>0 DEF TypeOK, Pool
<1>2. \A w \in Pollers : Busy(w) => /\ poller[w].id \in MsgIds \ {i}
                                    /\ msgs'[poller[w].id] = msgs[poller[w].id]
  BY <1>0, OutFacts DEF HandlersHold, Keeps, Drops
<1>3. HandlersHold' /\ Exclusive'
  BY <1>0, <1>2 DEF HandlersHold, Exclusive, Busy
<1>4. SeenFaithful'
  BY <1>0, <1>2 DEF SeenFaithful, Busy, ScanOf, Finished
<1>5. \A s \in Scans : Copies(s)' = Copies(s)
  <2>1. msgs[i].queue \notin MonitorQueues /\ msgs'[i].queue \notin MonitorQueues
    BY OutFacts DEF Keeps, Drops, NoMsg
  <2>2. \A j \in MsgIds \ {i} : msgs'[j] = msgs[j]
    BY DEF Keeps, Drops
  <2>. QED
    BY <2>1, <2>2 DEF Copies
<1>6. \A s \in Scans : Active(s)' = Active(s)
  BY <1>5 DEF Active, Spent
<1>7. Fresh' /\ MonitoringSurvives'
  BY <1>5, <1>6 DEF IInv, Fresh, Unstarted, MonitoringSurvives
<1>8. FeedbackBound'
  <2>1. SUFFICES ASSUME NEW s \in Scans
                 PROVE  Cardinality(Active(s)') + notified'[s] <= 1 + disturb'[s]
    BY DEF FeedbackBound
  <2>2. /\ notified[s] \in Nat /\ disturb[s] \in Nat /\ disturb'[s] \in Nat /\ disturb'[s] >= disturb[s]
    BY <1>0, PollingAssumption DEF TypeOK
  <2>3. Cardinality(Active(s)) \in Nat
    BY PollingAssumption, FS_Subset, FS_CardinalityType DEF Active, Copies
  <2>4. Cardinality(Active(s)) + notified[s] <= 1 + disturb[s]
    BY DEF IInv, FeedbackBound
  <2>. QED
    BY <1>6, <2>2, <2>3, <2>4
<1>9. OutcomeFaithful'
  <2>1. \A j \in MsgIds : msgs'[j] = NoMsg \/ (msgs'[j].text = msgs[j].text /\ msgs'[j].scan = msgs[j].scan)
    BY DEF Keeps, Drops
  <2>. QED
    BY <2>1 DEF IInv, OutcomeFaithful, NoMsg
<1>10. Routed'
  <2>1. \A j \in MsgIds : Route(msgs[j])
    BY DEF Routed
  <2>2. Route(msgs'[i])
    <3>1. CASE Drops(i)
      BY <3>1, RouteFacts DEF Drops
    <3>2. CASE Keeps(i)
      BY <2>1, <3>2 DEF Keeps, Route
    <3>. QED
      BY <3>1, <3>2
  <2>3. \A j \in MsgIds \ {i} : Route(msgs'[j])
    BY <2>1 DEF Keeps, Drops
  <2>. QED
    BY <2>2, <2>3 DEF Routed
<1>11. AwaitedPR'
  BY DEF AwaitedPR
<1>. QED
  BY <1>1, <1>3, <1>4, <1>7, <1>8, <1>9, <1>10, <1>11 DEF IInv

(* Nor do the consumers notice a step on a message that is not theirs.      *)
LEMMA DecoUnmoved ==
  ASSUME DecoHold, DecoAlone, deco' = deco,
         \A d \in D!Decorators : Decorating(d) => msgs'[deco[d].id] = msgs[deco[d].id]
  PROVE  DecoHold' /\ DecoAlone'
BY DEF DecoHold, DecoAlone, Decorating, D!QueueOf, D!Decorators

(* The same for the generators.                                             *)
LEMMA GenUnmoved ==
  ASSUME GenHold, GenAlone, gen' = gen,
         \A g \in Generators : Generating(g) => msgs'[gen[g].id] = msgs[gen[g].id]
  PROVE  GenHold' /\ GenAlone'
BY DEF GenHold, GenAlone, Generating

(* The message of a working decorator.                                      *)
LEMMA DecoratorFacts ==
  ASSUME IInv, Routed, DecoHold, NEW d \in D!Decorators, Decorating(d)
  PROVE  /\ deco[d].id \in MsgIds /\ msgs[deco[d].id].queue \in {PRFeedback, PRAnnotating}
         /\ msgs[deco[d].id].queue \in OutQueues /\ msgs[deco[d].id].queue # NoQueue
         /\ D!DecoScan(d) \in PRScans /\ D!DecoScan(d) \in Scans /\ D!DecoText(d) \in OutTexts
<1>1. deco[d].id \in MsgIds /\ msgs[deco[d].id].queue \in {PRFeedback, PRAnnotating}
  BY OutFacts DEF DecoHold
<1>2. msgs[deco[d].id].queue \in OutQueues /\ msgs[deco[d].id].queue # NoQueue
  BY <1>1, OutFacts DEF OutQueues
<1>3. Route(msgs[deco[d].id])
  BY <1>1 DEF Routed
<1>. QED
  BY <1>1, <1>2, <1>3 DEF Route, D!DecoScan, D!DecoText, OutTexts, Scans

(* And of a working generator.                                              *)
LEMMA GeneratorFacts ==
  ASSUME IInv, Routed, GenHold, NEW g \in Generators, Generating(g)
  PROVE  /\ gen[g].id \in MsgIds /\ msgs[gen[g].id].queue = SarifGen
         /\ msgs[gen[g].id].queue \in OutQueues /\ msgs[gen[g].id].queue # NoQueue
         /\ G!GenScan(g) \in PushScans /\ G!GenScan(g) \in Scans
         /\ msgs[gen[g].id].text \in {"results", "error"}
<1>1. gen[g].id \in MsgIds /\ msgs[gen[g].id].queue = SarifGen
  BY DEF GenHold
<1>2. msgs[gen[g].id].queue \in OutQueues /\ msgs[gen[g].id].queue # NoQueue
  BY <1>1, OutFacts DEF OutQueues
<1>3. Route(msgs[gen[g].id])
  BY <1>1 DEF Routed
<1>. QED
  BY <1>1, <1>2, <1>3 DEF Route, G!GenScan, Scans
-----------------------------------------------------------------------------
(***************************************************************************)
(* The steps of a decorator.                                                *)
(***************************************************************************)

(* CxOneFlow's comments stay its own and the others stay as they are.       *)
ThreadGrows == /\ Len(thread') >= Len(thread) /\ D!Own \subseteq D!Own'
               /\ \A n \in 1..Len(thread) : n \notin D!Own => thread'[n] = thread[n]

(* Creating a comment, or updating one of CxOneFlow, is such a change.      *)
LEMMA ThreadEffect ==
  ASSUME thread \in Seq(Comments), thread' \in Seq(Comments)
  PROVE  /\ thread' = thread => ThreadGrows
         /\ \A k \in Nat : \A c \in Comments : Adds(k, c) => ThreadGrows
         /\ \A m \in D!Own : \A c \in Comments : Sets(m, c) /\ c.text # "other" => ThreadGrows
<1>0. Len(thread) \in Nat /\ Len(thread') \in Nat
  BY LenProperties
<1>1. D!Own \subseteq 1..Len(thread) /\ \A n \in 1..Len(thread) : n \in D!Own <=> thread[n].text # "other"
  BY ThreadFacts
<1>2. \A n \in 1..Len(thread') : n \in D!Own' <=> thread'[n].text # "other"
  <2>1. DOMAIN thread' = 1..Len(thread')
    BY LenProperties
  <2>. QED
    BY <2>1 DEF D!Own
<1>3. thread' = thread => ThreadGrows
  BY <1>0 DEF ThreadGrows, D!Own
<1>4. ASSUME NEW k \in Nat, NEW c \in Comments, Adds(k, c)
      PROVE  ThreadGrows
  BY <1>0, <1>1, <1>2, <1>4 DEF Adds, ThreadGrows
<1>5. ASSUME NEW m \in D!Own, NEW c \in Comments, Sets(m, c), c.text # "other"
      PROVE  ThreadGrows
  BY <1>0, <1>1, <1>2, <1>5 DEF Sets, ThreadGrows
<1>. QED
  BY <1>3, <1>4, <1>5

(* What a step may be: the message is acknowledged after the outcome was    *)
(* written or although it was not; it is given back; the comment was looked *)
(* for; it was written; or it was, and the handler failed all the same.     *)
DecoSame == thread' = thread /\ shown' = shown
DecoGone(d) == deco'[d] = D!DecoIdle /\ Drops(deco[d].id) /\ DecoSame
DecoDone(d) == DecoGone(d) /\ lost' = lost /\ (~enabled \/ deco[d].pc = "written")
DecoLost(d) == DecoGone(d) /\ lost' = lost \cup D!LostNow(d)
DecoBack(d) == deco'[d] = D!DecoIdle /\ Keeps(deco[d].id) /\ DecoSame /\ lost' = lost

DecoFound(d) ==
  /\ deco'[d].pc = "found" /\ deco'[d].id = deco[d].id /\ deco'[d].target = D!Target
  /\ msgs' = msgs /\ DecoSame /\ lost' = lost /\ deco[d].pc = "received"

Wrote(d) ==
  \/ deco[d].target = 0 /\ \E k \in 1..D!Repeats : Adds(k, D!Comment(d, 0))
  \/ deco[d].target # 0 /\ \E v \in Nat : Sets(deco[d].target, D!Comment(d, v))

SaidIt(d) ==
  /\ deco[d].pc = "found" /\ Wrote(d)
  /\ shown' = [shown EXCEPT ![D!DecoScan(d)] = @ \cup {D!DecoText(d)}]

DecoWrote(d) ==
  /\ deco'[d].pc = "written" /\ deco'[d].id = deco[d].id
  /\ deco'[d].target = deco[d].target /\ msgs' = msgs /\ lost' = lost /\ SaidIt(d)

DecoUnheard(d) ==
  /\ deco'[d] = D!DecoIdle /\ Drops(deco[d].id) /\ lost' = lost \cup D!LostNow(d) /\ SaidIt(d)

DecoChange(d) == \/ DecoDone(d) \/ DecoLost(d) \/ DecoBack(d) \/ DecoFound(d)
                 \/ DecoWrote(d) \/ DecoUnheard(d)

(* The rest of every step.                                                  *)
DecoFrame(d) ==
  /\ msgs' \in Pool /\ (Keeps(deco[d].id) \/ Drops(deco[d].id))
  /\ disturb' \in [Scans -> 0..MaxDisturb] /\ \A s \in Scans : disturb'[s] >= disturb[s]
  /\ scm' = scm /\ enabled' = enabled /\ \A e \in D!Decorators \ {d} : deco'[e] = deco[e]
  /\ away' = away /\ cleared' = cleared

(* Every step of exec_pr_decorate is one of these.                          *)
LEMMA DecoEffect ==
  ASSUME SInv, NEW d \in D!Decorators, D!DecoStep(d) \/ D!DecoCrash(d)
  PROVE  Decorating(d) /\ DecoTypes' /\ DecoFrame(d) /\ DecoChange(d)
<1>. DEFINE i == deco[d].id
            s == D!DecoScan(d)
            x == D!DecoText(d)
<1>1. Decorating(d)
  BY DEF D!DecoStep, D!DecoCrash, Decorating, D!DecoDisabled, D!DecoRetry, D!DecoAbort, D!DecoFind,
         D!DecoCreate, D!DecoCreateUnheard, D!Creates, D!DecoUpdate, D!DecoUpdateUnheard, D!Updates,
         D!DecoConflict, D!DecoAck
<1>2. /\ i \in MsgIds /\ msgs[i].queue # NoQueue /\ s \in PRScans /\ s \in Scans /\ x \in OutTexts
  BY <1>1, DecoratorFacts DEF SInv
<1>3. msgs \in Pool /\ disturb \in [Scans -> 0..MaxDisturb] /\ MaxDisturb \in Nat
  BY PollParts, PollingAssumption DEF SInv, TypeOK
<1>4. /\ msgs' = msgs => Keeps(i) /\ msgs' \in Pool
      /\ msgs' = Ack(msgs, i) => Drops(i) /\ msgs' \in Pool
      /\ msgs' = Requeue(msgs, i) => Keeps(i) /\ msgs' \in Pool
  BY <1>2, <1>3, PoolSteps
<1>5. /\ deco \in [D!Decorators -> DecoRec] /\ thread \in Seq(Comments)
      /\ shown \in [PRScans -> SUBSET OutTexts] /\ lost \in SUBSET PRScans /\ enabled \in BOOLEAN
  BY DEF SInv, DecoTypes
<1>6. D!DecoIdle \in DecoRec /\ deco[d] \in DecoRec
  BY <1>5 DEF D!DecoIdle, DecoRec
<1>7. disturb' = disturb => disturb' \in [Scans -> 0..MaxDisturb] /\ \A t \in Scans : disturb'[t] >= disturb[t]
  BY <1>3
<1>8. D!Ack(msgs, i) = Ack(msgs, i) /\ D!Requeue(msgs, i) = Requeue(msgs, i)
  BY SameBroker
<1>9. D!LostNow(d) \in SUBSET PRScans
  BY <1>2 DEF D!LostNow
<1>. HIDE DEF i, s, x
<1>10. ASSUME deco' = [deco EXCEPT ![d] = D!DecoIdle]
       PROVE  /\ deco' \in [D!Decorators -> DecoRec] /\ deco'[d] = D!DecoIdle
              /\ \A e \in D!Decorators \ {d} : deco'[e] = deco[e]
  BY <1>5, <1>6, <1>10
<1>11. ASSUME D!DecoEnds(d), lost' \in SUBSET PRScans
       PROVE  DecoTypes' /\ DecoFrame(d) /\ DecoGone(d)
  <2>1. /\ msgs' = Ack(msgs, i) /\ deco' = [deco EXCEPT ![d] = D!DecoIdle]
        /\ disturb' = disturb /\ scm' = scm /\ enabled' = enabled /\ thread' = thread /\ shown' = shown
        /\ away' = away /\ cleared' = cleared
    BY <1>8, <1>11 DEF D!DecoEnds, i
  <2>. QED
    BY <1>4, <1>5, <1>7, <1>10, <1>11, <2>1 DEF DecoTypes, DecoFrame, DecoGone, DecoSame, i
<1>12. CASE D!DecoDisabled(d) \/ D!DecoAck(d)
  <2>1. D!DecoEnds(d) /\ lost' = lost /\ (~enabled \/ deco[d].pc = "written")
    BY <1>12 DEF D!DecoDisabled, D!DecoAck
  <2>. QED
    BY <1>1, <1>5, <1>11, <2>1 DEF DecoChange, DecoDone
<1>13. CASE D!DecoAbort(d) \/ D!DecoConflict(d)
  <2>1. D!DecoEnds(d) /\ lost' = lost \cup D!LostNow(d)
    BY <1>13 DEF D!DecoAbort, D!DecoConflict
  <2>. QED
    BY <1>1, <1>5, <1>9, <1>11, <2>1 DEF DecoChange, DecoLost
<1>14. CASE D!DecoRetry(d) \/ D!DecoCrash(d)
  <2>1. /\ msgs' = Requeue(msgs, i) /\ deco' = [deco EXCEPT ![d] = D!DecoIdle]
        /\ scm' = scm /\ enabled' = enabled /\ thread' = thread /\ shown' = shown /\ lost' = lost
        /\ away' = away /\ cleared' = cleared
    BY <1>8, <1>14 DEF D!DecoRetry, D!DecoCrash, i
  <2>2. disturb' = disturb \/ (disturb[s] < MaxDisturb /\ disturb' = [disturb EXCEPT ![s] = @ + 1])
    BY <1>14 DEF D!DecoRetry, D!DecoCrash, s
  <2>3. disturb' \in [Scans -> 0..MaxDisturb] /\ \A t \in Scans : disturb'[t] >= disturb[t]
    BY <1>2, <1>3, <2>2
  <2>. QED
    BY <1>1, <1>4, <1>5, <1>10, <2>1, <2>3 DEF DecoTypes, DecoFrame, DecoChange, DecoBack, DecoSame, i
<1>15. CASE D!DecoFind(d)
  <2>1. /\ deco[d].pc = "received" /\ msgs' = msgs /\ disturb' = disturb
        /\ scm' = scm /\ enabled' = enabled /\ thread' = thread /\ shown' = shown /\ lost' = lost
        /\ away' = away /\ cleared' = cleared
        /\ deco' = [deco EXCEPT ![d].pc = "found", ![d].target = D!Target,
                                ![d].ver = IF D!Target = 0 THEN 0 ELSE thread[D!Target].ver]
    BY <1>15 DEF D!DecoFind
  <2>. DEFINE v == IF D!Target = 0 THEN 0 ELSE thread[D!Target].ver
  <2>2. D!Target \in Nat /\ v \in Nat
    <3>1. D!Target \in 0..Len(thread) /\ Len(thread) \in Nat
          /\ \A n \in 1..Len(thread) : thread[n].ver \in Nat
      BY <1>5, TargetFacts, ThreadFacts
    <3>. QED
      BY <3>1
  <2>3. deco' = [deco EXCEPT ![d] = [deco[d] EXCEPT !.pc = "found", !.target = D!Target, !.ver = v]]
    BY <2>1
  <2>. HIDE DEF v
  <2>4. [deco[d] EXCEPT !.pc = "found", !.target = D!Target, !.ver = v] \in DecoRec
    BY <1>6, <2>2 DEF DecoRec
  <2>5. /\ deco' \in [D!Decorators -> DecoRec] /\ \A e \in D!Decorators \ {d} : deco'[e] = deco[e]
        /\ deco'[d].pc = "found" /\ deco'[d].id = deco[d].id /\ deco'[d].target = D!Target
    <3>1. /\ deco'[d] = [deco[d] EXCEPT !.pc = "found", !.target = D!Target, !.ver = v]
          /\ deco' \in [D!Decorators -> DecoRec] /\ \A e \in D!Decorators \ {d} : deco'[e] = deco[e]
      BY <1>5, <2>3, <2>4
    <3>. QED
      BY <1>6, <3>1 DEF DecoRec
  <2>. QED
    BY <1>1, <1>4, <1>5, <1>7, <2>1, <2>5 DEF DecoTypes, DecoFrame, DecoChange, DecoFound, DecoSame, i
<1>16. \A v \in Nat : D!Comment(d, v) \in Comments
  BY <1>2 DEF D!Comment, Comments, Scans, s, x
<1>17. ASSUME D!Creates(d)
       PROVE  thread' \in Seq(Comments) /\ Wrote(d) /\ deco[d].pc = "found"
  <2>1. PICK k \in 1..D!Repeats : thread' = thread \o [n \in 1..k |-> D!Comment(d, 0)]
    BY <1>17 DEF D!Creates
  <2>2. k \in Nat /\ D!Comment(d, 0) \in Comments
    BY <1>16, RepeatsFacts
  <2>3. thread' \in Seq(Comments) /\ Adds(k, D!Comment(d, 0))
    BY <1>5, <2>1, <2>2, AddsFacts
  <2>. QED
    BY <1>17, <2>3 DEF D!Creates, Wrote
<1>18. ASSUME D!Updates(d)
       PROVE  thread' \in Seq(Comments) /\ Wrote(d) /\ deco[d].pc = "found"
  <2>. DEFINE v == IF scm = "bbdc" THEN deco[d].ver + 1 ELSE 0
  <2>1. /\ deco[d].target # 0 /\ thread' = [thread EXCEPT ![deco[d].target] = D!Comment(d, v)]
        /\ deco[d].pc = "found"
    BY <1>18 DEF D!Updates
  <2>2. v \in Nat /\ deco[d].target \in 1..Len(thread)
    <3>1. deco[d].ver \in Nat /\ Len(thread) \in Nat
      BY <1>5, <1>6, ThreadFacts DEF DecoRec
    <3>2. deco[d].target \in 0..Len(thread)
      BY DEF SInv, TargetsOwn
    <3>. QED
      BY <2>1, <3>1, <3>2
  <2>. HIDE DEF v
  <2>3. thread' \in Seq(Comments) /\ Sets(deco[d].target, D!Comment(d, v))
    BY <1>5, <1>16, <2>1, <2>2, SetsFacts
  <2>. QED
    BY <2>1, <2>2, <2>3 DEF Wrote
<1>19. ASSUME D!Says(d), D!Creates(d) \/ D!Updates(d)
       PROVE  thread' \in Seq(Comments) /\ SaidIt(d) /\ shown' \in [PRScans -> SUBSET OutTexts]
  <2>1. shown' = [shown EXCEPT ![s] = @ \cup {x}]
    BY <1>19 DEF D!Says, s, x
  <2>2. shown' \in [PRScans -> SUBSET OutTexts]
    BY <1>2, <1>5, <2>1
  <2>3. thread' \in Seq(Comments) /\ Wrote(d) /\ deco[d].pc = "found"
    BY <1>17, <1>18, <1>19
  <2>. QED
    BY <2>1, <2>2, <2>3 DEF SaidIt, s, x
<1>20. CASE D!DecoCreate(d) \/ D!DecoUpdate(d)
  <2>1. /\ msgs' = msgs /\ disturb' = disturb /\ scm' = scm /\ away' = away /\ cleared' = cleared
        /\ enabled' = enabled /\ lost' = lost /\ deco' = [deco EXCEPT ![d].pc = "written"]
        /\ D!Says(d) /\ (D!Creates(d) \/ D!Updates(d))
    BY <1>20 DEF D!DecoCreate, D!DecoUpdate, D!DecoWritten
  <2>2. /\ deco' \in [D!Decorators -> DecoRec] /\ \A e \in D!Decorators \ {d} : deco'[e] = deco[e]
        /\ deco'[d].pc = "written" /\ deco'[d].id = deco[d].id /\ deco'[d].target = deco[d].target
    <3>1. deco' = [deco EXCEPT ![d] = [deco[d] EXCEPT !.pc = "written"]]
      BY <2>1
    <3>2. [deco[d] EXCEPT !.pc = "written"] \in DecoRec
      BY <1>6 DEF DecoRec
    <3>3. /\ deco'[d] = [deco[d] EXCEPT !.pc = "written"]
          /\ deco' \in [D!Decorators -> DecoRec] /\ \A e \in D!Decorators \ {d} : deco'[e] = deco[e]
      BY <1>5, <3>1, <3>2
    <3>. QED
      BY <1>6, <3>3 DEF DecoRec
  <2>3. thread' \in Seq(Comments) /\ SaidIt(d) /\ shown' \in [PRScans -> SUBSET OutTexts]
    BY <1>19, <2>1
  <2>. QED
    BY <1>1, <1>4, <1>5, <1>7, <2>1, <2>2, <2>3 DEF DecoTypes, DecoFrame, DecoChange, DecoWrote, i
<1>21. CASE D!DecoCreateUnheard(d) \/ D!DecoUpdateUnheard(d)
  <2>1. /\ msgs' = Ack(msgs, i) /\ disturb' = disturb /\ scm' = scm /\ away' = away /\ cleared' = cleared
        /\ enabled' = enabled /\ lost' = lost \cup D!LostNow(d) /\ deco' = [deco EXCEPT ![d] = D!DecoIdle]
        /\ D!Says(d) /\ (D!Creates(d) \/ D!Updates(d))
    BY <1>8, <1>21 DEF D!DecoCreateUnheard, D!DecoUpdateUnheard, D!DecoUnheard, i
  <2>2. thread' \in Seq(Comments) /\ SaidIt(d) /\ shown' \in [PRScans -> SUBSET OutTexts]
    BY <1>19, <2>1
  <2>3. lost' \in SUBSET PRScans
    BY <1>5, <1>9, <2>1
  <2>. QED
    BY <1>1, <1>4, <1>5, <1>7, <1>10, <2>1, <2>2, <2>3 DEF DecoTypes, DecoFrame, DecoChange, DecoUnheard, i
<1>. QED
  BY <1>12, <1>13, <1>14, <1>15, <1>20, <1>21 DEF D!DecoStep

(* So no step of a decorator touches a comment of another user.             *)
LEMMA DecoThread ==
  ASSUME SInv, NEW d \in D!Decorators, Decorating(d), DecoTypes', DecoChange(d)
  PROVE  ThreadGrows
<1>1. thread \in Seq(Comments) /\ thread' \in Seq(Comments)
  BY DEF SInv, DecoTypes
<1>2. CASE thread' = thread
  BY <1>1, <1>2, ThreadEffect
<1>3. CASE Wrote(d)
  <2>1. D!DecoScan(d) \in Scans /\ D!DecoText(d) \in OutTexts
    BY DecoratorFacts DEF SInv
  <2>2. \A v \in Nat : D!Comment(d, v) \in Comments /\ D!Comment(d, v).text # "other"
    BY <2>1 DEF D!Comment, Comments, OutTexts
  <2>3. 1..D!Repeats \subseteq Nat /\ 0 \in Nat
    BY RepeatsFacts
  <2>4. CASE deco[d].target = 0 /\ \E k \in 1..D!Repeats : Adds(k, D!Comment(d, 0))
    BY <1>1, <2>2, <2>3, <2>4, ThreadEffect
  <2>5. CASE deco[d].target # 0 /\ \E v \in Nat : Sets(deco[d].target, D!Comment(d, v))
    <3>1. deco[d].target \in D!Own
      BY <2>5 DEF SInv, TargetsOwn
    <3>. QED
      BY <1>1, <2>2, <2>5, <3>1, ThreadEffect
  <2>. QED
    BY <1>3, <2>4, <2>5 DEF Wrote
<1>. QED
  BY <1>2, <1>3 DEF DecoChange, DecoDone, DecoLost, DecoBack, DecoFound, DecoWrote, DecoUnheard, SaidIt,
                     DecoGone, DecoSame

(* A target that was found stays one.                                       *)
LEMMA TargetStays ==
  ASSUME thread \in Seq(Comments), thread' \in Seq(Comments), ThreadGrows,
         NEW n \in 0..Len(thread), n # 0 => n \in D!Own
  PROVE  n \in 0..Len(thread') /\ (n # 0 => n \in D!Own')
<1>1. Len(thread) \in Nat /\ Len(thread') \in Nat
  BY LenProperties
<1>. QED
  BY <1>1 DEF ThreadGrows

(* The steps of a decorator keep the invariant.                             *)
LEMMA DecoKeepsSInv ==
  ASSUME SInv, NEW d \in D!Decorators, D!DecoStep(d) \/ D!DecoCrash(d), UNCHANGED <<pollVars, sarifVars>>
  PROVE  SInv'
<1>. DEFINE i == deco[d].id
<1>1. Decorating(d) /\ DecoTypes' /\ DecoFrame(d) /\ DecoChange(d)
  BY DecoEffect
<1>2. /\ scan' = scan /\ dropBy' = dropBy /\ start' = start /\ poller' = poller
      /\ notified' = notified /\ stopped' = stopped
      /\ sarifEnabled' = sarifEnabled /\ gen' = gen /\ sarifs' = sarifs /\ undelivered' = undelivered
  BY DEF pollVars, sarifVars
<1>3. i \in MsgIds /\ msgs[i].queue \in {PRFeedback, PRAnnotating} /\ msgs[i].queue \in OutQueues
  BY <1>1, DecoratorFacts DEF SInv
<1>4. \A j \in MsgIds \ {i} : msgs'[j] = msgs[j]
  BY <1>1 DEF DecoFrame, Keeps, Drops
<1>5. IInv' /\ Routed' /\ AwaitedPR'
  <2>1. msgs' \in Pool /\ (Keeps(i) \/ Drops(i))
        /\ disturb' \in [Scans -> 0..MaxDisturb] /\ \A s \in Scans : disturb'[s] >= disturb[s]
    BY <1>1 DEF DecoFrame
  <2>2. IInv /\ Routed /\ AwaitedPR
    BY DEF SInv
  <2>. HIDE DEF i
  <2>. QED
    BY <1>2, <1>3, <2>1, <2>2, OutsideStep
<1>6. \A e \in D!Decorators \ {d} : deco'[e] = deco[e]
  BY <1>1 DEF DecoFrame
<1>7. deco'[d].pc = "idle" \/ (deco'[d].id = i /\ msgs' = msgs)
  BY <1>1 DEF DecoChange, DecoDone, DecoLost, DecoGone, DecoBack, DecoFound, DecoWrote, DecoUnheard, D!DecoIdle
<1>8. DecoHold' /\ DecoAlone'
  <2>1. DecoHold /\ DecoAlone
    BY DEF SInv
  <2>2. \A e \in D!Decorators \ {d} : Decorating(e)' => Decorating(e) /\ deco[e].id \in MsgIds \ {i}
    BY <1>1, <1>6, <2>1 DEF Decorating, DecoHold, DecoAlone
  <2>3. \A e \in D!Decorators : Decorating(e)' => /\ Decorating(e) /\ deco'[e].id = deco[e].id
                                                  /\ msgs'[deco[e].id] = msgs[deco[e].id]
    <3>1. Decorating(d)' => deco'[d].id = i /\ msgs' = msgs
      BY <1>7 DEF Decorating
    <3>. QED
      BY <1>1, <1>4, <1>6, <2>2, <3>1
  <2>4. DecoHold'
    BY <2>1, <2>3 DEF DecoHold, D!QueueOf, D!Decorators
  <2>5. DecoAlone'
    BY <2>1, <2>3 DEF DecoAlone, D!Decorators
  <2>. QED
    BY <2>4, <2>5
<1>9. TargetsOwn'
  <2>1. thread \in Seq(Comments) /\ thread' \in Seq(Comments) /\ ThreadGrows
    BY <1>1, DecoThread DEF SInv, DecoTypes
  <2>2. \A e \in D!Decorators : /\ deco[e].target \in 0..Len(thread)
                                /\ deco[e].target # 0 => deco[e].target \in D!Own
    BY DEF SInv, TargetsOwn
  <2>3. /\ deco'[d].target \in 0..Len(thread)
        /\ deco'[d].target # 0 => deco'[d].target \in D!Own
    <3>1. deco'[d].target = 0 \/ deco'[d].target = deco[d].target \/ deco'[d].target = D!Target
      BY <1>1 DEF DecoChange, DecoDone, DecoLost, DecoGone, DecoBack, DecoFound, DecoWrote, DecoUnheard, D!DecoIdle
    <3>2. D!Target \in 0..Len(thread) /\ (D!Target # 0 => D!Target \in D!Own)
      BY <2>1, TargetFacts
    <3>3. Len(thread) \in Nat
      BY <2>1, ThreadFacts
    <3>. QED
      BY <2>2, <3>1, <3>2, <3>3
  <2>4. \A e \in D!Decorators : /\ deco'[e].target \in 0..Len(thread)
                                /\ deco'[e].target # 0 => deco'[e].target \in D!Own
    BY <1>6, <2>2, <2>3
  <2>5. \A e \in D!Decorators : /\ deco'[e].target \in 0..Len(thread')
                                /\ deco'[e].target # 0 => deco'[e].target \in D!Own'
    BY <2>1, <2>4, TargetStays
  <2>. QED
    BY <2>5 DEF TargetsOwn, D!Decorators
<1>10. GenTypes'
  BY <1>2 DEF SInv, GenTypes
<1>11. GenHold' /\ GenAlone'
  <2>1. \A g \in Generators : Generating(g) => msgs'[gen[g].id] = msgs[gen[g].id]
    BY <1>3, <1>4, OutFacts DEF SInv, GenHold
  <2>. QED
    BY <1>2, <2>1, GenUnmoved DEF SInv
<1>12. AwayOwn'
  <2>1. D!Own \subseteq D!Own' /\ away' = away /\ cleared' = cleared /\ scm' = scm
    BY <1>1, DecoThread DEF DecoFrame, ThreadGrows
  <2>. QED
    BY <2>1 DEF SInv, AwayOwn
<1>. QED
  BY <1>1, <1>5, <1>8, <1>9, <1>10, <1>11, <1>12 DEF SInv

(* Receiving a message: nobody else works on a message that is ready.       *)
LEMMA ReceiveEffect ==
  ASSUME IInv, Routed, AwaitedPR, NEW i \in MsgIds, NEW q \in OutQueues, i \in Ready(msgs, q),
         msgs' = Deliver(msgs, i), disturb' = disturb, UNCHANGED pollVars
  PROVE  /\ IInv' /\ Routed' /\ AwaitedPR' /\ Keeps(i)
         /\ msgs[i].queue = q /\ msgs'[i].queue = q /\ msgs'[i].held /\ ~msgs[i].held
         /\ \A j \in MsgIds : msgs[j].held => j # i /\ msgs'[j] = msgs[j]
<1>1. msgs \in Pool /\ disturb \in [Scans -> 0..MaxDisturb] /\ MaxDisturb \in Nat
  BY PollParts, PollingAssumption DEF TypeOK
<1>2. msgs[i].queue = q /\ msgs[i].queue # NoQueue /\ ~msgs[i].held
  BY OutFacts DEF Ready
<1>3. Keeps(i) /\ msgs' \in Pool /\ msgs'[i].held
  BY <1>1, <1>2, PoolSteps
<1>4. /\ scan' = scan /\ dropBy' = dropBy /\ start' = start /\ poller' = poller
      /\ notified' = notified /\ stopped' = stopped
  BY DEF pollVars
<1>5. disturb' \in [Scans -> 0..MaxDisturb] /\ \A s \in Scans : disturb'[s] >= disturb[s]
  BY <1>1
<1>6. IInv' /\ Routed' /\ AwaitedPR'
  BY <1>2, <1>3, <1>4, <1>5, OutsideStep
<1>. QED
  BY <1>2, <1>3, <1>6 DEF Keeps

(* A delivery to a decorator keeps the invariant.                           *)
LEMMA DecoReceiveKeepsSInv ==
  ASSUME SInv, NEW d \in D!Decorators, NEW i \in MsgIds, D!DecoReceive(d, i), UNCHANGED <<pollVars, sarifVars>>
  PROVE  SInv'
<1>. DEFINE r == [D!DecoIdle EXCEPT !.pc = "received", !.id = i]
<1>1. /\ UNCHANGED pollVars /\ sarifEnabled' = sarifEnabled /\ gen' = gen /\ sarifs' = sarifs
      /\ undelivered' = undelivered
  BY DEF sarifVars
<1>2. /\ i \in Ready(msgs, D!QueueOf(d)) /\ msgs' = Deliver(msgs, i) /\ deco' = [deco EXCEPT ![d] = r]
      /\ disturb' = disturb /\ enabled' = enabled /\ thread' = thread /\ shown' = shown /\ lost' = lost
      /\ scm' = scm /\ away' = away /\ cleared' = cleared
  BY SameBroker DEF D!DecoReceive
<1>3. r \in DecoRec /\ r.id = i /\ r.target = 0
  BY DEF D!DecoIdle, DecoRec
<1>. HIDE DEF r
<1>4. D!QueueOf(d) \in OutQueues
  BY OutFacts DEF OutQueues
<1>5. /\ IInv' /\ Routed' /\ AwaitedPR'
      /\ msgs'[i].queue = D!QueueOf(d) /\ msgs'[i].held
      /\ \A j \in MsgIds : msgs[j].held => j # i /\ msgs'[j] = msgs[j]
  BY <1>1, <1>2, <1>4, ReceiveEffect DEF SInv
<1>6. deco \in [D!Decorators -> DecoRec]
  BY DEF SInv, DecoTypes
<1>7. /\ deco' \in [D!Decorators -> DecoRec] /\ deco'[d] = r
      /\ \A e \in D!Decorators \ {d} : deco'[e] = deco[e]
  BY <1>2, <1>3, <1>6
<1>8. DecoTypes'
  BY <1>2, <1>7 DEF SInv, DecoTypes, D!Decorators
<1>9. DecoHold' /\ DecoAlone'
  <2>1. DecoHold /\ DecoAlone
    BY DEF SInv
  <2>2. \A e \in D!Decorators \ {d} : Decorating(e)' => /\ Decorating(e) /\ deco'[e].id = deco[e].id
                                                        /\ deco[e].id # i /\ deco[e].id \in MsgIds
                                                        /\ msgs'[deco[e].id] = msgs[deco[e].id]
    BY <1>5, <1>7, <2>1 DEF Decorating, DecoHold
  <2>3. deco'[d].id = i
    BY <1>3, <1>7
  <2>4. DecoHold'
    BY <1>5, <2>1, <2>2, <2>3 DEF DecoHold, D!QueueOf, D!Decorators
  <2>5. DecoAlone'
    BY <2>1, <2>2, <2>3 DEF DecoAlone, D!Decorators
  <2>. QED
    BY <2>4, <2>5
<1>10. TargetsOwn' /\ AwayOwn'
  <2>1. Len(thread) \in Nat
    BY ThreadFacts DEF SInv, DecoTypes
  <2>2. deco'[d].target = 0
    BY <1>3, <1>7
  <2>3. TargetsOwn'
    BY <1>2, <1>7, <2>1, <2>2 DEF SInv, TargetsOwn, D!Decorators, D!Own
  <2>. QED
    BY <1>2, <2>3 DEF SInv, AwayOwn, D!Own
<1>11. GenTypes'
  BY <1>1 DEF SInv, GenTypes
<1>12. GenHold' /\ GenAlone'
  <2>1. \A g \in Generators : Generating(g) => msgs'[gen[g].id] = msgs[gen[g].id]
    BY <1>5 DEF SInv, GenHold
  <2>. QED
    BY <1>1, <2>1, GenUnmoved DEF SInv
<1>. QED
  BY <1>5, <1>8, <1>9, <1>10, <1>11, <1>12 DEF SInv

(* A comment of another user.                                               *)
LEMMA OtherEffect ==
  ASSUME SInv, D!OtherComment
  PROVE  thread' \in Seq(Comments) /\ Adds(1, D!Foreign) /\ ThreadGrows
<1>1. thread \in Seq(Comments) /\ D!Foreign \in Comments /\ 1 \in Nat
  BY DEF SInv, DecoTypes, D!Foreign, Comments
<1>2. thread' = Append(thread, D!Foreign)
  BY DEF D!OtherComment
<1>3. thread' \in Seq(Comments) /\ Adds(1, D!Foreign)
  BY <1>1, <1>2, AddsFacts
<1>. QED
  BY <1>1, <1>3, ThreadEffect

(* A step that leaves the queues alone leaves scan polling alone.           *)
LEMMA PollUnmoved ==
  ASSUME SInv, msgs' = msgs, disturb' = disturb, UNCHANGED pollVars
  PROVE  IInv' /\ Routed' /\ AwaitedPR'
<1>1. vars' = vars
  BY DEF vars, pollVars
<1>2. IInv'
  BY <1>1, NextIInv DEF SInv
<1>. QED
  BY <1>2 DEF SInv, Routed, Route, AwaitedPR, pollVars

(* A comment of another user keeps the invariant.                           *)
LEMMA OtherKeepsSInv ==
  ASSUME SInv, D!OtherComment, UNCHANGED <<pollVars, sarifVars>>
  PROVE  SInv'
<1>1. thread' \in Seq(Comments) /\ ThreadGrows
  BY OtherEffect
<1>2. /\ msgs' = msgs /\ disturb' = disturb /\ enabled' = enabled /\ deco' = deco /\ shown' = shown
      /\ lost' = lost /\ scm' = scm /\ away' = away /\ cleared' = cleared
  BY DEF D!OtherComment
<1>3. /\ UNCHANGED pollVars /\ sarifEnabled' = sarifEnabled /\ gen' = gen /\ sarifs' = sarifs
      /\ undelivered' = undelivered
  BY DEF sarifVars
<1>4. IInv' /\ Routed' /\ AwaitedPR'
  BY <1>2, <1>3, PollUnmoved
<1>5. DecoTypes' /\ DecoHold' /\ DecoAlone'
  BY <1>1, <1>2, DecoUnmoved DEF SInv, DecoTypes
<1>6. GenTypes' /\ GenHold' /\ GenAlone'
  BY <1>2, <1>3, GenUnmoved DEF SInv, GenTypes
<1>7. TargetsOwn'
  <2>1. \A e \in D!Decorators : /\ deco[e].target \in 0..Len(thread)
                                /\ deco[e].target # 0 => deco[e].target \in D!Own
    BY DEF SInv, TargetsOwn
  <2>2. thread \in Seq(Comments)
    BY DEF SInv, DecoTypes
  <2>3. \A e \in D!Decorators : /\ deco[e].target \in 0..Len(thread')
                                /\ deco[e].target # 0 => deco[e].target \in D!Own'
    BY <1>1, <2>1, <2>2, TargetStays
  <2>. QED
    BY <1>2, <2>3 DEF TargetsOwn, D!Decorators
<1>8. AwayOwn'
  <2>1. D!Own \subseteq D!Own'
    BY <1>1 DEF ThreadGrows
  <2>. QED
    BY <1>2, <2>1 DEF SInv, AwayOwn
<1>. QED
  BY <1>4, <1>5, <1>6, <1>7, <1>8 DEF SInv

(* Users put comments away and take them back.                              *)
UserStep == \E n \in DOMAIN thread : D!PutAway(n) \/ D!Reopen(n)

(* That changes nothing else.                                               *)
LEMMA UserEffect ==
  ASSUME UserStep
  PROVE  /\ msgs' = msgs /\ disturb' = disturb /\ scm' = scm /\ enabled' = enabled /\ thread' = thread
         /\ deco' = deco /\ shown' = shown /\ lost' = lost
BY DEF UserStep, D!PutAway, D!Reopen, D!UserActs

(* That keeps the invariant.                                                *)
LEMMA UserKeepsSInv ==
  ASSUME SInv, UserStep, UNCHANGED <<pollVars, sarifVars>>
  PROVE  SInv'
<1>0. PICK n \in DOMAIN thread : D!PutAway(n) \/ D!Reopen(n)
  BY DEF UserStep
<1>1. /\ msgs' = msgs /\ disturb' = disturb /\ scm' = scm /\ enabled' = enabled /\ thread' = thread
      /\ deco' = deco /\ shown' = shown /\ lost' = lost
  BY UserEffect
<1>2. /\ UNCHANGED pollVars /\ sarifEnabled' = sarifEnabled /\ gen' = gen /\ sarifs' = sarifs
      /\ undelivered' = undelivered
  BY DEF sarifVars
<1>3. IInv' /\ Routed' /\ AwaitedPR'
  BY <1>1, <1>2, PollUnmoved
<1>4. DecoTypes' /\ TargetsOwn' /\ DecoHold' /\ DecoAlone'
  BY <1>1, DecoUnmoved DEF SInv, DecoTypes, TargetsOwn, D!Own, D!Decorators
<1>5. GenTypes' /\ GenHold' /\ GenAlone'
  BY <1>1, <1>2, GenUnmoved DEF SInv, GenTypes
<1>6. AwayOwn'
  <2>1. D!Own' = D!Own
    BY <1>1 DEF D!Own
  <2>2. AwayOwn
    BY DEF SInv
  <2>3. CASE D!PutAway(n)
    <3>1. /\ scm \in {"bbdc", "adoe"} /\ n \in D!Own /\ away' = away \cup {n}
          /\ cleared' = cleared + 1 \/ cleared' = cleared
      BY <2>3 DEF D!PutAway, D!Live
    <3>. QED
      BY <1>1, <2>1, <2>2, <3>1 DEF AwayOwn
  <2>4. CASE D!Reopen(n)
    <3>1. scm = "bbdc" /\ away' = away \ {n} /\ cleared' = cleared
      BY <2>4 DEF D!Reopen
    <3>. QED
      BY <1>1, <2>1, <2>2, <3>1 DEF AwayOwn
  <2>. QED
    BY <1>0, <2>3, <2>4
<1>. QED
  BY <1>3, <1>4, <1>5, <1>6 DEF SInv

-----------------------------------------------------------------------------
(***************************************************************************)
(* The steps of a generator: the message is acknowledged when all agents    *)
(* are through or although none is; it is given back; the log was made; an  *)
(* agent delivered it, was refused and tries again, or gave up.             *)
(***************************************************************************)
GenSame == sarifs' = sarifs /\ undelivered' = undelivered
GenGone(g) == gen'[g] = G!GenIdle /\ Drops(gen[g].id) /\ sarifs' = sarifs /\ disturb' = disturb

GenDone(g) == /\ GenGone(g) /\ undelivered' = undelivered
              /\ ~sarifEnabled \/ (gen[g].pc = "deliver" /\ gen[g].ended = G!Agents)

GenAborted(g) ==
  /\ GenGone(g) /\ gen[g].pc = "received"
  /\ undelivered' = [undelivered EXCEPT ![G!GenScan(g)] = G!Agents]

GenBack(g) ==
  /\ gen'[g] = G!GenIdle /\ Keeps(gen[g].id) /\ GenSame
  /\ \/ gen[g].pc = "received" /\ disturb' = disturb
     \/ disturb' = [disturb EXCEPT ![G!GenScan(g)] = @ + 1]

GenQuiet(g) == /\ msgs' = msgs /\ disturb' = disturb
               /\ gen'[g].pc = "deliver" /\ gen'[g].id = gen[g].id

GenMade(g) == GenQuiet(g) /\ gen[g].pc = "received" /\ gen'[g].ended = {} /\ GenSame

GenAccepted(g, a) ==
  /\ gen'[g].ended = gen[g].ended \cup {a} /\ undelivered' = undelivered
  /\ sarifs' = [sarifs EXCEPT ![G!GenScan(g)][a] = @ + 1]

GenRefused(g) == gen'[g].ended = gen[g].ended /\ GenSame

GenGaveUp(g, a) ==
  /\ gen'[g].ended = gen[g].ended \cup {a} /\ sarifs' = sarifs
  /\ undelivered' = [undelivered EXCEPT ![G!GenScan(g)] = @ \cup {a}]

GenTurn(g, a) == GenQuiet(g) /\ G!Delivering(g, a) /\ (GenAccepted(g, a) \/ GenRefused(g) \/ GenGaveUp(g, a))

GenChange(g) == GenDone(g) \/ GenAborted(g) \/ GenBack(g) \/ GenMade(g) \/ \E a \in G!Agents : GenTurn(g, a)

GenFrame(g) ==
  /\ msgs' \in Pool /\ (Keeps(gen[g].id) \/ Drops(gen[g].id))
  /\ disturb' \in [Scans -> 0..MaxDisturb] /\ \A s \in Scans : disturb'[s] >= disturb[s]
  /\ sarifEnabled' = sarifEnabled /\ \A h \in Generators \ {g} : gen'[h] = gen[h]

(* Changing one generator keeps the types.                                  *)
LEMMA GenSets ==
  ASSUME GenTypes, NEW g \in Generators, NEW r, GenOK(r), gen' = [gen EXCEPT ![g] = r],
         sarifs' \in [PushScans -> [G!Agents -> Nat]], undelivered' \in [PushScans -> SUBSET G!Agents],
         sarifEnabled' = sarifEnabled
  PROVE  GenTypes' /\ gen'[g] = r /\ \A h \in Generators \ {g} : gen'[h] = gen[h]
<1>1. /\ gen \in [Generators -> GenRec] /\ sarifEnabled \in BOOLEAN
      /\ \A h \in Generators : GenOK(gen[h])
  BY DEF GenTypes
<1>2. /\ gen' \in [Generators -> GenRec] /\ gen'[g] = r /\ \A h \in Generators \ {g} : gen'[h] = gen[h]
  BY <1>1 DEF GenOK
<1>3. \A h \in Generators : GenOK(gen'[h])
  BY <1>1, <1>2
<1>. QED
  BY <1>1, <1>2, <1>3 DEF GenTypes

(* Every step of process_gen_sarif is one of these.                         *)
LEMMA GenEffect ==
  ASSUME SInv, NEW g \in Generators, G!SarifStep(g) \/ G!SarifCrash(g)
  PROVE  Generating(g) /\ GenTypes' /\ GenFrame(g) /\ GenChange(g)
<1>. DEFINE i == gen[g].id
            s == G!GenScan(g)
<1>1. Generating(g)
  BY DEF G!SarifStep, G!SarifCrash, Generating, G!SarifDisabled, G!SarifAbort,
         G!SarifGenerate, G!SarifAck, G!HttpAccepted, G!HttpRefused, G!HttpException,
         G!AmqpPublished, G!AmqpFailed, G!Delivering
<1>2. i \in MsgIds /\ msgs[i].queue # NoQueue /\ s \in PushScans /\ s \in Scans
  BY <1>1, GeneratorFacts DEF SInv
<1>3. msgs \in Pool /\ disturb \in [Scans -> 0..MaxDisturb] /\ MaxDisturb \in Nat
  BY PollParts, PollingAssumption DEF SInv, TypeOK
<1>4. /\ msgs' = msgs => Keeps(i) /\ msgs' \in Pool
      /\ msgs' = Ack(msgs, i) => Drops(i) /\ msgs' \in Pool
      /\ msgs' = Requeue(msgs, i) => Keeps(i) /\ msgs' \in Pool
  BY <1>2, <1>3, PoolSteps
<1>5. /\ GenTypes /\ gen \in [Generators -> GenRec] /\ GenOK(gen[g])
      /\ sarifs \in [PushScans -> [G!Agents -> Nat]] /\ undelivered \in [PushScans -> SUBSET G!Agents]
  BY DEF SInv, GenTypes
<1>6. GenOK(G!GenIdle)
  BY SystemAssumption DEF G!GenIdle, GenRec, GenOK
<1>7. disturb' = disturb => disturb' \in [Scans -> 0..MaxDisturb] /\ \A t \in Scans : disturb'[t] >= disturb[t]
  BY <1>3
<1>8. G!Ack(msgs, i) = Ack(msgs, i) /\ G!Requeue(msgs, i) = Requeue(msgs, i)
  BY SameBroker
<1>. HIDE DEF i, s
<1>9. ASSUME G!SarifEnds(g), undelivered' \in [PushScans -> SUBSET G!Agents]
      PROVE  GenTypes' /\ GenFrame(g) /\ GenGone(g)
  <2>1. /\ msgs' = Ack(msgs, i) /\ gen' = [gen EXCEPT ![g] = G!GenIdle]
        /\ disturb' = disturb /\ sarifEnabled' = sarifEnabled /\ sarifs' = sarifs
    BY <1>8, <1>9 DEF G!SarifEnds, i
  <2>2. GenTypes' /\ gen'[g] = G!GenIdle /\ \A h \in Generators \ {g} : gen'[h] = gen[h]
    BY <1>5, <1>6, <1>9, <2>1, GenSets
  <2>. QED
    BY <1>4, <1>7, <2>1, <2>2 DEF GenFrame, GenGone, i
<1>10. CASE G!SarifDisabled(g) \/ G!SarifAck(g)
  <2>1. /\ G!SarifEnds(g) /\ undelivered' = undelivered
        /\ ~sarifEnabled \/ (gen[g].pc = "deliver" /\ gen[g].ended = G!Agents)
    BY <1>10 DEF G!SarifDisabled, G!SarifAck
  <2>. QED
    BY <1>1, <1>5, <1>9, <2>1 DEF GenChange, GenDone
<1>11. CASE G!SarifAbort(g)
  <2>1. /\ G!SarifEnds(g) /\ gen[g].pc = "received"
        /\ undelivered' = [undelivered EXCEPT ![s] = G!Agents]
    BY <1>11 DEF G!SarifAbort, s
  <2>2. undelivered' \in [PushScans -> SUBSET G!Agents]
    BY <1>2, <1>5, <2>1
  <2>. QED
    BY <1>1, <1>9, <2>1, <2>2 DEF GenChange, GenAborted, s
<1>12. CASE G!SarifCrash(g)
  <2>1. /\ msgs' = Requeue(msgs, i) /\ gen' = [gen EXCEPT ![g] = G!GenIdle]
        /\ sarifEnabled' = sarifEnabled /\ sarifs' = sarifs /\ undelivered' = undelivered
    BY <1>8, <1>12 DEF G!SarifCrash, i
  <2>2. \/ gen[g].pc = "received" /\ disturb' = disturb
        \/ disturb[s] < MaxDisturb /\ disturb' = [disturb EXCEPT ![s] = @ + 1]
    BY <1>12 DEF G!SarifCrash, s
  <2>3. disturb' \in [Scans -> 0..MaxDisturb] /\ \A t \in Scans : disturb'[t] >= disturb[t]
    BY <1>2, <1>3, <2>2
  <2>4. GenTypes' /\ gen'[g] = G!GenIdle /\ \A h \in Generators \ {g} : gen'[h] = gen[h]
    BY <1>5, <1>6, <2>1, GenSets
  <2>. QED
    BY <1>1, <1>4, <2>1, <2>2, <2>3, <2>4 DEF GenFrame, GenChange, GenBack, GenSame, i, s
<1>13. CASE G!SarifGenerate(g)
  <2>. DEFINE r == [gen[g] EXCEPT !.pc = "deliver"]
  <2>1. /\ gen[g].pc = "received" /\ gen' = [gen EXCEPT ![g] = r] /\ msgs' = msgs /\ disturb' = disturb
        /\ sarifEnabled' = sarifEnabled /\ sarifs' = sarifs /\ undelivered' = undelivered
    BY <1>13 DEF G!SarifGenerate
  <2>2. GenOK(r) /\ r.pc = "deliver" /\ r.id = gen[g].id /\ r.ended = {}
    BY <1>5, <2>1 DEF GenOK, GenRec
  <2>. HIDE DEF r
  <2>3. GenTypes' /\ gen'[g] = r /\ \A h \in Generators \ {g} : gen'[h] = gen[h]
    BY <1>5, <2>1, <2>2, GenSets
  <2>. QED
    BY <1>1, <1>4, <1>7, <2>1, <2>2, <2>3 DEF GenFrame, GenChange, GenMade, GenQuiet, GenSame, i
<1>14. ASSUME NEW a \in G!Agents, NEW t, NEW e, NEW o, G!Delivering(g, a), msgs' = msgs, disturb' = disturb,
              sarifEnabled' = sarifEnabled,
              gen' = [gen EXCEPT ![g] = [gen[g] EXCEPT !.tried = t, !.ended = e, !.ok = o]],
              t \in [G!Agents -> 0..(Retries + 1)], e \in SUBSET G!Agents, o \in SUBSET G!Agents,
              \A b \in G!Agents \ e : t[b] <= Retries,
              sarifs' \in [PushScans -> [G!Agents -> Nat]], undelivered' \in [PushScans -> SUBSET G!Agents],
              gen'[g].ended = e => GenAccepted(g, a) \/ GenRefused(g) \/ GenGaveUp(g, a)
       PROVE  GenTypes' /\ GenFrame(g) /\ GenChange(g)
  <2>. DEFINE r == [gen[g] EXCEPT !.tried = t, !.ended = e, !.ok = o]
  <2>1. gen[g].pc = "deliver"
    BY <1>14 DEF G!Delivering
  <2>2. GenOK(r) /\ r.pc = "deliver" /\ r.id = gen[g].id /\ r.ended = e
    BY <1>5, <1>14, <2>1 DEF GenOK, GenRec
  <2>3. gen' = [gen EXCEPT ![g] = r]
    BY <1>14
  <2>. HIDE DEF r
  <2>4. GenTypes' /\ gen'[g] = r /\ \A h \in Generators \ {g} : gen'[h] = gen[h]
    BY <1>5, <1>14, <2>2, <2>3, GenSets
  <2>5. GenTurn(g, a)
    BY <1>14, <2>2, <2>4 DEF GenTurn, GenQuiet
  <2>. QED
    BY <1>4, <1>7, <1>14, <2>4, <2>5 DEF GenFrame, GenChange, i
<1>15. G!Agents = HttpAgents \cup AmqpAgents
  BY DEF G!Agents
<1>16. /\ gen[g].tried \in [G!Agents -> 0..(Retries + 1)] /\ gen[g].ended \in SUBSET G!Agents
       /\ gen[g].ok \in SUBSET G!Agents /\ \A b \in G!Agents \ gen[g].ended : gen[g].tried[b] <= Retries
       /\ Retries \in Nat
  BY <1>5, SystemAssumption DEF GenOK, GenRec
<1>17. ASSUME NEW a \in G!Agents
       PROVE  /\ sarifs' = [sarifs EXCEPT ![s][a] = @ + 1] => sarifs' \in [PushScans -> [G!Agents -> Nat]]
              /\ undelivered' = [undelivered EXCEPT ![s] = @ \cup {a}]
                   => undelivered' \in [PushScans -> SUBSET G!Agents]
  <2>1. sarifs[s] \in [G!Agents -> Nat] /\ undelivered[s] \in SUBSET G!Agents
    BY <1>2, <1>5
  <2>2. [sarifs[s] EXCEPT ![a] = @ + 1] \in [G!Agents -> Nat]
    BY <2>1
  <2>3. [sarifs EXCEPT ![s] = [sarifs[s] EXCEPT ![a] = @ + 1]] \in [PushScans -> [G!Agents -> Nat]]
    BY <1>2, <1>5, <2>2
  <2>4. [sarifs EXCEPT ![s][a] = @ + 1] = [sarifs EXCEPT ![s] = [sarifs[s] EXCEPT ![a] = @ + 1]]
    OBVIOUS
  <2>5. undelivered[s] \cup {a} \in SUBSET G!Agents
    BY <2>1
  <2>6. [undelivered EXCEPT ![s] = @ \cup {a}] \in [PushScans -> SUBSET G!Agents]
    BY <1>2, <1>5, <2>5
  <2>. QED
    BY <2>3, <2>4, <2>6
<1>18. ASSUME NEW a \in G!Agents, G!HttpAccepted(g, a) \/ G!AmqpPublished(g, a)
       PROVE  GenTypes' /\ GenFrame(g) /\ GenChange(g)
  <2>. DEFINE e == gen[g].ended \cup {a}
              o == gen[g].ok \cup {a}
  <2>1. /\ G!Delivering(g, a) /\ msgs' = msgs /\ disturb' = disturb /\ sarifEnabled' = sarifEnabled
        /\ undelivered' = undelivered /\ sarifs' = [sarifs EXCEPT ![s][a] = @ + 1]
    BY <1>18 DEF G!HttpAccepted, G!AmqpPublished, s
  <2>2. PICK t \in {gen[g].tried, [gen[g].tried EXCEPT ![a] = @ + 1]} :
               gen' = [gen EXCEPT ![g] = [gen[g] EXCEPT !.tried = t, !.ended = e, !.ok = o]]
    <3>1. CASE G!HttpAccepted(g, a)
      <4>1. gen' = [gen EXCEPT ![g].tried[a] = @ + 1, ![g].ok = @ \cup {a}, ![g].ended = @ \cup {a}]
        BY <3>1 DEF G!HttpAccepted
      <4>2. gen' = [gen EXCEPT ![g] = [gen[g] EXCEPT !.tried = [gen[g].tried EXCEPT ![a] = @ + 1],
                                                     !.ended = e, !.ok = o]]
        BY <1>5, <4>1 DEF GenRec
      <4>. QED
        BY <4>2
    <3>2. CASE G!AmqpPublished(g, a)
      <4>1. gen' = [gen EXCEPT ![g].ok = @ \cup {a}, ![g].ended = @ \cup {a}]
        BY <3>2 DEF G!AmqpPublished
      <4>2. gen' = [gen EXCEPT ![g] = [gen[g] EXCEPT !.tried = gen[g].tried, !.ended = e, !.ok = o]]
        BY <1>5, <4>1 DEF GenRec, GenOK
      <4>. QED
        BY <4>2
    <3>. QED
      BY <1>18, <3>1, <3>2
  <2>3. /\ t \in [G!Agents -> 0..(Retries + 1)] /\ \A b \in G!Agents \ e : t[b] <= Retries
        /\ e \in SUBSET G!Agents /\ o \in SUBSET G!Agents
    BY <1>16, <2>1 DEF G!Delivering
  <2>4. gen'[g].ended = e => GenAccepted(g, a)
    BY <2>1 DEF GenAccepted, s
  <2>. HIDE DEF e, o
  <2>. QED
    BY <1>5, <1>14, <1>17, <2>1, <2>2, <2>3, <2>4
<1>19. ASSUME NEW a \in G!Agents, G!HttpException(g, a) \/ G!AmqpFailed(g, a)
       PROVE  GenTypes' /\ GenFrame(g) /\ GenChange(g)
  <2>. DEFINE e == gen[g].ended \cup {a}
              o == gen[g].ok
  <2>1. /\ G!Delivering(g, a) /\ msgs' = msgs /\ disturb' = disturb /\ sarifEnabled' = sarifEnabled
        /\ sarifs' = sarifs /\ undelivered' = [undelivered EXCEPT ![s] = @ \cup {a}]
    BY <1>19 DEF G!HttpException, G!AmqpFailed, s
  <2>2. PICK t \in {gen[g].tried, [gen[g].tried EXCEPT ![a] = @ + 1]} :
               gen' = [gen EXCEPT ![g] = [gen[g] EXCEPT !.tried = t, !.ended = e, !.ok = o]]
    <3>1. CASE G!HttpException(g, a)
      <4>1. gen' = [gen EXCEPT ![g].tried[a] = @ + 1, ![g].ended = @ \cup {a}]
        BY <3>1 DEF G!HttpException
      <4>2. gen' = [gen EXCEPT ![g] = [gen[g] EXCEPT !.tried = [gen[g].tried EXCEPT ![a] = @ + 1],
                                                     !.ended = e, !.ok = o]]
        BY <1>5, <4>1 DEF GenRec, GenOK
      <4>. QED
        BY <4>2
    <3>2. CASE G!AmqpFailed(g, a)
      <4>1. gen' = [gen EXCEPT ![g].ended = @ \cup {a}]
        BY <3>2 DEF G!AmqpFailed
      <4>2. gen' = [gen EXCEPT ![g] = [gen[g] EXCEPT !.tried = gen[g].tried, !.ended = e, !.ok = o]]
        BY <1>5, <4>1 DEF GenRec, GenOK
      <4>. QED
        BY <4>2
    <3>. QED
      BY <1>19, <3>1, <3>2
  <2>3. /\ t \in [G!Agents -> 0..(Retries + 1)] /\ \A b \in G!Agents \ e : t[b] <= Retries
        /\ e \in SUBSET G!Agents /\ o \in SUBSET G!Agents
    BY <1>16, <2>1 DEF G!Delivering
  <2>4. gen'[g].ended = e => GenGaveUp(g, a)
    BY <2>1 DEF GenGaveUp, s
  <2>. HIDE DEF e, o
  <2>. QED
    BY <1>5, <1>14, <1>17, <2>1, <2>2, <2>3, <2>4
<1>20. ASSUME NEW a \in G!Agents, G!HttpRefused(g, a)
       PROVE  GenTypes' /\ GenFrame(g) /\ GenChange(g)
  <2>. DEFINE last == gen[g].tried[a] = Retries
              e == IF last THEN gen[g].ended \cup {a} ELSE gen[g].ended
              o == gen[g].ok
              t == [gen[g].tried EXCEPT ![a] = @ + 1]
  <2>1. /\ G!Delivering(g, a) /\ msgs' = msgs /\ disturb' = disturb /\ sarifEnabled' = sarifEnabled
        /\ sarifs' = sarifs
        /\ undelivered' = IF last THEN [undelivered EXCEPT ![s] = @ \cup {a}] ELSE undelivered
        /\ gen' = [gen EXCEPT ![g].tried[a] = @ + 1,
                              ![g].ended = IF last THEN @ \cup {a} ELSE @]
    BY <1>20 DEF G!HttpRefused, s
  <2>2. gen' = [gen EXCEPT ![g] = [gen[g] EXCEPT !.tried = t, !.ended = e, !.ok = o]]
    BY <1>5, <2>1 DEF GenRec, GenOK
  <2>3. /\ t \in [G!Agents -> 0..(Retries + 1)] /\ \A b \in G!Agents \ e : t[b] <= Retries
        /\ e \in SUBSET G!Agents /\ o \in SUBSET G!Agents
    <3>1. a \notin gen[g].ended /\ gen[g].tried[a] \in 0..Retries
      BY <1>16, <2>1 DEF G!Delivering
    <3>. QED
      BY <1>16, <3>1
  <2>4. gen'[g].ended = e => GenRefused(g) \/ GenGaveUp(g, a)
    BY <2>1 DEF GenGaveUp, GenRefused, GenSame, s
  <2>5. undelivered' \in [PushScans -> SUBSET G!Agents]
    BY <1>5, <1>17, <2>1
  <2>. HIDE DEF e, o, t, last
  <2>. QED
    BY <1>5, <1>14, <2>1, <2>2, <2>3, <2>4, <2>5
<1>. QED
  BY <1>1, <1>10, <1>11, <1>12, <1>13, <1>15, <1>18, <1>19, <1>20 DEF G!SarifStep

(* The steps of a generator keep the invariant.                             *)
LEMMA GenKeepsSInv ==
  ASSUME SInv, NEW g \in Generators, G!SarifStep(g) \/ G!SarifCrash(g), UNCHANGED <<pollVars, decoVars>>
  PROVE  SInv'
<1>. DEFINE i == gen[g].id
<1>1. Generating(g) /\ GenTypes' /\ GenFrame(g) /\ GenChange(g)
  BY GenEffect
<1>2. /\ scan' = scan /\ dropBy' = dropBy /\ start' = start /\ poller' = poller
      /\ notified' = notified /\ stopped' = stopped
      /\ enabled' = enabled /\ thread' = thread /\ deco' = deco /\ shown' = shown /\ lost' = lost
      /\ scm' = scm /\ away' = away /\ cleared' = cleared
  BY DEF pollVars, decoVars
<1>3. i \in MsgIds /\ msgs[i].queue = SarifGen /\ msgs[i].queue \in OutQueues
  BY <1>1, GeneratorFacts DEF SInv
<1>4. \A j \in MsgIds \ {i} : msgs'[j] = msgs[j]
  BY <1>1 DEF GenFrame, Keeps, Drops
<1>5. IInv' /\ Routed' /\ AwaitedPR'
  <2>1. msgs' \in Pool /\ (Keeps(i) \/ Drops(i))
        /\ disturb' \in [Scans -> 0..MaxDisturb] /\ \A s \in Scans : disturb'[s] >= disturb[s]
    BY <1>1 DEF GenFrame
  <2>2. IInv /\ Routed /\ AwaitedPR
    BY DEF SInv
  <2>. HIDE DEF i
  <2>. QED
    BY <1>2, <1>3, <2>1, <2>2, OutsideStep
<1>6. \A h \in Generators \ {g} : gen'[h] = gen[h]
  BY <1>1 DEF GenFrame
<1>7. gen'[g].pc = "idle" \/ (gen'[g].id = i /\ msgs' = msgs)
  <2>1. CASE gen'[g] = G!GenIdle
    BY <2>1 DEF G!GenIdle
  <2>2. CASE GenQuiet(g)
    BY <2>2 DEF GenQuiet
  <2>. QED
    BY <1>1, <2>1, <2>2 DEF GenChange, GenDone, GenAborted, GenGone, GenBack, GenMade, GenTurn
<1>8. GenHold' /\ GenAlone'
  <2>1. GenHold /\ GenAlone
    BY DEF SInv
  <2>2. \A h \in Generators \ {g} : Generating(h)' => Generating(h) /\ gen[h].id \in MsgIds \ {i}
    BY <1>1, <1>6, <2>1 DEF Generating, GenHold, GenAlone
  <2>3. \A h \in Generators : Generating(h)' => /\ Generating(h) /\ gen'[h].id = gen[h].id
                                                /\ msgs'[gen[h].id] = msgs[gen[h].id]
    <3>1. Generating(g)' => gen'[g].id = i /\ msgs' = msgs
      BY <1>7 DEF Generating
    <3>. QED
      BY <1>1, <1>4, <1>6, <2>2, <3>1
  <2>4. GenHold'
    BY <2>1, <2>3 DEF GenHold
  <2>5. GenAlone'
    BY <2>1, <2>3 DEF GenAlone
  <2>. QED
    BY <2>4, <2>5
<1>9. DecoTypes' /\ TargetsOwn' /\ AwayOwn'
  BY <1>2 DEF SInv, DecoTypes, TargetsOwn, AwayOwn, D!Own
<1>10. DecoHold' /\ DecoAlone'
  <2>1. \A d \in D!Decorators : Decorating(d) => msgs'[deco[d].id] = msgs[deco[d].id]
    BY <1>3, <1>4, OutFacts DEF SInv, DecoHold
  <2>. QED
    BY <1>2, <2>1, DecoUnmoved DEF SInv
<1>. QED
  BY <1>1, <1>5, <1>8, <1>9, <1>10 DEF SInv

(* A delivery to a generator keeps the invariant.                           *)
LEMMA GenReceiveKeepsSInv ==
  ASSUME SInv, NEW g \in Generators, NEW i \in MsgIds, G!SarifReceive(g, i), UNCHANGED <<pollVars, decoVars>>
  PROVE  SInv'
<1>. DEFINE r == [G!GenIdle EXCEPT !.pc = "received", !.id = i]
<1>1. /\ UNCHANGED pollVars /\ enabled' = enabled /\ thread' = thread /\ deco' = deco /\ shown' = shown
      /\ lost' = lost /\ scm' = scm /\ away' = away /\ cleared' = cleared
  BY DEF decoVars
<1>2. /\ i \in Ready(msgs, SarifGen) /\ msgs' = Deliver(msgs, i) /\ gen' = [gen EXCEPT ![g] = r]
      /\ disturb' = disturb /\ sarifEnabled' = sarifEnabled /\ sarifs' = sarifs /\ undelivered' = undelivered
  BY SameBroker DEF G!SarifReceive
<1>3. GenOK(r) /\ r.id = i
  <2>1. GenOK(G!GenIdle) /\ G!GenIdle.ended = {}
    BY SystemAssumption DEF G!GenIdle, GenRec, GenOK
  <2>2. /\ r \in GenRec /\ r.id = i /\ r.ended = G!GenIdle.ended /\ r.tried = G!GenIdle.tried
    BY <2>1 DEF GenOK, GenRec
  <2>. HIDE DEF r
  <2>. QED
    BY <2>1, <2>2 DEF GenOK
<1>. HIDE DEF r
<1>4. SarifGen \in OutQueues
  BY DEF OutQueues
<1>5. /\ IInv' /\ Routed' /\ AwaitedPR'
      /\ msgs'[i].queue = SarifGen /\ msgs'[i].held
      /\ \A j \in MsgIds : msgs[j].held => j # i /\ msgs'[j] = msgs[j]
  BY <1>1, <1>2, <1>4, ReceiveEffect DEF SInv
<1>6. GenTypes' /\ gen'[g] = r /\ \A h \in Generators \ {g} : gen'[h] = gen[h]
  <2>1. /\ GenTypes /\ sarifs' \in [PushScans -> [G!Agents -> Nat]]
        /\ undelivered' \in [PushScans -> SUBSET G!Agents]
    BY <1>2 DEF SInv, GenTypes
  <2>. QED
    BY <1>2, <1>3, <2>1, GenSets
<1>7. GenHold' /\ GenAlone'
  <2>1. GenHold /\ GenAlone
    BY DEF SInv
  <2>2. \A h \in Generators \ {g} : Generating(h)' => /\ Generating(h) /\ gen'[h].id = gen[h].id
                                                      /\ gen[h].id # i /\ gen[h].id \in MsgIds
                                                      /\ msgs'[gen[h].id] = msgs[gen[h].id]
    BY <1>5, <1>6, <2>1 DEF Generating, GenHold
  <2>3. gen'[g].id = i
    BY <1>3, <1>6
  <2>4. GenHold'
    BY <1>5, <2>1, <2>2, <2>3 DEF GenHold
  <2>5. GenAlone'
    BY <2>1, <2>2, <2>3 DEF GenAlone
  <2>. QED
    BY <2>4, <2>5
<1>8. DecoTypes' /\ TargetsOwn' /\ AwayOwn'
  BY <1>1 DEF SInv, DecoTypes, TargetsOwn, AwayOwn, D!Own
<1>9. DecoHold' /\ DecoAlone'
  <2>1. \A d \in D!Decorators : Decorating(d) => msgs'[deco[d].id] = msgs[deco[d].id]
    BY <1>5 DEF SInv, DecoHold
  <2>. QED
    BY <1>1, <2>1, DecoUnmoved DEF SInv
<1>. QED
  BY <1>5, <1>6, <1>7, <1>8, <1>9 DEF SInv
-----------------------------------------------------------------------------
(***************************************************************************)
(* The invariant of the composition.                                        *)
(***************************************************************************)

(* What scan polling tells the next agents is on a route.                   *)
LEMMA ReportRoute ==
  ASSUME IInv, Routed, NEW w \in Pollers, poller[w].pc = "notify"
  PROVE  /\ ScanOf(w) \in Scans /\ NextStep(ScanOf(w), poller[w].seen) \in Message
         /\ Route(NextStep(ScanOf(w), poller[w].seen))
         /\ NextStep(ScanOf(w), poller[w].seen).queue \in OutQueues
         /\ NextStep(ScanOf(w), poller[w].seen).scan = ScanOf(w)
         /\ NextStep(ScanOf(w), poller[w].seen).text \in {"results", "error"}
<1>1. Busy(w)
  BY DEF Busy
<1>2. ScanOf(w) \in Scans
  BY <1>1, PollParts, HandlerFacts
<1>3. \E q \in OutQueues, x \in {"results", "error"} :
        /\ NextStep(ScanOf(w), poller[w].seen) = Msg(q, ScanOf(w), 0, x)
        /\ Route(Msg(q, ScanOf(w), 0, x))
  BY <1>2, OutFacts DEF NextStep, Route, OutQueues, Msg, Scans
<1>. QED
  BY <1>2, <1>3, OutFacts, MsgFacts, DelayFacts DEF Texts

(* Only the workflow of a pull request waits to annotate.                   *)
LEMMA AwaitedStep ==
  ASSUME IInv, AwaitedPR, Next
  PROVE  AwaitedPR'
<1>0. start \in [Scans -> {"none", "submitted", "awaited", "done"}]
  BY PollParts DEF TypeOK
<1>1. ASSUME NEW t \in Scans, NEW x, start' = [start EXCEPT ![t] = x], x = "awaited" => t \in PRScans
      PROVE  AwaitedPR'
  BY <1>0, <1>1 DEF AwaitedPR
<1>2. ASSUME NEW t \in Scans, ScanStep(t) \/ StartStep(t)
      PROVE  AwaitedPR'
  <2>1. \/ start' = start
        \/ \E x \in {"submitted", "done", AfterAwait(t)} : start' = [start EXCEPT ![t] = x]
    BY <1>2 DEF ScanStep, Submit, FinishScan, DropByPasses, StartStep, WorkflowStart, WorkflowStartLegacy,
                WorkflowStartFails, AnnotationStart
  <2>2. AfterAwait(t) = "awaited" => t \in PRScans
    BY DEF AfterAwait
  <2>3. CASE start' = start
    BY <2>3 DEF AwaitedPR
  <2>. QED
    BY <1>1, <2>1, <2>2, <2>3
<1>3. CASE start' = start
  BY <1>3 DEF AwaitedPR
<1>4. ASSUME NEW i \in MsgIds, ExpireAwait(i) \/ ExpireTwice(i)
      PROVE  start' = start
  BY <1>4 DEF ExpireAwait, ExpireTwice
<1>5. ASSUME NEW w \in Pollers, PollStep(w) \/ PollCrash(w) \/ \E i \in MsgIds : PollReceive(w, i)
      PROVE  start' = start
  BY <1>5 DEF PollStep, PollCrash, PollReceive, PollExpired, PollNoChannel, PollRequestException,
              PollResponseException, PollInspect, PollRequeue, PollRequeueRefused, PollRequeueFails,
              PollNotify, PollNotifyFails, PollAck, GiveUp
<1>. QED
  BY <1>2, <1>3, <1>4, <1>5 DEF Next

(* A step of scan polling leaves the messages of the consumers alone; what  *)
(* it adds is on its route.                                                 *)
LEMMA PollingStep ==
  ASSUME IInv, Routed, AwaitedPR, Next
  PROVE  /\ \A j \in MsgIds : msgs[j].queue \in OutQueues => msgs'[j] = msgs[j]
         /\ Routed'
<1>1. \A j \in MsgIds : Route(msgs[j])
  BY DEF Routed
<1>2. CASE \A j \in MsgIds : InMonitor(j)
  <2>1. \A j \in MsgIds : msgs[j].queue \in OutQueues => msgs'[j] = msgs[j]
    BY <1>2 DEF InMonitor
  <2>2. \A j \in MsgIds : Route(msgs'[j])
    BY <1>1, <1>2, RouteFacts DEF InMonitor
  <2>. QED
    BY <2>1, <2>2 DEF Routed
<1>3. ASSUME NEW n \in MsgIds, NEW m, New(n, m), Route(m)
      PROVE  /\ \A j \in MsgIds : msgs[j].queue \in OutQueues => msgs'[j] = msgs[j]
             /\ Routed'
  <2>1. \A j \in MsgIds : msgs[j].queue \in OutQueues => msgs'[j] = msgs[j]
    BY <1>3, OutFacts DEF New
  <2>2. \A j \in MsgIds : Route(msgs'[j])
    BY <1>1, <1>3 DEF New
  <2>. QED
    BY <2>1, <2>2 DEF Routed
<1>4. ASSUME NEW t \in Scans, NEW n \in MsgIds, Started1(t, n)
      PROVE  /\ \A j \in MsgIds : msgs[j].queue \in OutQueues => msgs'[j] = msgs[j]
             /\ Routed'
  <2>1. Route(Msg(PRAnnotating, t, 0, "started"))
    BY <1>4, OutFacts DEF Started1, Msg, Route, OutQueues
  <2>. QED
    BY <1>3, <1>4, <2>1 DEF Started1
<1>5. ASSUME NEW w \in Pollers, NEW n \in MsgIds, Notified1(w, n)
      PROVE  /\ \A j \in MsgIds : msgs[j].queue \in OutQueues => msgs'[j] = msgs[j]
             /\ Routed'
  <2>1. Route(NextStep(ScanOf(w), poller[w].seen))
    BY <1>5, ReportRoute DEF Notified1
  <2>. QED
    BY <1>3, <1>5, <2>1 DEF Notified1
<1>. QED
  BY <1>2, <1>4, <1>5, NextEffect

(* The steps of scan polling keep the invariant.                            *)
LEMMA NextKeepsSInv ==
  ASSUME SInv, Next, UNCHANGED <<decoVars, sarifVars>>
  PROVE  SInv'
<1>1. IInv' /\ Routed' /\ AwaitedPR'
  BY NextIInv, PollingStep, AwaitedStep DEF SInv
<1>2. \A j \in MsgIds : msgs[j].queue \in OutQueues => msgs'[j] = msgs[j]
  BY PollingStep DEF SInv
<1>3. /\ enabled' = enabled /\ thread' = thread /\ deco' = deco /\ shown' = shown /\ lost' = lost
      /\ scm' = scm /\ away' = away /\ cleared' = cleared
      /\ sarifEnabled' = sarifEnabled /\ gen' = gen /\ sarifs' = sarifs /\ undelivered' = undelivered
  BY DEF decoVars, sarifVars
<1>4. DecoTypes' /\ TargetsOwn' /\ AwayOwn' /\ GenTypes'
  BY <1>3 DEF SInv, DecoTypes, TargetsOwn, AwayOwn, D!Own, GenTypes
<1>5. DecoHold' /\ DecoAlone'
  <2>1. \A d \in D!Decorators : Decorating(d) => msgs'[deco[d].id] = msgs[deco[d].id]
    BY <1>2, DecoratorFacts DEF SInv
  <2>. QED
    BY <1>3, <2>1, DecoUnmoved DEF SInv
<1>6. GenHold' /\ GenAlone'
  <2>1. \A g \in Generators : Generating(g) => msgs'[gen[g].id] = msgs[gen[g].id]
    BY <1>2, GeneratorFacts DEF SInv
  <2>. QED
    BY <1>3, <2>1, GenUnmoved DEF SInv
<1>. QED
  BY <1>1, <1>4, <1>5, <1>6 DEF SInv

(* The invariant holds initially.                                           *)
LEMMA InitSInv == SysInit => SInv
<1>1. SUFFICES ASSUME SysInit PROVE SInv
  OBVIOUS
<1>2. Init /\ D!DecoInit /\ G!SarifInit
  BY <1>1 DEF SysInit
<1>3. IInv
  BY <1>2, InitIInv
<1>4. Routed /\ AwaitedPR
  <2>1. \A i \in MsgIds : msgs[i] = NoMsg
    BY <1>2 DEF Init
  <2>2. \A s \in Scans : start[s] = "none"
    BY <1>2 DEF Init
  <2>. QED
    BY <2>1, <2>2, RouteFacts DEF Routed, AwaitedPR
<1>5. DecoTypes /\ DecoHold /\ DecoAlone /\ TargetsOwn /\ AwayOwn
  <2>1. /\ thread = <<>> /\ deco = [d \in D!Decorators |-> D!DecoIdle] /\ shown = [s \in PRScans |-> {}]
        /\ lost = {} /\ enabled \in BOOLEAN /\ away = {} /\ cleared = 0
    BY <1>2 DEF D!DecoInit
  <2>2. D!DecoIdle \in DecoRec /\ D!DecoIdle.pc = "idle" /\ D!DecoIdle.target = 0
    BY DEF D!DecoIdle, DecoRec
  <2>3. Len(thread) = 0 /\ thread \in Seq(Comments)
    BY <2>1
  <2>4. \A d \in D!Decorators : deco[d].pc = "idle" /\ deco[d].target = 0
    BY <2>1, <2>2
  <2>5. DecoTypes
    BY <2>1, <2>2, <2>3 DEF DecoTypes
  <2>. QED
    BY <2>1, <2>3, <2>4, <2>5 DEF DecoHold, DecoAlone, TargetsOwn, AwayOwn, Decorating
<1>6. GenTypes /\ GenHold /\ GenAlone
  <2>1. /\ gen = [g \in Generators |-> G!GenIdle] /\ sarifEnabled \in BOOLEAN
        /\ sarifs = [s \in PushScans |-> [a \in G!Agents |-> 0]] /\ undelivered = [s \in PushScans |-> {}]
    BY <1>2 DEF G!SarifInit
  <2>2. GenOK(G!GenIdle) /\ G!GenIdle.pc = "idle"
    BY SystemAssumption DEF G!GenIdle, GenRec, GenOK
  <2>3. \A g \in Generators : GenOK(gen[g]) /\ gen[g].pc = "idle"
    BY <2>1, <2>2
  <2>4. gen \in [Generators -> GenRec]
    BY <2>1, <2>2 DEF GenOK
  <2>5. sarifs \in [PushScans -> [G!Agents -> Nat]] /\ undelivered \in [PushScans -> SUBSET G!Agents]
    BY <2>1
  <2>. QED
    BY <2>1, <2>3, <2>4, <2>5 DEF GenTypes, GenHold, GenAlone, Generating
<1>. QED
  BY <1>3, <1>4, <1>5, <1>6 DEF SInv

(* Stuttering keeps the invariant.                                          *)
LEMMA StutterSInv ==
  ASSUME SInv, sysVars' = sysVars
  PROVE  SInv'
<1>1. /\ msgs' = msgs /\ disturb' = disturb /\ UNCHANGED pollVars
      /\ enabled' = enabled /\ thread' = thread /\ deco' = deco /\ shown' = shown /\ lost' = lost
      /\ scm' = scm /\ away' = away /\ cleared' = cleared
      /\ sarifEnabled' = sarifEnabled /\ gen' = gen /\ sarifs' = sarifs /\ undelivered' = undelivered
  BY DEF sysVars, pollVars
<1>2. IInv' /\ Routed' /\ AwaitedPR'
  BY <1>1, PollUnmoved
<1>3. DecoTypes' /\ TargetsOwn' /\ AwayOwn' /\ GenTypes'
  BY <1>1 DEF SInv, DecoTypes, TargetsOwn, AwayOwn, D!Own, GenTypes
<1>4. DecoHold' /\ DecoAlone' /\ GenHold' /\ GenAlone'
  BY <1>1, DecoUnmoved, GenUnmoved DEF SInv
<1>. QED
  BY <1>2, <1>3, <1>4 DEF SInv

(* Every step keeps the invariant.                                          *)
LEMMA NextSInv == SInv /\ [SysNext]_sysVars => SInv'
<1>1. SUFFICES ASSUME SInv, [SysNext]_sysVars PROVE SInv'
  OBVIOUS
<1>2. CASE Next /\ UNCHANGED <<decoVars, sarifVars>>
  BY <1>1, <1>2, NextKeepsSInv
<1>3. CASE D!DecoNext /\ UNCHANGED <<pollVars, sarifVars>>
  BY <1>1, <1>3, OtherKeepsSInv, UserKeepsSInv, DecoKeepsSInv, DecoReceiveKeepsSInv DEF D!DecoNext, UserStep
<1>4. CASE G!SarifNext /\ UNCHANGED <<pollVars, decoVars>>
  BY <1>1, <1>4, GenKeepsSInv, GenReceiveKeepsSInv DEF G!SarifNext
<1>5. CASE UNCHANGED sysVars
  BY <1>1, <1>5, StutterSInv
<1>. QED
  BY <1>1, <1>2, <1>3, <1>4, <1>5 DEF SysNext

(* The inductive invariant of the composition: that of scan polling still   *)
(* holds among the other consumers, every message is in a queue of its own  *)
(* kind, and a handler works alone on a message it holds.                   *)
THEOREM SystemInvariant == SysSpec => []SInv
BY InitSInv, NextSInv, PTL DEF SysSpec

(* Types, for every set of scans, handlers and agents: in particular no     *)
(* delivery of process_gen_sarif is tried more than delivery-retries + 1    *)
(* times and no comment is looked for outside the pull request.             *)
THEOREM SystemTypeCorrect == SysSpec => []SysTypeOK
<1>1. SInv => SysTypeOK
  <2>1. SUFFICES ASSUME SInv PROVE SysTypeOK
    OBVIOUS
  <2>2. TypeOK /\ DecoTypes /\ GenTypes /\ TargetsOwn /\ AwayOwn
    BY <2>1, PollParts DEF SInv
  <2>3. thread \in Seq(Comments)
    BY <2>2 DEF DecoTypes
  <2>4. \A n \in DOMAIN thread : thread[n].text \in {"other", "started", "results", "error"}
    BY <2>3, ThreadFacts DEF Comments, OutTexts
  <2>5. D!DecoTypeOK
    <3>1. away \subseteq DOMAIN thread /\ cleared \in Nat
      BY <2>2 DEF AwayOwn, D!Own
    <3>. QED
      BY <2>2, <2>4, <3>1 DEF D!DecoTypeOK, DecoTypes, DecoRec, TargetsOwn, OutTexts
  <2>6. G!SarifTypeOK
    BY <2>2 DEF G!SarifTypeOK, GenTypes, GenRec
  <2>. QED
    BY <2>2, <2>5, <2>6 DEF SysTypeOK
<1>. QED
  BY <1>1, SystemInvariant, PTL
-----------------------------------------------------------------------------
(***************************************************************************)
(* The outcome of a pull-request scan.                                      *)
(***************************************************************************)

(* A message with an outcome is in a queue of the consumers.                *)
LEMMA OutcomeFacts ==
  ASSUME IInv, Routed, NEW s, NEW j \in Outcome(s)
  PROVE  /\ j \in MsgIds /\ msgs[j].queue \in OutQueues
         /\ s \in PRScans => msgs[j].queue # SarifGen
         /\ s \in PushScans => msgs[j].queue = SarifGen
<1>1. j \in MsgIds /\ msgs[j].scan = s /\ msgs[j].text \in {"results", "error"} /\ Route(msgs[j])
  BY DEF Outcome, Routed
<1>2. msgs[j] \in Message
  BY <1>1, PollParts DEF Pool, NoMsg
<1>3. msgs[j].queue \in OutQueues
  BY <1>1, <1>2, OutFacts DEF Route, Message
<1>. QED
  BY <1>1, <1>3, PollingAssumption DEF Route, OutQueues

(* Outcomes survive the steps of scan polling, which may add one.           *)
LEMMA OutcomeNext ==
  ASSUME SInv, Next, NEW s \in Scans
  PROVE  /\ Outcome(s) \subseteq Outcome(s)'
         /\ notified'[s] = notified[s] \/ Outcome(s)' # {}
<1>1. \A j \in MsgIds : msgs[j].queue \in OutQueues => msgs'[j] = msgs[j]
  BY PollingStep DEF SInv
<1>2. Outcome(s) \subseteq Outcome(s)'
  <2>1. \A j \in Outcome(s) : j \in MsgIds /\ msgs'[j] = msgs[j]
    BY <1>1, OutcomeFacts DEF SInv
  <2>. QED
    BY <2>1 DEF Outcome
<1>3. ASSUME NEW w \in Pollers, NEW n \in MsgIds, Notified1(w, n)
      PROVE  notified'[s] = notified[s] \/ Outcome(s)' # {}
  <2>1. /\ ScanOf(w) \in Scans /\ msgs'[n].scan = ScanOf(w) /\ msgs'[n].text \in {"results", "error"}
    BY <1>3, ReportRoute DEF SInv, Notified1, New
  <2>2. notified' = [notified EXCEPT ![ScanOf(w)] = @ + 1] /\ notified \in [Scans -> Nat]
    BY <1>3, PollParts DEF SInv, Notified1, PollNotify, TypeOK
  <2>3. CASE s = ScanOf(w)
    <3>1. n \in Outcome(s)'
      BY <2>1, <2>3 DEF Outcome
    <3>. QED
      BY <3>1
  <2>4. CASE s # ScanOf(w)
    BY <2>1, <2>2, <2>4
  <2>. QED
    BY <2>3, <2>4
<1>4. notified'[s] = notified[s] \/ Outcome(s)' # {}
  BY <1>3, NextEffect DEF SInv, Started1
<1>. QED
  BY <1>2, <1>4

(* And those of a consumer, except for the message it acknowledges.         *)
LEMMA OutcomeKeeps ==
  ASSUME NEW i \in MsgIds, NEW s
  PROVE  /\ Keeps(i) => Outcome(s)' = Outcome(s)
         /\ Drops(i) => Outcome(s)' = Outcome(s) \ {i}
         /\ msgs' = msgs => Outcome(s)' = Outcome(s)
<1>1. ASSUME Keeps(i) PROVE Outcome(s)' = Outcome(s)
  <2>1. \A j \in MsgIds : msgs'[j].scan = msgs[j].scan /\ msgs'[j].text = msgs[j].text
    BY <1>1 DEF Keeps
  <2>. QED
    BY <2>1 DEF Outcome
<1>2. ASSUME Drops(i) PROVE Outcome(s)' = Outcome(s) \ {i}
  <2>1. msgs'[i].text \notin {"results", "error"} /\ \A j \in MsgIds \ {i} : msgs'[j] = msgs[j]
    BY <1>2 DEF Drops, NoMsg
  <2>. QED
    BY <2>1 DEF Outcome
<1>. QED
  BY <1>1, <1>2 DEF Outcome

Reported(s) == Outcome(s) # {} \/ shown[s] \cap {"results", "error"} # {}

(* A step that acknowledges no outcome and erases no text.                  *)
LEMMA ReportKept ==
  ASSUME ReportInPR, enabled' = enabled, notified' = notified, lost \subseteq lost',
         \A s \in PRScans : Outcome(s) \subseteq Outcome(s)' /\ shown[s] \subseteq shown'[s]
  PROVE  ReportInPR'
<1>1. \A s \in PRScans : Reported(s) => Reported(s)'
  BY DEF Reported
<1>. QED
  BY <1>1 DEF ReportInPR, Reported

(* A step of others leaves what a decorator has written.                    *)
LEMMA WrittenKept ==
  ASSUME SInv, WrittenShown, deco' = deco, shown' = shown,
         \A d \in D!Decorators : Decorating(d) =>
           msgs'[deco[d].id].scan = msgs[deco[d].id].scan /\ msgs'[deco[d].id].text = msgs[deco[d].id].text
  PROVE  WrittenShown'
BY DEF WrittenShown, Decorating, D!DecoScan, D!DecoText, D!Decorators

(* A decorator acknowledges an outcome only once it is shown or lost.       *)
LEMMA DecoReports ==
  ASSUME SInv, WrittenShown, ReportInPR, NEW d \in D!Decorators, D!DecoStep(d) \/ D!DecoCrash(d),
         UNCHANGED <<pollVars, sarifVars>>
  PROVE  WrittenShown' /\ ReportInPR'
<1>1. PICK i, t, x : i = deco[d].id /\ t = D!DecoScan(d) /\ x = D!DecoText(d)
  OBVIOUS
<1>2. Decorating(d) /\ DecoTypes' /\ DecoFrame(d) /\ DecoChange(d)
  BY DecoEffect
<1>3. i \in MsgIds /\ t \in PRScans /\ x \in OutTexts
  BY <1>1, <1>2, DecoratorFacts DEF SInv
<1>4. t = msgs[i].scan /\ x = msgs[i].text
  BY <1>1 DEF D!DecoScan, D!DecoText
<1>5. /\ \A j \in MsgIds \ {i} : msgs'[j] = msgs[j]
      /\ \A e \in D!Decorators \ {d} : deco'[e] = deco[e]
      /\ enabled' = enabled /\ notified' = notified
  BY <1>1, <1>2 DEF DecoFrame, Keeps, Drops, pollVars
<1>6. shown \in [PRScans -> SUBSET OutTexts] /\ lost \in SUBSET PRScans
  BY DEF SInv, DecoTypes
<1>7. \A s \in PRScans : shown[s] \subseteq shown'[s]
  <2>1. shown' = shown \/ shown' = [shown EXCEPT ![t] = @ \cup {x}]
    BY <1>1, <1>2 DEF DecoChange, DecoDone, DecoLost, DecoBack, DecoGone, DecoFound, DecoWrote, DecoUnheard,
                     SaidIt, DecoSame
  <2>. QED
    BY <1>3, <1>6, <2>1
<1>8. WrittenShown'
  <2>1. SUFFICES ASSUME NEW e \in D!Decorators, deco'[e].pc = "written"
                 PROVE  msgs'[deco'[e].id].text \in shown'[msgs'[deco'[e].id].scan]
    BY DEF WrittenShown, D!DecoText, D!DecoScan, D!Decorators
  <2>2. CASE e = d
    <3>1. DecoWrote(d)
      BY <1>2, <2>1, <2>2 DEF DecoChange, DecoDone, DecoLost, DecoBack, DecoGone, DecoFound, DecoUnheard, D!DecoIdle
    <3>2. deco'[d].id = i /\ msgs' = msgs /\ shown' = [shown EXCEPT ![t] = @ \cup {x}]
      BY <1>1, <3>1 DEF DecoWrote, SaidIt
    <3>3. x \in shown'[t]
      BY <1>3, <1>6, <3>2
    <3>. QED
      BY <1>4, <2>2, <3>2, <3>3
  <2>3. CASE e # d
    <3>1. deco'[e] = deco[e] /\ Decorating(e)
      BY <1>5, <2>1, <2>3 DEF Decorating
    <3>2. deco[e].id \in MsgIds \ {i}
      BY <1>1, <1>2, <2>3, <3>1, DecoratorFacts DEF SInv, DecoAlone
    <3>3. D!DecoText(e) \in shown[D!DecoScan(e)] /\ D!DecoScan(e) \in PRScans
      BY <2>1, <3>1, DecoratorFacts DEF WrittenShown, SInv
    <3>. QED
      BY <1>5, <1>7, <3>1, <3>2, <3>3 DEF D!DecoText, D!DecoScan
  <2>. QED
    BY <2>2, <2>3
<1>9. CASE Keeps(i) /\ lost' = lost
  <2>1. \A s \in PRScans : Outcome(s) \subseteq Outcome(s)'
    BY <1>3, <1>9, OutcomeKeeps
  <2>. QED
    BY <1>5, <1>7, <1>8, <1>9, <2>1, ReportKept
<1>10. CASE DecoDone(d) \/ DecoLost(d) \/ DecoUnheard(d)
  <2>1. Drops(i) /\ lost \subseteq lost'
    BY <1>1, <1>10 DEF DecoDone, DecoLost, DecoUnheard, DecoGone
  <2>2. \A s \in PRScans : Outcome(s)' = Outcome(s) \ {i}
    BY <1>3, <2>1, OutcomeKeeps
  <2>3. SUFFICES ASSUME NEW s \in PRScans, notified'[s] > 0, enabled', s \notin lost'
                 PROVE  Outcome(s)' # {} \/ shown'[s] \cap {"results", "error"} # {}
    BY <1>8 DEF ReportInPR
  <2>4. Outcome(s) # {} \/ shown[s] \cap {"results", "error"} # {}
    BY <1>5, <2>1, <2>3 DEF ReportInPR
  <2>5. CASE i \notin Outcome(s)
    BY <1>7, <2>2, <2>4, <2>5
  <2>6. CASE i \in Outcome(s)
    <3>1. s = t /\ x \in {"results", "error"}
      BY <1>4, <2>6 DEF Outcome
    <3>2. t \in D!LostNow(d)
      BY <1>1, <3>1 DEF D!LostNow
    <3>3. ~DecoLost(d) /\ ~DecoUnheard(d)
      BY <2>3, <3>1, <3>2 DEF DecoLost, DecoUnheard
    <3>4. deco[d].pc = "written"
      BY <1>5, <1>10, <2>3, <3>3 DEF DecoDone
    <3>5. x \in shown[t]
      BY <1>1, <3>4 DEF WrittenShown
    <3>. QED
      BY <1>3, <1>7, <3>1, <3>5
  <2>. QED
    BY <2>5, <2>6
<1>11. CASE DecoBack(d)
  BY <1>1, <1>9, <1>11 DEF DecoBack
<1>12. CASE DecoFound(d) \/ DecoWrote(d)
  <2>1. msgs' = msgs /\ lost' = lost
    BY <1>12 DEF DecoFound, DecoWrote
  <2>. QED
    BY <1>9, <2>1 DEF Keeps
<1>. QED
  BY <1>2, <1>10, <1>11, <1>12 DEF DecoChange

(* The message of a generator is not about a pull-request scan.             *)
LEMMA NotOfPR ==
  ASSUME SInv, NEW g \in Generators, Generating(g), Keeps(gen[g].id) \/ Drops(gen[g].id)
  PROVE  \A s \in PRScans : Outcome(s)' = Outcome(s)
<1>1. PICK i : i = gen[g].id
  OBVIOUS
<1>2. i \in MsgIds /\ msgs[i].queue = SarifGen
  BY <1>1, GeneratorFacts DEF SInv
<1>3. \A s \in PRScans : i \notin Outcome(s)
  BY <1>2, OutcomeFacts DEF SInv
<1>4. Keeps(i) \/ Drops(i)
  BY <1>1
<1>5. CASE Keeps(i)
  BY <1>2, <1>5, OutcomeKeeps
<1>6. CASE Drops(i)
  <2>1. SUFFICES ASSUME NEW s \in PRScans PROVE Outcome(s)' = Outcome(s)
    OBVIOUS
  <2>2. Outcome(s)' = Outcome(s) \ {i}
    BY <1>2, <1>6, OutcomeKeeps
  <2>3. i \notin Outcome(s)
    BY <1>3
  <2>. QED
    BY <2>2, <2>3
<1>. QED
  BY <1>4, <1>5, <1>6

PRInv == SInv /\ WrittenShown /\ ReportInPR

(* Every step keeps the invariant of pull-request outcomes.                 *)
LEMMA NextPRInv == PRInv /\ [SysNext]_sysVars => PRInv'
<1>1. SUFFICES ASSUME PRInv, [SysNext]_sysVars PROVE PRInv'
  OBVIOUS
<1>2. SInv /\ SInv' /\ WrittenShown /\ ReportInPR
  BY <1>1, NextSInv DEF PRInv
<1>3. lost \in SUBSET PRScans
  BY <1>2 DEF SInv, DecoTypes
<1>4. PRScans \subseteq Scans
  BY DEF Scans
<1>5. CASE Next /\ UNCHANGED <<decoVars, sarifVars>>
  <2>1. enabled' = enabled /\ deco' = deco /\ shown' = shown /\ lost' = lost
    BY <1>5 DEF decoVars
  <2>2. \A j \in MsgIds : msgs[j].queue \in OutQueues => msgs'[j] = msgs[j]
    BY <1>2, <1>5, PollingStep DEF SInv
  <2>3. \A d \in D!Decorators : Decorating(d) => msgs'[deco[d].id] = msgs[deco[d].id]
    BY <1>2, <2>2, DecoratorFacts DEF SInv
  <2>4. WrittenShown'
    BY <1>2, <2>1, <2>3, WrittenKept
  <2>5. \A s \in PRScans : /\ Outcome(s) \subseteq Outcome(s)'
                           /\ notified'[s] = notified[s] \/ Outcome(s)' # {}
    BY <1>2, <1>4, <1>5, OutcomeNext
  <2>6. ReportInPR'
    BY <1>2, <2>1, <2>5 DEF ReportInPR
  <2>. QED
    BY <1>2, <2>4, <2>6 DEF PRInv
<1>6. CASE (D!OtherComment \/ UserStep) /\ UNCHANGED <<pollVars, sarifVars>>
  <2>1. /\ msgs' = msgs /\ enabled' = enabled /\ deco' = deco /\ shown' = shown /\ lost' = lost
        /\ notified' = notified
    BY <1>6, UserEffect DEF D!OtherComment, pollVars
  <2>2. WrittenShown'
    BY <1>2, <2>1, WrittenKept
  <2>3. ReportInPR'
    BY <1>2, <2>1, ReportKept DEF Outcome
  <2>. QED
    BY <1>2, <2>2, <2>3 DEF PRInv
<1>7. ASSUME NEW d \in D!Decorators, D!DecoStep(d) \/ D!DecoCrash(d), UNCHANGED <<pollVars, sarifVars>>
      PROVE  PRInv'
  BY <1>2, <1>7, DecoReports DEF PRInv
<1>8. ASSUME NEW d \in D!Decorators, NEW i \in MsgIds, D!DecoReceive(d, i), UNCHANGED <<pollVars, sarifVars>>
      PROVE  PRInv'
  <2>1. /\ i \in Ready(msgs, D!QueueOf(d)) /\ msgs' = Deliver(msgs, i)
        /\ deco' = [deco EXCEPT ![d] = [D!DecoIdle EXCEPT !.pc = "received", !.id = i]]
        /\ disturb' = disturb /\ enabled' = enabled /\ shown' = shown /\ lost' = lost
        /\ notified' = notified /\ UNCHANGED pollVars
    BY <1>8, SameBroker DEF D!DecoReceive, pollVars
  <2>2. D!QueueOf(d) \in OutQueues
    BY OutFacts DEF OutQueues
  <2>3. Keeps(i)
    BY <1>2, <2>1, <2>2, ReceiveEffect DEF SInv
  <2>4. deco \in [D!Decorators -> DecoRec]
    BY <1>2 DEF SInv, DecoTypes
  <2>5. \A e \in D!Decorators : deco'[e].pc = "written" => deco'[e] = deco[e]
    BY <2>1, <2>4 DEF D!DecoIdle
  <2>6. WrittenShown'
    <3>1. \A j \in MsgIds : msgs'[j].scan = msgs[j].scan /\ msgs'[j].text = msgs[j].text
      BY <2>3 DEF Keeps
    <3>2. \A e \in D!Decorators : deco[e].pc = "written" => deco[e].id \in MsgIds
      BY <1>2 DEF SInv, DecoHold, Decorating
    <3>. QED
      BY <1>2, <2>1, <2>5, <3>1, <3>2 DEF WrittenShown, D!DecoText, D!DecoScan, D!Decorators
  <2>7. \A s \in PRScans : Outcome(s) \subseteq Outcome(s)'
    BY <2>3, OutcomeKeeps
  <2>8. ReportInPR'
    BY <1>2, <2>1, <2>7, ReportKept
  <2>. QED
    BY <1>2, <2>6, <2>8 DEF PRInv
<1>9. CASE G!SarifNext /\ UNCHANGED <<pollVars, decoVars>>
  <2>1. enabled' = enabled /\ deco' = deco /\ shown' = shown /\ lost' = lost /\ notified' = notified
    BY <1>9 DEF decoVars, pollVars
  <2>2. /\ \A s \in PRScans : Outcome(s)' = Outcome(s)
        /\ \A d \in D!Decorators : Decorating(d) =>
             msgs'[deco[d].id].scan = msgs[deco[d].id].scan /\ msgs'[deco[d].id].text = msgs[deco[d].id].text
    <3>1. ASSUME NEW g \in Generators, G!SarifStep(g) \/ G!SarifCrash(g)
          PROVE  /\ \A s \in PRScans : Outcome(s)' = Outcome(s)
                 /\ \A d \in D!Decorators : Decorating(d) => msgs'[deco[d].id] = msgs[deco[d].id]
      <4>1. Generating(g) /\ (Keeps(gen[g].id) \/ Drops(gen[g].id))
        BY <1>2, <3>1, GenEffect DEF GenFrame
      <4>2. \A d \in D!Decorators : Decorating(d) => deco[d].id \in MsgIds \ {gen[g].id}
        BY <1>2, <4>1, GeneratorFacts, DecoratorFacts, OutFacts DEF SInv
      <4>3. \A j \in MsgIds \ {gen[g].id} : msgs'[j] = msgs[j]
        BY <4>1 DEF Keeps, Drops
      <4>. QED
        BY <1>2, <4>1, <4>2, <4>3, NotOfPR
    <3>2. ASSUME NEW g \in Generators, NEW i \in MsgIds, G!SarifReceive(g, i)
          PROVE  \A j \in MsgIds : msgs'[j].scan = msgs[j].scan /\ msgs'[j].text = msgs[j].text
      <4>1. i \in Ready(msgs, SarifGen) /\ msgs' = Deliver(msgs, i) /\ disturb' = disturb /\ UNCHANGED pollVars
        BY <1>9, <3>2, SameBroker DEF G!SarifReceive
      <4>2. Keeps(i)
        BY <1>2, <4>1, ReceiveEffect DEF SInv, OutQueues
      <4>. QED
        BY <4>2 DEF Keeps
    <3>3. \A d \in D!Decorators : Decorating(d) => deco[d].id \in MsgIds
      BY <1>2 DEF SInv, DecoHold
    <3>4. CASE \E g \in Generators : G!SarifStep(g) \/ G!SarifCrash(g)
      BY <3>1, <3>4
    <3>5. CASE \E g \in Generators, i \in MsgIds : G!SarifReceive(g, i)
      BY <3>2, <3>3, <3>5 DEF Outcome
    <3>. QED
      BY <1>9, <3>4, <3>5 DEF G!SarifNext
  <2>3. WrittenShown'
    BY <1>2, <2>1, <2>2, WrittenKept
  <2>4. ReportInPR'
    BY <1>2, <2>1, <2>2, ReportKept
  <2>. QED
    BY <1>2, <2>3, <2>4 DEF PRInv
<1>10. CASE UNCHANGED sysVars
  <2>1. /\ msgs' = msgs /\ enabled' = enabled /\ deco' = deco /\ shown' = shown /\ lost' = lost
        /\ notified' = notified
    BY <1>10 DEF sysVars
  <2>2. WrittenShown'
    BY <1>2, <2>1, WrittenKept
  <2>3. ReportInPR'
    BY <1>2, <2>1, ReportKept DEF Outcome
  <2>. QED
    BY <1>2, <2>2, <2>3 DEF PRInv
<1>. QED
  BY <1>1, <1>5, <1>6, <1>7, <1>8, <1>9, <1>10 DEF SysNext, D!DecoNext, UserStep

(* No crash, redelivery, retry or concurrent handler loses the outcome of a *)
(* started pull-request scan: it is on its way or has been written to the   *)
(* pull request, unless a logged reason ended it.  Once scan polling has    *)
(* reported, the outcome is a message or a text that was written, because a *)
(* handler acknowledges after it wrote (WrittenShown); before, it is the    *)
(* await message of MonitoringSurvives.                                     *)
THEOREM OutcomeOfPRSurvives == SysSpec => []OutcomeReachesPR
<1>1. SysInit => PRInv
  <2>1. SUFFICES ASSUME SysInit PROVE PRInv
    OBVIOUS
  <2>2. Init /\ D!DecoInit
    BY <2>1 DEF SysInit
  <2>3. WrittenShown
    <3>1. \A d \in D!Decorators : deco[d].pc = "idle"
      BY <2>2 DEF D!DecoInit, D!DecoIdle
    <3>. QED
      BY <3>1 DEF WrittenShown
  <2>4. ReportInPR
    BY <2>2 DEF Init, ReportInPR, Scans
  <2>. QED
    BY <2>1, <2>3, <2>4, InitSInv DEF PRInv
<1>2. PRInv => OutcomeReachesPR
  <2>1. SUFFICES ASSUME PRInv, NEW s \in PRScans, enabled, Started(s), stopped[s] = {}, s \notin lost
                 PROVE  Underway(s) \/ shown[s] \cap {"results", "error"} # {}
    BY DEF OutcomeReachesPR
  <2>2. s \in Scans /\ notified[s] \in Nat /\ MonitoringSurvives
    BY <2>1, PollParts DEF PRInv, SInv, IInv, TypeOK, Scans
  <2>3. CASE notified[s] = 0
    BY <2>1, <2>2, <2>3 DEF MonitoringSurvives, Started, Underway
  <2>4. CASE notified[s] > 0
    <3>1. Outcome(s) # {} \/ shown[s] \cap {"results", "error"} # {}
      BY <2>1, <2>4 DEF PRInv, ReportInPR
    <3>. QED
      BY <3>1 DEF Outcome, Underway
  <2>. QED
    BY <2>2, <2>3, <2>4
<1>. QED
  BY <1>1, <1>2, NextPRInv, PTL DEF SysSpec

(* A comment of another user is never overwritten, whatever is added to the *)
(* pull request between the search and the write of any handler: the        *)
(* comment found is CxOneFlow's and stays so (TargetsOwn).                  *)
THEOREM ForeignNeverTouched == SysSpec => ForeignUntouched
<1>1. SInv /\ [SysNext]_sysVars
        => [\A n \in DOMAIN thread : thread[n].text = "other" => thread'[n] = thread[n]]_sysVars
  <2>1. SUFFICES ASSUME SInv, [SysNext]_sysVars
                 PROVE  \/ \A n \in DOMAIN thread : thread[n].text = "other" => thread'[n] = thread[n]
                        \/ UNCHANGED sysVars
    OBVIOUS
  <2>2. thread \in Seq(Comments)
    BY <2>1 DEF SInv, DecoTypes
  <2>3. CASE thread' = thread
    BY <2>3
  <2>4. CASE ThreadGrows
    BY <2>2, <2>4, ThreadFacts DEF ThreadGrows
  <2>5. CASE Next /\ UNCHANGED <<decoVars, sarifVars>>
    BY <2>3, <2>5 DEF decoVars
  <2>6. CASE G!SarifNext /\ UNCHANGED <<pollVars, decoVars>>
    BY <2>3, <2>6 DEF decoVars
  <2>7. ASSUME NEW d \in D!Decorators, D!DecoStep(d) \/ D!DecoCrash(d)
        PROVE  ThreadGrows
    BY <2>1, <2>7, DecoEffect, DecoThread
  <2>8. CASE D!DecoNext
    BY <2>1, <2>3, <2>4, <2>7, <2>8, OtherEffect, UserEffect DEF D!DecoNext, D!DecoReceive, UserStep
  <2>. QED
    BY <2>1, <2>5, <2>6, <2>8 DEF SysNext
<1>. QED
  BY <1>1, SystemInvariant, PTL DEF SysSpec, ForeignUntouched
-----------------------------------------------------------------------------
(***************************************************************************)
(* The outcome of a push scan.                                              *)
(***************************************************************************)
SettledNext(s, a) == sarifs'[s][a] > 0 \/ a \in undelivered'[s]

MoreSettled == \A s \in PushScans, a \in G!Agents : Settled(s, a) => SettledNext(s, a)

(* The message of a decorator is not about a push scan.                     *)
LEMMA NotOfPush ==
  ASSUME SInv, NEW d \in D!Decorators, Decorating(d), Keeps(deco[d].id) \/ Drops(deco[d].id)
  PROVE  \A s \in PushScans : Outcome(s)' = Outcome(s)
<1>1. PICK i : i = deco[d].id
  OBVIOUS
<1>2. i \in MsgIds /\ msgs[i].queue # SarifGen
  BY <1>1, DecoratorFacts, OutFacts DEF SInv
<1>3. \A s \in PushScans : i \notin Outcome(s)
  BY <1>2, OutcomeFacts DEF SInv
<1>4. Keeps(i) \/ Drops(i)
  BY <1>1
<1>5. CASE Keeps(i)
  BY <1>2, <1>5, OutcomeKeeps
<1>6. CASE Drops(i)
  <2>1. SUFFICES ASSUME NEW s \in PushScans PROVE Outcome(s)' = Outcome(s)
    OBVIOUS
  <2>2. Outcome(s)' = Outcome(s) \ {i}
    BY <1>2, <1>6, OutcomeKeeps
  <2>3. i \notin Outcome(s)
    BY <1>3
  <2>. QED
    BY <2>2, <2>3
<1>. QED
  BY <1>4, <1>5, <1>6

(* A step that acknowledges no outcome and unsettles no agent.              *)
LEMMA AgentsKept ==
  ASSUME ReportAtAgents, sarifEnabled' = sarifEnabled, notified' = notified, MoreSettled,
         \A s \in PushScans : Outcome(s) \subseteq Outcome(s)'
  PROVE  ReportAtAgents'
<1>1. SUFFICES ASSUME NEW s \in PushScans, notified'[s] > 0, sarifEnabled'
               PROVE  Outcome(s)' # {} \/ \A a \in G!Agents : SettledNext(s, a)
  BY DEF ReportAtAgents, G!Agents, Settled, SettledNext
<1>2. Outcome(s) # {} \/ \A a \in G!Agents : Settled(s, a)
  BY <1>1 DEF ReportAtAgents
<1>. QED
  BY <1>2 DEF MoreSettled, Settled, SettledNext

(* A step of others leaves the agents that have ended settled.              *)
LEMMA EndedKept ==
  ASSUME SInv, EndedSettled, gen' = gen, MoreSettled,
         \A g \in Generators : Generating(g) => msgs'[gen[g].id].scan = msgs[gen[g].id].scan
  PROVE  EndedSettled'
<1>1. SUFFICES ASSUME NEW g \in Generators, gen'[g].pc = "deliver", NEW a \in gen'[g].ended
               PROVE  SettledNext(msgs'[gen'[g].id].scan, a)
  BY DEF EndedSettled, G!GenScan, Settled, SettledNext
<1>2. Generating(g)
  BY <1>1 DEF Generating
<1>3. G!GenScan(g) \in PushScans /\ a \in G!Agents
  BY <1>1, <1>2, GeneratorFacts DEF SInv, GenTypes, GenOK, GenRec
<1>4. PICK s : s = G!GenScan(g)
  OBVIOUS
<1>5. Settled(s, a)
  BY <1>1, <1>4 DEF EndedSettled
<1>6. SettledNext(s, a) /\ msgs'[gen'[g].id].scan = s
  BY <1>2, <1>3, <1>4, <1>5 DEF MoreSettled, G!GenScan
<1>. QED
  BY <1>6

(* The agents a step of a generator settles.                                *)
LEMMA GenSettles ==
  ASSUME SInv, NEW g \in Generators, Generating(g), GenTypes', GenChange(g), NEW t, t = G!GenScan(g)
  PROVE  /\ MoreSettled
         /\ GenAborted(g) => \A a \in G!Agents : SettledNext(t, a)
         /\ \A a \in G!Agents : GenAccepted(g, a) \/ GenGaveUp(g, a) => SettledNext(t, a)
<1>1. t \in PushScans
  BY GeneratorFacts DEF SInv
<1>2. sarifs \in [PushScans -> [G!Agents -> Nat]] /\ undelivered \in [PushScans -> SUBSET G!Agents]
  BY DEF SInv, GenTypes
<1>3. ASSUME GenSame
      PROVE  MoreSettled
  BY <1>3 DEF GenSame, MoreSettled, Settled, SettledNext
<1>4. ASSUME GenAborted(g)
      PROVE  MoreSettled /\ \A a \in G!Agents : SettledNext(t, a)
  <2>1. sarifs' = sarifs /\ undelivered' = [undelivered EXCEPT ![t] = G!Agents]
    BY <1>4 DEF GenAborted, GenGone
  <2>. QED
    BY <1>1, <1>2, <2>1 DEF MoreSettled, Settled, SettledNext
<1>5. ASSUME NEW a \in G!Agents, GenAccepted(g, a)
      PROVE  MoreSettled /\ SettledNext(t, a)
  <2>1. undelivered' = undelivered /\ sarifs' = [sarifs EXCEPT ![t][a] = @ + 1]
    BY <1>5 DEF GenAccepted
  <2>2. \A s \in PushScans, b \in G!Agents :
          sarifs'[s][b] = IF s = t /\ b = a THEN sarifs[s][b] + 1 ELSE sarifs[s][b]
    BY <1>1, <1>2, <2>1
  <2>3. \A s \in PushScans, b \in G!Agents : sarifs[s][b] \in Nat
    BY <1>2
  <2>. QED
    BY <1>1, <2>1, <2>2, <2>3 DEF MoreSettled, Settled, SettledNext
<1>6. ASSUME NEW a \in G!Agents, GenGaveUp(g, a)
      PROVE  MoreSettled /\ SettledNext(t, a)
  <2>1. sarifs' = sarifs /\ undelivered' = [undelivered EXCEPT ![t] = @ \cup {a}]
    BY <1>6 DEF GenGaveUp
  <2>. QED
    BY <1>1, <1>2, <2>1 DEF MoreSettled, Settled, SettledNext
<1>7. MoreSettled
  BY <1>3, <1>4, <1>5, <1>6
  DEF GenChange, GenDone, GenGone, GenBack, GenMade, GenTurn, GenRefused, GenSame
<1>. QED
  BY <1>4, <1>5, <1>6, <1>7

(* A generator acknowledges an outcome only once every agent is settled.    *)
LEMMA GenReports ==
  ASSUME SInv, EndedSettled, ReportAtAgents, NEW g \in Generators, G!SarifStep(g) \/ G!SarifCrash(g),
         UNCHANGED <<pollVars, decoVars>>
  PROVE  EndedSettled' /\ ReportAtAgents'
<1>1. PICK i, t : i = gen[g].id /\ t = G!GenScan(g)
  OBVIOUS
<1>2. Generating(g) /\ GenTypes' /\ GenFrame(g) /\ GenChange(g)
  BY GenEffect
<1>3. i \in MsgIds /\ t \in PushScans /\ t = msgs[i].scan
  BY <1>1, <1>2, GeneratorFacts DEF SInv, G!GenScan
<1>4. /\ \A j \in MsgIds \ {i} : msgs'[j] = msgs[j]
      /\ \A h \in Generators \ {g} : gen'[h] = gen[h]
      /\ sarifEnabled' = sarifEnabled /\ notified' = notified
  BY <1>1, <1>2 DEF GenFrame, Keeps, Drops, pollVars
<1>5. /\ MoreSettled
      /\ GenAborted(g) => \A a \in G!Agents : SettledNext(t, a)
      /\ \A a \in G!Agents : GenAccepted(g, a) \/ GenGaveUp(g, a) => SettledNext(t, a)
  BY <1>1, <1>2, GenSettles
<1>6. \A h \in Generators : gen[h].ended \in SUBSET G!Agents
  BY DEF SInv, GenTypes, GenOK, GenRec
<1>7. EndedSettled'
  <2>1. SUFFICES ASSUME NEW h \in Generators, gen'[h].pc = "deliver", NEW a \in gen'[h].ended
                 PROVE  SettledNext(msgs'[gen'[h].id].scan, a)
    BY DEF EndedSettled, G!GenScan, Settled, SettledNext
  <2>2. CASE h # g
    <3>1. gen'[h] = gen[h] /\ Generating(h)
      BY <1>4, <2>1, <2>2 DEF Generating
    <3>2. gen[h].id \in MsgIds \ {i} /\ G!GenScan(h) \in PushScans /\ a \in G!Agents
      BY <1>1, <1>2, <1>6, <2>1, <2>2, <3>1, GeneratorFacts DEF SInv, GenAlone
    <3>3. PICK s : s = G!GenScan(h)
      OBVIOUS
    <3>4. Settled(s, a)
      BY <2>1, <3>1, <3>3 DEF EndedSettled
    <3>5. SettledNext(s, a) /\ msgs'[gen'[h].id].scan = s
      BY <1>4, <1>5, <3>1, <3>2, <3>3, <3>4 DEF MoreSettled, G!GenScan
    <3>. QED
      BY <3>5
  <2>3. CASE h = g
    <3>1. GenMade(g) \/ \E b \in G!Agents : GenTurn(g, b)
      BY <1>2, <2>1, <2>3 DEF GenChange, GenDone, GenAborted, GenGone, GenBack, G!GenIdle
    <3>2. PICK b \in G!Agents : GenTurn(g, b)
      BY <2>1, <2>3, <3>1 DEF GenMade
    <3>3. msgs' = msgs /\ gen'[g].id = i
      BY <1>1, <3>2 DEF GenTurn, GenQuiet
    <3>4. msgs'[gen'[h].id].scan = t
      BY <1>3, <2>3, <3>3
    <3>5. \A c \in gen[g].ended : SettledNext(t, c)
      <4>1. gen[g].pc = "deliver"
        BY <3>2 DEF GenTurn, G!Delivering
      <4>2. \A c \in gen[g].ended : Settled(t, c) /\ c \in G!Agents
        BY <1>1, <1>6, <4>1 DEF EndedSettled
      <4>. QED
        BY <1>3, <1>5, <4>2 DEF MoreSettled, Settled, SettledNext
    <3>6. SettledNext(t, a)
      BY <1>5, <2>1, <2>3, <3>2, <3>5 DEF GenTurn, GenAccepted, GenRefused, GenGaveUp
    <3>. QED
      BY <3>4, <3>6
  <2>. QED
    BY <2>2, <2>3
<1>8. CASE Keeps(i)
  <2>1. \A s \in PushScans : Outcome(s) \subseteq Outcome(s)'
    BY <1>3, <1>8, OutcomeKeeps
  <2>. QED
    BY <1>4, <1>5, <1>7, <2>1, AgentsKept
<1>9. CASE GenDone(g) \/ GenAborted(g)
  <2>1. Drops(i)
    BY <1>1, <1>9 DEF GenDone, GenAborted, GenGone
  <2>2. \A s \in PushScans : Outcome(s)' = Outcome(s) \ {i}
    BY <1>3, <2>1, OutcomeKeeps
  <2>3. SUFFICES ASSUME NEW s \in PushScans, notified'[s] > 0, sarifEnabled'
                 PROVE  Outcome(s)' # {} \/ \A a \in G!Agents : SettledNext(s, a)
    BY <1>7 DEF ReportAtAgents, G!Agents, Settled, SettledNext
  <2>4. Outcome(s) # {} \/ \A a \in G!Agents : Settled(s, a)
    BY <1>4, <2>3 DEF ReportAtAgents
  <2>5. CASE i \notin Outcome(s)
    BY <1>5, <2>2, <2>4, <2>5 DEF MoreSettled, Settled, SettledNext
  <2>6. CASE i \in Outcome(s) /\ GenAborted(g)
    BY <1>3, <1>5, <2>6 DEF Outcome
  <2>7. CASE i \in Outcome(s) /\ GenDone(g)
    <3>1. s = t /\ gen[g].pc = "deliver" /\ gen[g].ended = G!Agents
      BY <1>3, <1>4, <2>3, <2>7 DEF GenDone, Outcome
    <3>2. \A a \in G!Agents : Settled(t, a)
      BY <1>1, <3>1 DEF EndedSettled
    <3>. QED
      BY <1>3, <1>5, <3>1, <3>2 DEF MoreSettled, Settled, SettledNext
  <2>. QED
    BY <1>9, <2>5, <2>6, <2>7
<1>10. GenBack(g) => Keeps(i)
  BY <1>1 DEF GenBack
<1>11. GenMade(g) \/ (\E a \in G!Agents : GenTurn(g, a)) => Keeps(i)
  BY DEF GenMade, GenTurn, GenQuiet, Keeps
<1>. QED
  BY <1>2, <1>8, <1>9, <1>10, <1>11 DEF GenChange

AgentsInv == SInv /\ EndedSettled /\ ReportAtAgents

(* Every step keeps the invariant of push outcomes.                         *)
LEMMA NextAgentsInv == AgentsInv /\ [SysNext]_sysVars => AgentsInv'
<1>1. SUFFICES ASSUME AgentsInv, [SysNext]_sysVars PROVE AgentsInv'
  OBVIOUS
<1>2. SInv /\ SInv' /\ EndedSettled /\ ReportAtAgents
  BY <1>1, NextSInv DEF AgentsInv
<1>3. PushScans \subseteq Scans
  BY DEF Scans
<1>4. UNCHANGED sarifVars => MoreSettled /\ gen' = gen /\ sarifEnabled' = sarifEnabled
  BY DEF sarifVars, MoreSettled, Settled, SettledNext
<1>5. CASE Next /\ UNCHANGED <<decoVars, sarifVars>>
  <2>1. MoreSettled /\ gen' = gen /\ sarifEnabled' = sarifEnabled
    BY <1>4, <1>5
  <2>2. \A j \in MsgIds : msgs[j].queue \in OutQueues => msgs'[j] = msgs[j]
    BY <1>2, <1>5, PollingStep DEF SInv
  <2>3. \A g \in Generators : Generating(g) => msgs'[gen[g].id] = msgs[gen[g].id]
    BY <1>2, <2>2, GeneratorFacts DEF SInv
  <2>4. EndedSettled'
    BY <1>2, <2>1, <2>3, EndedKept
  <2>5. \A s \in PushScans : /\ Outcome(s) \subseteq Outcome(s)'
                             /\ notified'[s] = notified[s] \/ Outcome(s)' # {}
    BY <1>2, <1>3, <1>5, OutcomeNext
  <2>6. ReportAtAgents'
    <3>1. SUFFICES ASSUME NEW s \in PushScans, notified'[s] > 0, sarifEnabled', Outcome(s)' = {}
                   PROVE  \A a \in G!Agents : SettledNext(s, a)
      BY DEF ReportAtAgents, G!Agents, Settled, SettledNext
    <3>2. notified[s] > 0 /\ Outcome(s) = {}
      BY <2>5, <3>1
    <3>3. \A a \in G!Agents : Settled(s, a)
      BY <1>2, <2>1, <3>1, <3>2 DEF ReportAtAgents
    <3>. QED
      BY <2>1, <3>3 DEF MoreSettled
  <2>. QED
    BY <1>2, <2>4, <2>6 DEF AgentsInv
<1>6. CASE D!DecoNext /\ UNCHANGED <<pollVars, sarifVars>>
  <2>1. MoreSettled /\ gen' = gen /\ sarifEnabled' = sarifEnabled /\ notified' = notified
    BY <1>4, <1>6 DEF pollVars
  <2>2. /\ \A s \in PushScans : Outcome(s) \subseteq Outcome(s)'
        /\ \A g \in Generators : Generating(g) => msgs'[gen[g].id].scan = msgs[gen[g].id].scan
    <3>1. ASSUME NEW d \in D!Decorators, D!DecoStep(d) \/ D!DecoCrash(d)
          PROVE  /\ \A s \in PushScans : Outcome(s) \subseteq Outcome(s)'
                 /\ \A g \in Generators : Generating(g) => msgs'[gen[g].id] = msgs[gen[g].id]
      <4>1. Decorating(d) /\ (Keeps(deco[d].id) \/ Drops(deco[d].id))
        BY <1>2, <3>1, DecoEffect DEF DecoFrame
      <4>2. \A g \in Generators : Generating(g) => gen[g].id \in MsgIds \ {deco[d].id}
        BY <1>2, <4>1, GeneratorFacts, DecoratorFacts, OutFacts DEF SInv
      <4>3. \A j \in MsgIds \ {deco[d].id} : msgs'[j] = msgs[j]
        BY <4>1 DEF Keeps, Drops
      <4>4. \A s \in PushScans : Outcome(s)' = Outcome(s)
        BY <1>2, <4>1, NotOfPush
      <4>. QED
        BY <4>2, <4>3, <4>4
    <3>2. ASSUME NEW d \in D!Decorators, NEW i \in MsgIds, D!DecoReceive(d, i)
          PROVE  \A j \in MsgIds : msgs'[j].scan = msgs[j].scan /\ msgs'[j].text = msgs[j].text
      <4>1. /\ i \in Ready(msgs, D!QueueOf(d)) /\ msgs' = Deliver(msgs, i) /\ disturb' = disturb
            /\ UNCHANGED pollVars /\ D!QueueOf(d) \in OutQueues
        BY <1>6, <3>2, SameBroker, OutFacts DEF D!DecoReceive, OutQueues
      <4>2. Keeps(i)
        BY <1>2, <4>1, ReceiveEffect DEF SInv
      <4>. QED
        BY <4>2 DEF Keeps
    <3>3. \A g \in Generators : Generating(g) => gen[g].id \in MsgIds
      BY <1>2 DEF SInv, GenHold
    <3>4. CASE \E d \in D!Decorators : D!DecoStep(d) \/ D!DecoCrash(d)
      BY <3>1, <3>4
    <3>5. CASE \E d \in D!Decorators, i \in MsgIds : D!DecoReceive(d, i)
      BY <3>2, <3>3, <3>5 DEF Outcome
    <3>6. CASE D!OtherComment \/ UserStep
      BY <3>6, UserEffect DEF D!OtherComment, Outcome
    <3>. QED
      BY <1>6, <3>4, <3>5, <3>6 DEF D!DecoNext, UserStep
  <2>3. EndedSettled'
    BY <1>2, <2>1, <2>2, EndedKept
  <2>4. ReportAtAgents'
    BY <1>2, <2>1, <2>2, AgentsKept
  <2>. QED
    BY <1>2, <2>3, <2>4 DEF AgentsInv
<1>7. ASSUME NEW g \in Generators, G!SarifStep(g) \/ G!SarifCrash(g), UNCHANGED <<pollVars, decoVars>>
      PROVE  AgentsInv'
  BY <1>2, <1>7, GenReports DEF AgentsInv
<1>8. ASSUME NEW g \in Generators, NEW i \in MsgIds, G!SarifReceive(g, i), UNCHANGED <<pollVars, decoVars>>
      PROVE  AgentsInv'
  <2>1. /\ i \in Ready(msgs, SarifGen) /\ msgs' = Deliver(msgs, i)
        /\ gen' = [gen EXCEPT ![g] = [G!GenIdle EXCEPT !.pc = "received", !.id = i]]
        /\ disturb' = disturb /\ sarifEnabled' = sarifEnabled /\ notified' = notified
        /\ sarifs' = sarifs /\ undelivered' = undelivered /\ UNCHANGED pollVars
    BY <1>8, SameBroker DEF G!SarifReceive, pollVars
  <2>2. Keeps(i)
    BY <1>2, <2>1, ReceiveEffect DEF SInv, OutQueues
  <2>3. MoreSettled
    BY <2>1 DEF MoreSettled, Settled, SettledNext
  <2>4. EndedSettled'
    <3>1. gen \in [Generators -> GenRec]
      BY <1>2 DEF SInv, GenTypes
    <3>2. \A h \in Generators : gen'[h].pc = "deliver" => gen'[h] = gen[h]
      BY <2>1, <3>1 DEF G!GenIdle
    <3>3. \A j \in MsgIds : msgs'[j].scan = msgs[j].scan
      BY <2>2 DEF Keeps
    <3>4. \A h \in Generators : gen[h].pc = "deliver" => gen[h].id \in MsgIds
      BY <1>2 DEF SInv, GenHold, Generating
    <3>. QED
      BY <1>2, <2>1, <3>2, <3>3, <3>4 DEF EndedSettled, Settled, G!GenScan
  <2>5. \A s \in PushScans : Outcome(s) \subseteq Outcome(s)'
    BY <2>2, OutcomeKeeps
  <2>6. ReportAtAgents'
    BY <1>2, <2>1, <2>3, <2>5, AgentsKept
  <2>. QED
    BY <1>2, <2>4, <2>6 DEF AgentsInv
<1>9. CASE UNCHANGED sysVars
  <2>1. /\ msgs' = msgs /\ notified' = notified /\ gen' = gen /\ sarifEnabled' = sarifEnabled
        /\ UNCHANGED sarifVars
    BY <1>9 DEF sysVars, sarifVars
  <2>2. EndedSettled'
    BY <1>2, <1>4, <2>1, EndedKept
  <2>3. ReportAtAgents'
    BY <1>2, <1>4, <2>1, AgentsKept DEF Outcome
  <2>. QED
    BY <1>2, <2>2, <2>3 DEF AgentsInv
<1>. QED
  BY <1>1, <1>5, <1>6, <1>7, <1>8, <1>9 DEF SysNext, G!SarifNext

(* For pushes: the outcome of a started scan is on its way, or every        *)
(* delivery agent has delivered it or given up, unless a logged reason      *)
(* ended it.  The message is acknowledged when every agent is through, and  *)
(* an agent is through when it delivered or gave up (EndedSettled).         *)
THEOREM OutcomeOfPushSurvives == SysSpec => []OutcomeReachesAgents
<1>1. SysInit => AgentsInv
  <2>1. SUFFICES ASSUME SysInit PROVE AgentsInv
    OBVIOUS
  <2>2. Init /\ G!SarifInit
    BY <2>1 DEF SysInit
  <2>3. \A g \in Generators : gen[g].pc = "idle"
    BY <2>2 DEF G!SarifInit, G!GenIdle
  <2>4. \A s \in PushScans : notified[s] = 0
    BY <2>2 DEF Init, Scans
  <2>. QED
    BY <2>1, <2>3, <2>4, InitSInv DEF AgentsInv, EndedSettled, ReportAtAgents
<1>2. AgentsInv => OutcomeReachesAgents
  <2>1. SUFFICES ASSUME AgentsInv, NEW s \in PushScans, sarifEnabled, Started(s), stopped[s] = {}
                 PROVE  Underway(s) \/ \A a \in G!Agents : sarifs[s][a] > 0 \/ a \in undelivered[s]
    BY DEF OutcomeReachesAgents
  <2>2. s \in Scans /\ notified[s] \in Nat /\ MonitoringSurvives
    BY <2>1, PollParts DEF AgentsInv, SInv, IInv, TypeOK, Scans
  <2>3. CASE notified[s] = 0
    BY <2>1, <2>2, <2>3 DEF MonitoringSurvives, Started, Underway
  <2>4. CASE notified[s] > 0
    <3>1. Outcome(s) # {} \/ \A a \in G!Agents : Settled(s, a)
      BY <2>1, <2>4 DEF AgentsInv, ReportAtAgents
    <3>. QED
      BY <3>1 DEF Outcome, Underway, Settled
  <2>. QED
    BY <2>2, <2>3, <2>4
<1>. QED
  BY <1>1, <1>2, NextAgentsInv, PTL DEF SysSpec
-----------------------------------------------------------------------------
(***************************************************************************)
(* The number of CxOneFlow's comments.                                      *)
(***************************************************************************)
Others == DOMAIN thread \ D!Own

(* The sets counted are finite.                                             *)
LEMMA CommentSets ==
  ASSUME thread \in Seq(Comments)
  PROVE  /\ IsFiniteSet(D!Own) /\ IsFiniteSet(Others)
         /\ Cardinality(D!Own) \in Nat /\ Cardinality(Others) \in Nat
         /\ Cardinality(D!Own) + Cardinality(Others) = Len(thread)
<1>1. Len(thread) \in Nat /\ DOMAIN thread = 1..Len(thread) /\ D!Own \subseteq 1..Len(thread)
  BY ThreadFacts
<1>2. IsFiniteSet(1..Len(thread)) /\ Cardinality(1..Len(thread)) = Len(thread)
  <2>1. IsFiniteSet(1..Len(thread)) /\ Cardinality(1..Len(thread)) = (IF 1 > Len(thread) THEN 0 ELSE Len(thread) - 1 + 1)
    BY <1>1, FS_Interval
  <2>. QED
    BY <1>1, <2>1
<1>3. IsFiniteSet(D!Own) /\ Cardinality(D!Own) \in Nat
  BY <1>1, <1>2, FS_Subset, FS_CardinalityType
<1>4. IsFiniteSet(Others) /\ Cardinality(Others) \in Nat
  BY <1>1, <1>2, FS_Subset, FS_CardinalityType DEF Others
<1>5. Cardinality(Others) = Cardinality(1..Len(thread)) - Cardinality((1..Len(thread)) \cap D!Own)
  BY <1>1, <1>2, FS_Difference DEF Others
<1>6. (1..Len(thread)) \cap D!Own = D!Own
  BY <1>1
<1>7. Cardinality(Others) = Len(thread) - Cardinality(D!Own)
  BY <1>2, <1>5, <1>6
<1>. QED
  BY <1>1, <1>3, <1>4, <1>7

(* What a change of the thread does to the two kinds of comments.           *)
LEMMA CommentChange ==
  ASSUME thread \in Seq(Comments), thread' \in Seq(Comments), NEW c \in Comments
  PROVE  /\ Adds(1, c) /\ c.text = "other" => /\ D!Own' \subseteq D!Own
                                              /\ Others' \subseteq Others \cup {Len(thread) + 1}
         /\ \A k \in Nat : Adds(k, c) /\ c.text # "other" =>
              /\ D!Own' \subseteq D!Own \cup ((Len(thread) + 1)..(Len(thread) + k))
              /\ Others' \subseteq Others
         /\ \A m \in D!Own : Sets(m, c) /\ c.text # "other" => D!Own' \subseteq D!Own /\ Others' \subseteq Others
<1>0. Len(thread) \in Nat /\ Len(thread') \in Nat /\ DOMAIN thread = 1..Len(thread)
      /\ DOMAIN thread' = 1..Len(thread')
  BY LenProperties
<1>1. /\ D!Own \subseteq 1..Len(thread)
      /\ \A n \in 1..Len(thread) : n \in D!Own <=> thread[n].text # "other"
  BY ThreadFacts
<1>2. D!Own' \subseteq 1..Len(thread') /\ \A n \in 1..Len(thread') : n \in D!Own' <=> thread'[n].text # "other"
  BY <1>0 DEF D!Own
<1>3. \A n : n \in Others <=> n \in 1..Len(thread) /\ n \notin D!Own
  BY <1>0 DEF Others
<1>4. \A n : n \in Others' <=> n \in 1..Len(thread') /\ n \notin D!Own'
  BY <1>0 DEF Others
<1>5. ASSUME Adds(1, c), c.text = "other"
      PROVE  D!Own' \subseteq D!Own /\ Others' \subseteq Others \cup {Len(thread) + 1}
  BY <1>0, <1>1, <1>2, <1>3, <1>4, <1>5 DEF Adds
<1>6. ASSUME NEW k \in Nat, Adds(k, c), c.text # "other"
      PROVE  /\ D!Own' \subseteq D!Own \cup ((Len(thread) + 1)..(Len(thread) + k))
             /\ Others' \subseteq Others
  BY <1>0, <1>1, <1>2, <1>3, <1>4, <1>6 DEF Adds
<1>7. ASSUME NEW m \in D!Own, Sets(m, c), c.text # "other"
      PROVE  D!Own' \subseteq D!Own /\ Others' \subseteq Others
  BY <1>0, <1>1, <1>2, <1>3, <1>4, <1>7 DEF Sets
<1>. QED
  BY <1>5, <1>6, <1>7

(* All comments fit where a search reads them: Bitbucket and Azure DevOps   *)
(* are read to the last page; GitHub's full page is taken for the last and  *)
(* GitLab's search reads one page.                                          *)
OnePage == \/ scm \in {"bbdc", "adoe"}
           \/ MaxOthers + Round <= PageSize

CountInv == SInv /\ (OnePage => CommentBudget)

(* The numbers in the bound.                                                *)
LEMMA RoundFacts ==
  /\ D!Repeats \in Nat \ {0} /\ Round \in Nat /\ Round = D!Repeats * Cardinality(D!Decorators)
  /\ IsFiniteSet(D!Decorators) /\ Cardinality(D!Decorators) \in Nat
  /\ IsFiniteSet(Creators) /\ Cardinality(Creators) \in Nat
<1>1. IsFiniteSet(D!Decorators)
  BY SystemAssumption, FS_Union DEF D!Decorators
<1>2. Creators \in SUBSET D!Decorators
  BY DEF Creators
<1>3. IsFiniteSet(Creators)
  BY <1>1, <1>2, FS_Subset
<1>4. Cardinality(D!Decorators) \in Nat /\ Cardinality(Creators) \in Nat
  BY <1>1, <1>3, FS_CardinalityType
<1>5. PICK w, y : w = D!Repeats /\ y = Cardinality(D!Decorators)
  OBVIOUS
<1>6. w * y \in Nat
  BY <1>4, <1>5, RepeatsFacts
<1>. QED
  BY <1>1, <1>3, <1>4, <1>5, <1>6, RepeatsFacts DEF Round

(* Products of numbers.                                                     *)
LEMMA Times ==
  ASSUME NEW a \in Nat, NEW b \in Nat, NEW c \in Nat
  PROVE  /\ a * b \in Nat /\ a * (b + 1) = a * b + a /\ a * (1 + b) = a * b + a
         /\ b <= c => a * b <= a * c
         /\ b <= c - 1 => a * b + a <= a * c
<1>1. a * b \in Nat /\ a * c \in Nat
  OBVIOUS
<1>2. a * (b + 1) = a * b + a /\ a * (1 + b) = a * b + a
  OBVIOUS
<1>3. ASSUME b <= c PROVE a * b <= a * c
  <2>1. PICK e \in Nat : c = b + e
    <3>1. c - b \in Nat /\ c = b + (c - b)
      BY <1>3
    <3>. QED
      BY <3>1
  <2>2. a * (b + e) = a * b + a * e /\ a * e \in Nat
    OBVIOUS
  <2>. QED
    BY <1>1, <2>1, <2>2
<1>4. ASSUME b <= c - 1 PROVE a * b + a <= a * c
  <2>1. PICK e \in Nat : c = (b + 1) + e
    <3>1. c - (b + 1) \in Nat /\ c = (b + 1) + (c - (b + 1))
      BY <1>4
    <3>. QED
      BY <3>1
  <2>2. a * ((b + 1) + e) = a * (b + 1) + a * e /\ a * e \in Nat
    OBVIOUS
  <2>. QED
    BY <1>1, <1>2, <2>1, <2>2
<1>. QED
  BY <1>1, <1>2, <1>3, <1>4

(* While the comments fit, a search that finds none means there is none.    *)
LEMMA SearchFinds ==
  ASSUME SInv, OnePage, CommentBudget, D!Target = 0
  PROVE  D!Live = {}
<1>1. thread \in Seq(Comments) /\ PageSize \in Nat /\ MaxOthers \in Nat
  BY SystemAssumption DEF SInv, DecoTypes
<1>2. Len(thread) \in Nat /\ DOMAIN thread = 1..Len(thread) /\ D!Own \subseteq 1..Len(thread)
  BY <1>1, ThreadFacts
<1>3. D!Live \cap D!Searched = {} /\ D!Live \subseteq D!Own
  BY <1>1, TargetFacts DEF D!Live
<1>4. scm \notin {"bbdc", "adoe"} => Len(thread) <= PageSize
  <2>0. SUFFICES ASSUME scm \notin {"bbdc", "adoe"} PROVE Len(thread) <= PageSize
    OBVIOUS
  <2>1. PICK w, x, z, o, u : /\ w = D!Repeats /\ x = Cardinality(D!Own) /\ u = Round
                             /\ z = Cardinality(Creators) /\ o = Cardinality(Others)
    OBVIOUS
  <2>2. w \in Nat /\ x \in Nat /\ z \in Nat /\ o \in Nat /\ u \in Nat /\ x + o = Len(thread)
    BY <1>1, <2>1, RoundFacts, CommentSets
  <2>3. cleared = 0
    BY <2>0 DEF SInv, AwayOwn
  <2>4. x + w * z <= u * (1 + 0) /\ o <= MaxOthers /\ MaxOthers + u <= PageSize
    BY <2>0, <2>1, <2>3 DEF CommentBudget, Others, OnePage
  <2>5. w * z \in Nat /\ u * (1 + 0) = u
    BY <2>2, Times
  <2>6. x + o <= PageSize
    BY <1>1, <2>2, <2>4, <2>5
  <2>. QED
    BY <2>2, <2>6
<1>5. D!Searched = DOMAIN thread
  <2>1. CASE D!FullPageIsLast
    <3>1. scm = "gh" /\ Len(thread) >= PageSize
      BY <2>1 DEF D!FullPageIsLast
    <3>2. Len(thread) = PageSize
      <4>1. Len(thread) <= PageSize
        BY <1>4, <3>1
      <4>2. PICK l, p : l = Len(thread) /\ p = PageSize
        OBVIOUS
      <4>3. l \in Nat /\ p \in Nat /\ l >= p /\ l <= p
        BY <1>1, <1>2, <3>1, <4>1, <4>2
      <4>4. l = p
        BY <4>3
      <4>. QED
        BY <4>2, <4>4
    <3>3. D!Searched = 1..PageSize
      BY <2>1, <3>1 DEF D!Searched
    <3>. QED
      BY <1>2, <3>2, <3>3
  <2>2. CASE ~D!FullPageIsLast
    <3>1. ~(scm = "gl" /\ Len(thread) > PageSize)
      BY <1>1, <1>2, <1>4
    <3>. QED
      BY <2>2, <3>1 DEF D!Searched
  <2>. QED
    BY <2>1, <2>2
<1>. QED
  BY <1>2, <1>3, <1>5

(* The changes of the counts that keep the budget: of x comments, with z    *)
(* creators of y handlers after c rounds.                                   *)
LEMMA BudgetArith ==
  ASSUME NEW w \in Nat, NEW x \in Nat, NEW x1 \in Nat, NEW y \in Nat, NEW z \in Nat, NEW z1 \in Nat,
         NEW c \in Nat, NEW c1 \in Nat,
         x + w * z <= (w * y) * (1 + c),
         \/ x1 <= x /\ z1 <= z /\ c <= c1
         \/ x <= (w * y) * c /\ x1 <= x /\ z1 <= y /\ c1 = c
         \/ x1 <= x + w /\ z1 <= z - 1 /\ c1 = c
  PROVE  x1 + w * z1 <= (w * y) * (1 + c1)
<1>1. PICK u : u = w * y
  OBVIOUS
<1>2. u \in Nat /\ w * z \in Nat /\ w * z1 \in Nat /\ u * c \in Nat /\ u * c1 \in Nat
  BY <1>1, Times
<1>3. u * (1 + c) = u * c + u /\ u * (1 + c1) = u * c1 + u
  BY <1>2, Times
<1>4. CASE x1 <= x /\ z1 <= z /\ c <= c1
  <2>1. w * z1 <= w * z /\ u * c <= u * c1
    BY <1>2, <1>4, Times
  <2>. QED
    BY <1>1, <1>2, <1>3, <1>4, <2>1
<1>5. CASE x <= (w * y) * c /\ x1 <= x /\ z1 <= y /\ c1 = c
  <2>1. w * z1 <= u
    BY <1>1, <1>5, Times
  <2>. QED
    BY <1>1, <1>2, <1>3, <1>5, <2>1
<1>6. CASE x1 <= x + w /\ z1 <= z - 1 /\ c1 = c
  <2>1. w * z1 + w <= w * z
    BY <1>6, Times
  <2>. QED
    BY <1>1, <1>2, <1>3, <1>6, <2>1
<1>. QED
  BY <1>4, <1>5, <1>6

(* The changes that keep the budget: nothing is added, perhaps a round is   *)
(* over; creators while a search finds none; comments instead of a creator. *)
LEMMA CountKept ==
  ASSUME SInv, SInv', CommentBudget,
         Cardinality(Others') <= MaxOthers,
         \/ /\ D!Own' \subseteq D!Own /\ Creators' \subseteq Creators
            /\ cleared' = cleared + 1 \/ (cleared' = cleared /\ (D!Live' = {} => D!Live = {}))
         \/ D!Live = {} /\ D!Own' \subseteq D!Own /\ cleared' = cleared
         \/ /\ \E d \in Creators : Creators' \subseteq Creators \ {d}
            /\ Cardinality(D!Own') <= Cardinality(D!Own) + D!Repeats
            /\ D!Live' # {} /\ cleared' = cleared
  PROVE  CommentBudget'
<1>0. thread \in Seq(Comments) /\ thread' \in Seq(Comments) /\ cleared \in Nat /\ cleared' \in Nat
  BY DEF SInv, DecoTypes, AwayOwn
<1>1. PICK w, x, y, z, c : /\ w = D!Repeats /\ x = Cardinality(D!Own) /\ y = Cardinality(D!Decorators)
                           /\ z = Cardinality(Creators) /\ c = cleared
  OBVIOUS
<1>2. PICK x1, z1, c1 : x1 = Cardinality(D!Own') /\ z1 = Cardinality(Creators') /\ c1 = cleared'
  OBVIOUS
<1>3. /\ w \in Nat /\ x \in Nat /\ y \in Nat /\ z \in Nat /\ c \in Nat /\ c1 \in Nat /\ Round = w * y
      /\ IsFiniteSet(D!Own) /\ IsFiniteSet(Creators) /\ IsFiniteSet(D!Decorators)
  BY <1>0, <1>1, <1>2, RoundFacts, CommentSets
<1>4. x + w * z <= (w * y) * (1 + c) /\ (D!Live = {} => x <= (w * y) * c)
  BY <1>1, <1>3 DEF CommentBudget
<1>5. Creators' \subseteq D!Decorators
  BY DEF Creators, D!Decorators
<1>6. x1 \in Nat
  <2>1. DOMAIN thread' = 1..Len(thread') /\ Len(thread') \in Nat
    BY <1>0, LenProperties
  <2>2. IsFiniteSet(1..Len(thread'))
    BY <2>1, FS_Interval
  <2>3. D!Own' \subseteq 1..Len(thread')
    BY <2>1 DEF D!Own
  <2>. QED
    BY <1>2, <2>2, <2>3, FS_Subset, FS_CardinalityType
<1>7. z1 \in Nat /\ z1 <= y
  BY <1>1, <1>2, <1>3, <1>5, FS_Subset, FS_CardinalityType
<1>8. D!Own' \subseteq D!Own => x1 <= x
  BY <1>1, <1>2, <1>3, FS_Subset
<1>9. Creators' \subseteq Creators => z1 <= z
  BY <1>1, <1>2, <1>3, FS_Subset
<1>10. ASSUME NEW d \in Creators, Creators' \subseteq Creators \ {d}
       PROVE  z1 <= z - 1
  BY <1>1, <1>2, <1>3, <1>10, CardFacts
<1>11. CASE /\ D!Own' \subseteq D!Own /\ Creators' \subseteq Creators
            /\ cleared' = cleared + 1 \/ (cleared' = cleared /\ (D!Live' = {} => D!Live = {}))
  <2>1. x1 <= x /\ z1 <= z /\ c <= c1
    BY <1>1, <1>2, <1>3, <1>8, <1>9, <1>11
  <2>2. x1 + w * z1 <= (w * y) * (1 + c1)
    BY <1>3, <1>4, <1>6, <1>7, <2>1, BudgetArith
  <2>3. D!Live' = {} => x1 <= (w * y) * c1
    <3>1. CASE cleared' = cleared + 1
      <4>1. c1 = 1 + c /\ w * z \in Nat
        BY <1>1, <1>2, <1>3, <3>1, Times
      <4>2. PICK v : v = (w * y) * (1 + c)
        OBVIOUS
      <4>3. x + w * z <= v /\ v = (w * y) * c1
        BY <1>4, <4>1, <4>2
      <4>4. v \in Nat
        BY <1>3, <4>2, Times
      <4>. QED
        BY <1>3, <1>6, <2>1, <4>1, <4>3, <4>4
    <3>2. CASE cleared' = cleared /\ (D!Live' = {} => D!Live = {})
      <4>1. c1 = c
        BY <1>1, <1>2, <3>2
      <4>2. PICK v : v = (w * y) * c
        OBVIOUS
      <4>3. v \in Nat
        BY <1>3, <4>2, Times
      <4>. QED
        BY <1>3, <1>4, <1>6, <2>1, <3>2, <4>1, <4>2, <4>3
    <3>. QED
      BY <1>11, <3>1, <3>2
  <2>. QED
    BY <1>1, <1>2, <1>3, <2>2, <2>3 DEF CommentBudget, Others, Round, D!Repeats, D!Decorators
<1>12. CASE D!Live = {} /\ D!Own' \subseteq D!Own /\ cleared' = cleared
  <2>1. x <= (w * y) * c /\ x1 <= x /\ z1 <= y /\ c1 = c
    BY <1>1, <1>2, <1>4, <1>7, <1>8, <1>12
  <2>2. x1 + w * z1 <= (w * y) * (1 + c1)
    BY <1>3, <1>4, <1>6, <1>7, <2>1, BudgetArith
  <2>3. x1 <= (w * y) * c1
    <3>1. PICK v : v = (w * y) * c
      OBVIOUS
    <3>2. v \in Nat
      BY <1>3, <3>1, Times
    <3>. QED
      BY <1>3, <1>6, <2>1, <3>1, <3>2
  <2>. QED
    BY <1>1, <1>2, <1>3, <2>2, <2>3 DEF CommentBudget, Others, Round, D!Repeats, D!Decorators
<1>13. CASE /\ \E d \in Creators : Creators' \subseteq Creators \ {d}
            /\ Cardinality(D!Own') <= Cardinality(D!Own) + D!Repeats
            /\ D!Live' # {} /\ cleared' = cleared
  <2>1. x1 <= x + w /\ z1 <= z - 1 /\ c1 = c
    BY <1>1, <1>2, <1>10, <1>13
  <2>2. x1 + w * z1 <= (w * y) * (1 + c1)
    BY <1>3, <1>4, <1>6, <1>7, <2>1, BudgetArith
  <2>. QED
    BY <1>1, <1>2, <1>3, <1>13, <2>2 DEF CommentBudget, Others, Round, D!Repeats, D!Decorators
<1>. QED
  BY <1>11, <1>12, <1>13

(* No comment of another user is added.                                     *)
LEMMA OthersKept ==
  ASSUME thread \in Seq(Comments), CommentBudget, Others' \subseteq Others
  PROVE  Cardinality(Others') <= MaxOthers
<1>1. PICK o, o1 : o = Cardinality(Others) /\ o1 = Cardinality(Others')
  OBVIOUS
<1>2. o \in Nat /\ o <= MaxOthers /\ MaxOthers \in Nat
  BY <1>1, CommentSets, SystemAssumption DEF CommentBudget, Others
<1>3. o1 \in Nat /\ o1 <= o
  BY <1>1, CommentSets, CardFacts
<1>4. o1 <= MaxOthers
  BY <1>2, <1>3
<1>. QED
  BY <1>1, <1>4

(* The comments added are counted once each.                                *)
LEMMA AddedCount ==
  ASSUME thread \in Seq(Comments), NEW k \in Nat, NEW w \in Nat, k <= w,
         D!Own' \subseteq D!Own \cup ((Len(thread) + 1)..(Len(thread) + k))
  PROVE  Cardinality(D!Own') <= Cardinality(D!Own) + w
<1>1. PICK l : l = Len(thread)
  OBVIOUS
<1>2. l \in Nat /\ IsFiniteSet(D!Own) /\ Cardinality(D!Own) \in Nat
  BY <1>1, ThreadFacts, CommentSets
<1>. DEFINE I == (l + 1)..(l + k)
            M == D!Own \cup I
<1>3. IsFiniteSet(I) /\ Cardinality(I) = k
  <2>1. PICK p, q \in Int : p = l + 1 /\ q = l + k
    BY <1>2
  <2>2. IsFiniteSet(p..q) /\ Cardinality(p..q) = (IF p > q THEN 0 ELSE q - p + 1)
    BY FS_Interval
  <2>3. I = p..q
    BY <2>1
  <2>4. (IF p > q THEN 0 ELSE q - p + 1) = k
    BY <1>2, <2>1
  <2>. HIDE DEF I
  <2>. QED
    BY <2>2, <2>3, <2>4
<1>4. D!Own' \subseteq M
  BY <1>1
<1>. HIDE DEF I
<1>6. /\ IsFiniteSet(M) /\ IsFiniteSet(D!Own \cap I)
      /\ Cardinality(M) = Cardinality(D!Own) + Cardinality(I) - Cardinality(D!Own \cap I)
  BY <1>2, <1>3, FS_Union, FS_Intersection
<1>7. Cardinality(D!Own \cap I) \in Nat
  BY <1>6, FS_CardinalityType
<1>. HIDE DEF M
<1>8. Cardinality(D!Own') \in Nat /\ Cardinality(D!Own') <= Cardinality(M)
  BY <1>4, <1>6, FS_Subset, FS_CardinalityType
<1>9. PICK x, x1, m, j : /\ x = Cardinality(D!Own) /\ x1 = Cardinality(D!Own') /\ m = Cardinality(M)
                         /\ j = Cardinality(D!Own \cap I)
  OBVIOUS
<1>10. x \in Nat /\ x1 \in Nat /\ j \in Nat /\ m = x + k - j /\ x1 <= m
  BY <1>2, <1>3, <1>6, <1>7, <1>8, <1>9
<1>11. x1 <= x + w
  BY <1>10
<1>. QED
  BY <1>9, <1>11

(* A decorator pays for the comments it adds by being a creator no more.    *)
LEMMA DecoCounts ==
  ASSUME SInv, SInv', OnePage, CommentBudget, NEW d \in D!Decorators, D!DecoStep(d) \/ D!DecoCrash(d)
  PROVE  CommentBudget'
<1>1. Decorating(d) /\ DecoTypes' /\ DecoFrame(d) /\ DecoChange(d)
  BY DecoEffect
<1>2. thread \in Seq(Comments) /\ thread' \in Seq(Comments) /\ away \subseteq D!Own
  BY <1>1 DEF SInv, DecoTypes, AwayOwn
<1>3. (\A e \in D!Decorators \ {d} : deco'[e] = deco[e]) /\ away' = away /\ cleared' = cleared
  BY <1>1 DEF DecoFrame
<1>4. \A e \in D!Decorators \ {d} : e \in Creators' <=> e \in Creators
  BY <1>3 DEF Creators, D!Decorators
<1>5. d \in Creators' <=> deco'[d].pc = "found" /\ deco'[d].target = 0
  BY DEF Creators, D!Decorators
<1>6. Creators' \subseteq D!Decorators /\ Creators \subseteq D!Decorators
  BY DEF Creators, D!Decorators
<1>7. CASE thread' = thread
  <2>1. D!Own' = D!Own /\ Others' = Others /\ D!Live' = D!Live
    BY <1>3, <1>7 DEF D!Own, Others, D!Live
  <2>2. Cardinality(Others') <= MaxOthers
    BY <1>2, <2>1, OthersKept
  <2>3. CASE d \notin Creators'
    <3>1. Creators' \subseteq Creators
      BY <1>4, <1>6, <2>3
    <3>. QED
      BY <1>3, <2>1, <2>2, <3>1, CountKept
  <2>4. CASE d \in Creators'
    <3>1. DecoFound(d) \/ DecoWrote(d)
      BY <1>1, <1>5, <2>4 DEF DecoChange, DecoDone, DecoLost, DecoBack, DecoGone, DecoUnheard, D!DecoIdle
    <3>2. DecoFound(d)
      BY <1>5, <2>4, <3>1 DEF DecoWrote
    <3>3. D!Target = 0
      BY <1>5, <2>4, <3>2 DEF DecoFound
    <3>4. D!Live = {}
      BY <3>3, SearchFinds
    <3>. QED
      BY <1>3, <2>1, <2>2, <3>4, CountKept
  <2>. QED
    BY <2>3, <2>4
<1>8. CASE DecoWrote(d) \/ DecoUnheard(d)
  <2>1. D!DecoScan(d) \in Scans /\ D!DecoText(d) \in OutTexts
    BY <1>1, DecoratorFacts DEF SInv
  <2>2. \A v \in Nat : D!Comment(d, v) \in Comments /\ D!Comment(d, v).text # "other"
    BY <2>1 DEF D!Comment, Comments, OutTexts
  <2>3. deco[d].pc = "found" /\ deco'[d].pc # "found" /\ Wrote(d)
    BY <1>8 DEF DecoWrote, DecoUnheard, SaidIt, D!DecoIdle
  <2>4. Creators' \subseteq Creators \ {d}
    BY <1>4, <1>5, <1>6, <2>3
  <2>5. ASSUME NEW k \in 1..D!Repeats, deco[d].target = 0, Adds(k, D!Comment(d, 0))
        PROVE  CommentBudget'
    <3>1. PICK c : c = D!Comment(d, 0)
      OBVIOUS
    <3>2. c \in Comments /\ c.text # "other" /\ Adds(k, c)
      BY <2>2, <2>5, <3>1
    <3>3. d \in Creators
      BY <2>3, <2>5 DEF Creators
    <3>4. k \in Nat /\ 1 <= k /\ k <= D!Repeats /\ D!Repeats \in Nat
      BY RepeatsFacts
    <3>5. Others' \subseteq Others /\ D!Own' \subseteq D!Own \cup ((Len(thread) + 1)..(Len(thread) + k))
      BY <1>2, <3>2, <3>4, CommentChange
    <3>6. Cardinality(D!Own') <= Cardinality(D!Own) + D!Repeats
      BY <1>2, <3>4, <3>5, AddedCount
    <3>7. Cardinality(Others') <= MaxOthers
      BY <1>2, <3>5, OthersKept
    <3>8. D!Live' # {}
      <4>1. PICK l \in Nat : l = Len(thread) /\ D!Own \subseteq 1..l
        BY <1>2, ThreadFacts
      <4>2. Len(thread') = l + k /\ thread'[l + 1] = c
        BY <3>2, <3>4, <4>1 DEF Adds
      <4>3. l + 1 \in DOMAIN thread'
        BY <1>2, <3>4, <4>1, <4>2, LenProperties
      <4>4. l + 1 \in D!Own' /\ l + 1 \notin away'
        BY <1>2, <1>3, <3>2, <4>1, <4>2, <4>3 DEF D!Own
      <4>. QED
        BY <4>4 DEF D!Live
    <3>. QED
      BY <1>3, <2>4, <3>3, <3>6, <3>7, <3>8, CountKept
  <2>6. ASSUME NEW v \in Nat, deco[d].target # 0, Sets(deco[d].target, D!Comment(d, v))
        PROVE  CommentBudget'
    <3>1. PICK c, m : c = D!Comment(d, v) /\ m = deco[d].target
      OBVIOUS
    <3>2. c \in Comments /\ c.text # "other" /\ Sets(m, c) /\ m \in D!Own
      BY <2>2, <2>6, <3>1 DEF SInv, TargetsOwn
    <3>3. D!Own' \subseteq D!Own /\ Others' \subseteq Others
      BY <1>2, <3>2, CommentChange
    <3>4. Cardinality(Others') <= MaxOthers
      BY <1>2, <3>3, OthersKept
    <3>5. Creators' \subseteq Creators
      BY <2>4
    <3>6. D!Live' = {} => D!Live = {}
      <4>1. ThreadGrows
        BY <1>1, DecoThread
      <4>. QED
        BY <1>3, <4>1 DEF ThreadGrows, D!Live
    <3>. QED
      BY <1>3, <3>3, <3>4, <3>5, <3>6, CountKept
  <2>. QED
    BY <2>3, <2>5, <2>6 DEF Wrote
<1>. QED
  BY <1>1, <1>7, <1>8 DEF DecoChange, DecoDone, DecoLost, DecoBack, DecoGone, DecoFound, DecoSame

(* A comment of another user is none of CxOneFlow.                          *)
LEMMA OtherCounts ==
  ASSUME SInv, SInv', CommentBudget, D!OtherComment
  PROVE  CommentBudget'
<1>1. thread' \in Seq(Comments) /\ Adds(1, D!Foreign)
  BY OtherEffect
<1>2. thread \in Seq(Comments) /\ D!Foreign \in Comments /\ D!Foreign.text = "other"
  BY DEF SInv, DecoTypes, D!Foreign, Comments
<1>3. D!Own' \subseteq D!Own /\ Others' \subseteq Others \cup {Len(thread) + 1}
  BY <1>1, <1>2, CommentChange
<1>4. Creators' = Creators /\ away' = away /\ cleared' = cleared
  BY DEF D!OtherComment, Creators, D!Decorators
<1>5. Cardinality(Others') <= MaxOthers
  <2>1. PICK o, o1 : o = Cardinality(Others) /\ o1 = Cardinality(Others')
    OBVIOUS
  <2>2. o < MaxOthers
    <3>1. D!Cardinality(Others) = Cardinality(Others)
      BY Zenon DEF D!Cardinality, Cardinality
    <3>2. D!Cardinality(DOMAIN thread \ D!Own) < MaxOthers
      BY DEF D!OtherComment
    <3>. QED
      BY <2>1, <3>1, <3>2 DEF Others
  <2>3. o \in Nat /\ o1 \in Nat /\ o1 <= o + 1 /\ MaxOthers \in Nat
    <3>1. IsFiniteSet(Others) /\ o \in Nat
      BY <1>2, <2>1, CommentSets
    <3>2. Cardinality(Others') \in Nat /\ Cardinality(Others') <= Cardinality(Others) + 1
      BY <1>3, <3>1, CardFacts
    <3>. QED
      BY <2>1, <3>1, <3>2, SystemAssumption
  <2>4. o1 <= MaxOthers
    BY <2>2, <2>3
  <2>. QED
    BY <2>1, <2>4
<1>6. D!Live' = {} => D!Live = {}
  <2>1. D!Own \subseteq D!Own'
    BY OtherEffect DEF ThreadGrows
  <2>. QED
    BY <1>4, <2>1 DEF D!Live
<1>. QED
  BY <1>3, <1>4, <1>5, <1>6, CountKept

(* Putting a comment away ends a round when it was the last one to be       *)
(* found.                                                                   *)
LEMMA UserCounts ==
  ASSUME SInv, SInv', CommentBudget, UserStep
  PROVE  CommentBudget'
<1>1. thread' = thread /\ deco' = deco
  BY UserEffect
<1>2. D!Own' = D!Own /\ Others' = Others /\ Creators' = Creators
  BY <1>1 DEF D!Own, Others, Creators, D!Decorators
<1>3. Cardinality(Others') <= MaxOthers
  BY <1>2, OthersKept DEF SInv, DecoTypes
<1>4. PICK n \in DOMAIN thread : D!PutAway(n) \/ D!Reopen(n)
  BY DEF UserStep
<1>5. cleared' = cleared + 1 \/ (cleared' = cleared /\ (D!Live' = {} => D!Live = {}))
  <2>1. CASE D!PutAway(n)
    <3>1. /\ away' = away \cup {n} /\ n \in D!Live
          /\ cleared' = IF D!Live = {n} THEN cleared + 1 ELSE cleared
      BY <2>1 DEF D!PutAway
    <3>2. D!Live # {n} => D!Live' # {}
      BY <1>2, <3>1 DEF D!Live
    <3>. QED
      BY <3>1, <3>2
  <2>2. CASE D!Reopen(n)
    <3>1. away' \subseteq away /\ cleared' = cleared
      BY <2>2 DEF D!Reopen
    <3>. QED
      BY <1>2, <3>1 DEF D!Live
  <2>. QED
    BY <1>4, <2>1, <2>2
<1>. QED
  BY <1>2, <1>3, <1>5, CountKept

(* Every step keeps the budget of comments.                                 *)
LEMMA NextCountInv == CountInv /\ [SysNext]_sysVars => CountInv'
<1>1. SUFFICES ASSUME CountInv, [SysNext]_sysVars PROVE CountInv'
  OBVIOUS
<1>2. SInv /\ SInv'
  BY <1>1, NextSInv DEF CountInv
<1>3. scm' = scm
  <2>1. CASE D!DecoNext
    <3>1. ASSUME NEW d \in D!Decorators, D!DecoStep(d) \/ D!DecoCrash(d) PROVE scm' = scm
      BY <1>2, <3>1, DecoEffect DEF DecoFrame
    <3>. QED
      BY <2>1, <3>1, UserEffect DEF D!DecoNext, D!OtherComment, D!DecoReceive, UserStep
  <2>. QED
    BY <1>1, <2>1 DEF SysNext, sysVars, decoVars
<1>4. OnePage' <=> OnePage
  BY <1>3 DEF OnePage, Round, D!Repeats, D!Decorators
<1>5. SUFFICES ASSUME OnePage PROVE CommentBudget'
  BY <1>2, <1>4 DEF CountInv
<1>6. CommentBudget
  BY <1>1, <1>5 DEF CountInv
<1>7. CASE thread' = thread /\ away' = away /\ cleared' = cleared /\ Creators' \subseteq Creators
  <2>1. thread \in Seq(Comments) /\ D!Own' = D!Own /\ Others' \subseteq Others /\ D!Live' = D!Live
    BY <1>2, <1>7 DEF SInv, DecoTypes, D!Own, D!Live, Others
  <2>2. Cardinality(Others') <= MaxOthers
    BY <1>6, <2>1, OthersKept
  <2>. QED
    BY <1>2, <1>6, <1>7, <2>1, <2>2, CountKept
<1>8. CASE thread' = thread /\ away' = away /\ cleared' = cleared /\ deco' = deco
  <2>1. Creators' = Creators
    BY <1>8 DEF Creators, D!Decorators
  <2>. QED
    BY <1>7, <1>8, <2>1
<1>9. ASSUME NEW d \in D!Decorators, NEW i \in MsgIds, D!DecoReceive(d, i)
      PROVE  CommentBudget'
  <2>1. deco \in [D!Decorators -> DecoRec]
    BY <1>2 DEF SInv, DecoTypes
  <2>2. \A e \in D!Decorators : deco'[e].pc = "found" => deco'[e] = deco[e]
    BY <1>9, <2>1 DEF D!DecoReceive, D!DecoIdle
  <2>3. thread' = thread /\ away' = away /\ cleared' = cleared /\ Creators' \subseteq Creators
    BY <1>9, <2>2 DEF D!DecoReceive, Creators, D!Decorators
  <2>. QED
    BY <1>7, <2>3
<1>10. CASE (Next /\ UNCHANGED <<decoVars, sarifVars>>) \/ (G!SarifNext /\ UNCHANGED <<pollVars, decoVars>>)
  BY <1>8, <1>10 DEF decoVars
<1>11. CASE D!DecoNext
  BY <1>2, <1>5, <1>6, <1>9, <1>11, DecoCounts, OtherCounts, UserCounts DEF D!DecoNext, UserStep
<1>12. CASE UNCHANGED sysVars
  BY <1>8, <1>12 DEF sysVars
<1>. QED
  BY <1>1, <1>10, <1>11, <1>12 DEF SysNext

(* While the comments of the pull request fit where a search reads them,    *)
(* exec_pr_decorate adds no more comments than there are handlers, times    *)
(* the tries of exec where a POST can be done though it is answered with an *)
(* error, until users put away the last comment a search finds, and as many *)
(* after each such time, however many scans, redeliveries, crashes and      *)
(* failing requests there are: a handler that may still add comments looked *)
(* when there was none to be found (CommentBudget).                         *)
THEOREM CommentsStayBounded == SysSpec => [](OnePage => CommentsBounded)
<1>1. SysInit => CountInv
  <2>1. SUFFICES ASSUME SysInit PROVE CountInv
    OBVIOUS
  <2>2. thread = <<>> /\ deco = [d \in D!Decorators |-> D!DecoIdle] /\ cleared = 0
    BY <2>1 DEF SysInit, D!DecoInit
  <2>3. D!Own = {} /\ Others = {} /\ Creators = {}
    BY <2>2 DEF D!Own, Others, Creators, D!DecoIdle
  <2>4. Cardinality(D!Own) = 0 /\ Cardinality(Others) = 0 /\ Cardinality(Creators) = 0
    BY <2>3, FS_EmptySet
  <2>5. PICK w, u : w = D!Repeats /\ u = Round
    OBVIOUS
  <2>6. w \in Nat /\ u \in Nat /\ w * 0 = 0 /\ u * 0 = 0 /\ u * (1 + 0) = u
    BY <2>5, RoundFacts
  <2>7. 0 + w * 0 <= u * (1 + 0) /\ 0 <= u * 0
    BY <2>6
  <2>8. CommentBudget
    BY <2>2, <2>4, <2>5, <2>7, SystemAssumption DEF CommentBudget, Others
  <2>. QED
    BY <2>1, <2>8, InitSInv DEF CountInv
<1>2. CountInv => (OnePage => CommentsBounded)
  <2>1. SUFFICES ASSUME CountInv, OnePage PROVE CommentsBounded
    OBVIOUS
  <2>2. PICK w, x, y, z, c : /\ w = D!Repeats /\ x = Cardinality(D!Own) /\ y = Cardinality(D!Decorators)
                             /\ z = Cardinality(Creators) /\ c = cleared
    OBVIOUS
  <2>3. w \in Nat /\ x \in Nat /\ y \in Nat /\ z \in Nat /\ c \in Nat /\ x + w * z <= (w * y) * (1 + c)
    BY <2>1, <2>2, RoundFacts, CommentSets DEF CountInv, CommentBudget, SInv, DecoTypes, AwayOwn, Round
  <2>4. w * z \in Nat /\ w * y = y * w /\ (y * w) * (1 + c) \in Nat
    BY <2>3, Times
  <2>5. x <= (y * w) * (1 + c)
    BY <2>3, <2>4
  <2>. QED
    BY <2>2, <2>5 DEF CommentsBounded
<1>. QED
  BY <1>1, <1>2, NextCountInv, PTL DEF SysSpec
-----------------------------------------------------------------------------
(***************************************************************************)
(* The number of deliveries.                                                *)
(***************************************************************************)
Queued(s, a) == { i \in MsgIds : msgs[i].queue = SarifGen /\ msgs[i].scan = s /\ ~Served(i, a) }

(* The monitoring messages of a scan are not delivered.                     *)
LEMMA OwedFacts ==
  ASSUME IInv, NEW s \in Scans, NEW a
  PROVE  /\ Owed(s, a) = Active(s) \cup Queued(s, a) /\ IsFiniteSet(Owed(s, a))
         /\ Active(s) \cap Queued(s, a) = {}
<1>1. Owed(s, a) = Active(s) \cup Queued(s, a)
  BY DEF Owed, Queued
<1>2. Owed(s, a) \subseteq MsgIds
  BY DEF Owed, Active, Copies
<1>3. IsFiniteSet(Owed(s, a))
  BY <1>2, PollingAssumption, FS_Subset
<1>4. SarifGen \notin MonitorQueues
  BY OutFacts DEF OutQueues
<1>5. Active(s) \cap Queued(s, a) = {}
  BY <1>4 DEF Active, Copies, Queued
<1>. QED
  BY <1>1, <1>3, <1>5

(* The same parts after a step.                                             *)
LEMMA OwedNextIs ==
  ASSUME NEW s, NEW a
  PROVE  Owed(s, a)' = Active(s)' \cup Queued(s, a)'
BY DEF Owed, Queued

(* The changes of the two parts that fit the budget.                        *)
OwedFits(s, a) == Fits(Owed(s, a), sarifs[s][a], disturb[s], Owed(s, a)', sarifs'[s][a], disturb'[s])

(* A change among the outcomes in the queue.                                *)
LEMMA QueuedFits ==
  ASSUME IInv, NEW s \in Scans, NEW a, Active(s)' = Active(s),
         \/ /\ Queued(s, a)' \subseteq Queued(s, a)
            /\ sarifs'[s][a] = sarifs[s][a] /\ disturb'[s] = disturb[s]
         \/ \E y : /\ Queued(s, a)' \subseteq Queued(s, a) \cup {y}
                   /\ sarifs'[s][a] = sarifs[s][a] /\ disturb'[s] = disturb[s] + 1
         \/ \E x \in Queued(s, a) : /\ Queued(s, a)' \subseteq Queued(s, a) \ {x}
                                    /\ sarifs'[s][a] = sarifs[s][a] + 1 /\ disturb'[s] = disturb[s]
  PROVE  OwedFits(s, a)
<1>1. /\ Owed(s, a) = Active(s) \cup Queued(s, a) /\ Active(s) \cap Queued(s, a) = {}
      /\ Owed(s, a)' = Active(s) \cup Queued(s, a)'
  BY OwedFacts, OwedNextIs
<1>2. CASE /\ Queued(s, a)' \subseteq Queued(s, a)
           /\ sarifs'[s][a] = sarifs[s][a] /\ disturb'[s] = disturb[s]
  <2>1. Owed(s, a)' \subseteq Owed(s, a)
    BY <1>1, <1>2
  <2>. QED
    BY <1>2, <2>1 DEF OwedFits, Fits
<1>3. ASSUME NEW y, Queued(s, a)' \subseteq Queued(s, a) \cup {y},
             sarifs'[s][a] = sarifs[s][a], disturb'[s] = disturb[s] + 1
      PROVE  OwedFits(s, a)
  <2>1. Owed(s, a)' \subseteq Owed(s, a) \cup {y}
    BY <1>1, <1>3
  <2>. QED
    BY <1>3, <2>1 DEF OwedFits, Fits
<1>4. ASSUME NEW x \in Queued(s, a), Queued(s, a)' \subseteq Queued(s, a) \ {x},
             sarifs'[s][a] = sarifs[s][a] + 1, disturb'[s] = disturb[s]
      PROVE  OwedFits(s, a)
  <2>1. x \in Owed(s, a) /\ Owed(s, a)' \subseteq Owed(s, a) \ {x}
    BY <1>1, <1>4
  <2>. QED
    BY <1>4, <2>1 DEF OwedFits, Fits
<1>. QED
  BY <1>2, <1>3, <1>4

(* While scan polling works, a delivery is added with each report.          *)
LEMMA ActiveOwed ==
  ASSUME IInv, NEW s \in Scans, NEW a, sarifs'[s][a] = sarifs[s][a],
         Fits(Active(s), notified[s], disturb[s], Active(s)', notified'[s], disturb'[s]),
         notified[s] \in Nat,
         \/ notified'[s] = notified[s] /\ Queued(s, a)' \subseteq Queued(s, a)
         \/ notified'[s] = notified[s] + 1 /\ \E n : Queued(s, a)' \subseteq Queued(s, a) \cup {n}
  PROVE  OwedFits(s, a)
<1>1. /\ Owed(s, a) = Active(s) \cup Queued(s, a) /\ Active(s) \cap Queued(s, a) = {}
      /\ Owed(s, a)' = Active(s)' \cup Queued(s, a)'
  BY OwedFacts, OwedNextIs
<1>2. notified[s] # notified[s] + 1
  OBVIOUS
<1>3. CASE notified'[s] = notified[s] /\ Queued(s, a)' \subseteq Queued(s, a)
  <2>1. CASE Active(s)' \subseteq Active(s) /\ disturb'[s] = disturb[s]
    <3>1. Owed(s, a)' \subseteq Owed(s, a)
      BY <1>1, <1>3, <2>1
    <3>. QED
      BY <2>1, <3>1 DEF OwedFits, Fits
  <2>2. ASSUME NEW y, Active(s)' \subseteq Active(s) \cup {y}, disturb'[s] = disturb[s] + 1
        PROVE  OwedFits(s, a)
    <3>1. Owed(s, a)' \subseteq Owed(s, a) \cup {y}
      BY <1>1, <1>3, <2>2
    <3>. QED
      BY <2>2, <3>1 DEF OwedFits, Fits
  <2>3. ASSUME NEW x \in Active(s), NEW y, Active(s)' \subseteq (Active(s) \ {x}) \cup {y}, disturb'[s] = disturb[s]
        PROVE  OwedFits(s, a)
    <3>1. x \in Owed(s, a) /\ Owed(s, a)' \subseteq (Owed(s, a) \ {x}) \cup {y}
      BY <1>1, <1>3, <2>3
    <3>. QED
      BY <2>3, <3>1 DEF OwedFits, Fits
  <2>. QED
    BY <1>2, <1>3, <2>1, <2>2, <2>3 DEF Fits
<1>4. ASSUME notified'[s] = notified[s] + 1, NEW n, Queued(s, a)' \subseteq Queued(s, a) \cup {n}
      PROVE  OwedFits(s, a)
  <2>1. PICK x \in Active(s) : Active(s)' \subseteq Active(s) \ {x} /\ disturb'[s] = disturb[s]
    BY <1>2, <1>4 DEF Fits
  <2>2. x \in Owed(s, a) /\ Owed(s, a)' \subseteq (Owed(s, a) \ {x}) \cup {n}
    BY <1>1, <1>4, <2>1
  <2>. QED
    BY <2>1, <2>2 DEF OwedFits, Fits
<1>. QED
  BY <1>3, <1>4

(* A step that fits keeps the budget of a scan and an agent.                *)
LEMMA OwedKept ==
  ASSUME SInv, SInv', DeliveryBudget, NEW s \in PushScans, NEW a \in G!Agents, OwedFits(s, a)
  PROVE  Cardinality(Owed(s, a)') + sarifs'[s][a] <= 1 + disturb'[s]
<1>1. s \in Scans /\ MaxDisturb \in Nat
  BY PollingAssumption DEF Scans
<1>2. sarifs[s][a] \in Nat /\ sarifs'[s][a] \in Nat
  BY DEF SInv, GenTypes, G!Agents
<1>3. disturb[s] \in Nat /\ disturb'[s] \in Nat
  <2>1. disturb \in [Scans -> 0..MaxDisturb]
    BY PollParts DEF SInv, TypeOK
  <2>2. disturb' \in [Scans -> 0..MaxDisturb]
    BY DEF SInv, IInv, TypeOK
  <2>. QED
    BY <1>1, <2>1, <2>2
<1>4. IsFiniteSet(Owed(s, a))
  BY <1>1, OwedFacts DEF SInv
<1>5. Cardinality(Owed(s, a)) + sarifs[s][a] <= 1 + disturb[s]
  BY DEF DeliveryBudget
<1>. QED
  BY <1>2, <1>3, <1>4, <1>5, BudgetKept DEF OwedFits

(* A consumer's step leaves the monitoring messages alone.                  *)
LEMMA OutsideActive ==
  ASSUME NEW i \in MsgIds, msgs[i].queue \in OutQueues, Keeps(i) \/ Drops(i), poller' = poller, NEW s \in Scans
  PROVE  Copies(s)' = Copies(s) /\ Active(s)' = Active(s)
<1>1. msgs[i].queue \notin MonitorQueues /\ msgs'[i].queue \notin MonitorQueues
  BY OutFacts DEF Keeps, Drops, NoMsg
<1>2. \A j \in MsgIds \ {i} : msgs'[j] = msgs[j]
  BY DEF Keeps, Drops
<1>3. Copies(s)' = Copies(s)
  BY <1>1, <1>2 DEF Copies
<1>. QED
  BY <1>3 DEF Active, Spent

(* Outcomes appear only with a report of scan polling, one at a time.       *)
LEMMA OutcomeGrows ==
  ASSUME SInv, Next, NEW s \in Scans
  PROVE  \/ notified'[s] = notified[s] /\ Outcome(s)' \subseteq Outcome(s)
         \/ /\ notified'[s] = notified[s] + 1
            /\ \E n \in MsgIds : Outcome(s)' \subseteq Outcome(s) \cup {n}
<1>0. notified \in [Scans -> Nat]
  BY PollParts DEF SInv, TypeOK
<1>1. CASE (\A j \in MsgIds : InMonitor(j)) /\ UNCHANGED notified
  <2>1. \A j \in MsgIds : msgs'[j].text \in {"results", "error"} => msgs'[j] = msgs[j]
    BY <1>1 DEF InMonitor, NoMsg
  <2>2. Outcome(s)' \subseteq Outcome(s)
    BY <2>1 DEF Outcome
  <2>. QED
    BY <1>1, <2>2
<1>2. ASSUME NEW t \in Scans, NEW n \in MsgIds, Started1(t, n)
      PROVE  notified'[s] = notified[s] /\ Outcome(s)' \subseteq Outcome(s)
  <2>1. msgs'[n].text = "started" /\ \A j \in MsgIds \ {n} : msgs'[j] = msgs[j]
    BY <1>2 DEF Started1, New, Msg
  <2>2. Outcome(s)' \subseteq Outcome(s)
    BY <2>1 DEF Outcome
  <2>. QED
    BY <1>2, <2>2 DEF Started1
<1>3. ASSUME NEW w \in Pollers, NEW n \in MsgIds, Notified1(w, n)
      PROVE  \/ notified'[s] = notified[s] /\ Outcome(s)' \subseteq Outcome(s)
             \/ notified'[s] = notified[s] + 1 /\ Outcome(s)' \subseteq Outcome(s) \cup {n}
  <2>1. ScanOf(w) \in Scans /\ msgs'[n].scan = ScanOf(w) /\ \A j \in MsgIds \ {n} : msgs'[j] = msgs[j]
    BY <1>3, ReportRoute DEF SInv, Notified1, New
  <2>2. notified' = [notified EXCEPT ![ScanOf(w)] = @ + 1]
    BY <1>3 DEF Notified1, PollNotify
  <2>3. CASE s = ScanOf(w)
    BY <1>0, <2>1, <2>2, <2>3 DEF Outcome
  <2>4. CASE s # ScanOf(w)
    <3>1. Outcome(s)' \subseteq Outcome(s)
      BY <2>1, <2>4 DEF Outcome
    <3>. QED
      BY <1>0, <2>1, <2>2, <2>4, <3>1
  <2>. QED
    BY <2>3, <2>4
<1>4. CASE \E t \in Scans, n \in MsgIds : Started1(t, n)
  BY <1>2, <1>4
<1>5. CASE \E w \in Pollers, n \in MsgIds : Notified1(w, n)
  BY <1>3, <1>5
<1>. QED
  BY <1>1, <1>4, <1>5, NextEffect DEF SInv

(* The outcomes of a push scan wait in the one queue.                       *)
LEMMA QueuedIs ==
  ASSUME SInv, NEW s \in PushScans, NEW a
  PROVE  Queued(s, a) = { i \in Outcome(s) : ~Served(i, a) }
<1>1. \A i \in Outcome(s) : i \in MsgIds /\ msgs[i].queue = SarifGen
  BY OutcomeFacts DEF SInv
<1>2. \A i \in MsgIds : msgs[i].queue = SarifGen => msgs[i].text \in {"results", "error"}
  BY DEF SInv, Routed, Route
<1>. QED
  BY <1>1, <1>2 DEF Queued, Outcome

(* The same after a step.                                                   *)
LEMMA QueuedNextIs ==
  ASSUME SInv', NEW s, NEW a
  PROVE  Queued(s, a)' \subseteq Outcome(s)' /\ \A i \in Queued(s, a)' : ~Served(i, a)'
<1>1. \A i \in MsgIds : msgs'[i].queue = SarifGen => msgs'[i].text \in {"results", "error"}
  BY DEF SInv, Routed, Route
<1>. QED
  BY <1>1 DEF Queued, Outcome

(* A step that adds no outcome and makes nothing unserved.                  *)
LEMMA QueuedKept ==
  ASSUME SInv, SInv', NEW s \in PushScans, NEW a, NEW T, Outcome(s)' \subseteq Outcome(s) \cup T,
         \A i \in MsgIds \ T : Served(i, a) => Served(i, a)'
  PROVE  Queued(s, a)' \subseteq Queued(s, a) \cup T
<1>1. Queued(s, a) = { i \in Outcome(s) : ~Served(i, a) }
  BY QueuedIs
<1>2. Queued(s, a)' \subseteq Outcome(s)' /\ \A i \in Queued(s, a)' : ~Served(i, a)'
  BY QueuedNextIs
<1>3. \A i \in Outcome(s) : i \in MsgIds
  BY DEF Outcome
<1>. QED
  BY <1>1, <1>2, <1>3

(* What a step of a generator serves: its own message, no other's.          *)
LEMMA ServedStep ==
  ASSUME SInv, NEW g \in Generators, Generating(g), NEW i, i = gen[g].id,
         \A h \in Generators \ {g} : gen'[h] = gen[h], gen'[g].pc # "deliver" \/ gen'[g].id = i, NEW a
  PROVE  /\ \A j \in MsgIds \ {i} : Served(j, a) => Served(j, a)'
         /\ Served(i, a) <=> gen[g].pc = "deliver" /\ a \in gen[g].ended
         /\ gen'[g].pc = "deliver" /\ a \in gen'[g].ended => Served(i, a)'
<1>1. \A h \in Generators \ {g} : gen[h].pc = "deliver" => gen[h].id # i
  BY DEF SInv, GenAlone, Generating
<1>2. ASSUME NEW j \in MsgIds \ {i}, Served(j, a) PROVE Served(j, a)'
  <2>1. PICK h \in Generators : gen[h].pc = "deliver" /\ gen[h].id = j /\ a \in gen[h].ended
    BY <1>2 DEF Served
  <2>2. h # g
    BY <2>1, <1>2
  <2>. QED
    BY <2>1, <2>2 DEF Served
<1>. QED
  BY <1>1, <1>2 DEF Served

(* A step of a generator fits the budget of every scan and agent: it serves *)
(* its message, and only a crash makes what was served open again.          *)
LEMMA GenDelivers ==
  ASSUME SInv, SInv', NEW g \in Generators, G!SarifStep(g) \/ G!SarifCrash(g),
         UNCHANGED <<pollVars, decoVars>>, NEW s \in PushScans, NEW a \in G!Agents
  PROVE  OwedFits(s, a)
<1>1. PICK i, t : i = gen[g].id /\ t = G!GenScan(g)
  OBVIOUS
<1>2. Generating(g) /\ GenFrame(g) /\ GenChange(g) /\ (Keeps(i) \/ Drops(i))
  BY <1>1, GenEffect DEF GenFrame
<1>3. /\ i \in MsgIds /\ msgs[i].queue \in OutQueues /\ t \in PushScans /\ t \in Scans /\ t = msgs[i].scan
      /\ s \in Scans /\ msgs[i].text \in {"results", "error"}
  BY <1>1, <1>2, GeneratorFacts DEF SInv, G!GenScan, Scans
<1>4. Active(s)' = Active(s)
  BY <1>2, <1>3, OutsideActive DEF pollVars
<1>5. (Keeps(i) => Outcome(s)' = Outcome(s)) /\ (Drops(i) => Outcome(s)' = Outcome(s) \ {i})
  BY <1>3, OutcomeKeeps
<1>6. i \in Outcome(s) <=> s = t
  BY <1>3 DEF Outcome
<1>7. \A h \in Generators \ {g} : gen'[h] = gen[h]
  BY <1>2 DEF GenFrame
<1>8. gen'[g].pc # "deliver" \/ gen'[g].id = i
  BY <1>1, <1>2 DEF GenChange, GenDone, GenAborted, GenGone, GenBack, GenMade, GenTurn, GenQuiet, G!GenIdle
<1>9. /\ \A j \in MsgIds \ {i} : Served(j, a) => Served(j, a)'
      /\ Served(i, a) <=> gen[g].pc = "deliver" /\ a \in gen[g].ended
      /\ gen'[g].pc = "deliver" /\ a \in gen'[g].ended => Served(i, a)'
  BY <1>1, <1>2, <1>7, <1>8, ServedStep
<1>10. IInv /\ sarifs \in [PushScans -> [G!Agents -> Nat]] /\ disturb \in [Scans -> 0..MaxDisturb]
  BY PollParts DEF SInv, GenTypes, TypeOK
<1>11. ASSUME Outcome(s)' \subseteq Outcome(s), i \in Outcome(s)' => (Served(i, a) => Served(i, a)'),
              sarifs'[s][a] = sarifs[s][a], disturb'[s] = disturb[s]
       PROVE  OwedFits(s, a)
  <2>1. Queued(s, a)' \subseteq Queued(s, a)
    <3>1. Queued(s, a) = { j \in Outcome(s) : ~Served(j, a) }
      BY QueuedIs
    <3>2. Queued(s, a)' \subseteq Outcome(s)' /\ \A j \in Queued(s, a)' : ~Served(j, a)'
      BY QueuedNextIs
    <3>3. \A j \in Outcome(s) : j \in MsgIds
      BY DEF Outcome
    <3>. QED
      BY <1>9, <1>11, <3>1, <3>2, <3>3
  <2>. QED
    BY <1>3, <1>4, <1>10, <1>11, <2>1, QueuedFits
<1>12. CASE GenDone(g) \/ GenAborted(g)
  <2>1. Drops(i) /\ sarifs' = sarifs /\ disturb' = disturb
    BY <1>1, <1>12 DEF GenDone, GenAborted, GenGone
  <2>2. Outcome(s)' = Outcome(s) \ {i}
    BY <1>5, <2>1
  <2>. QED
    BY <1>11, <2>1, <2>2
<1>13. CASE GenBack(g)
  <2>1. /\ Keeps(i) /\ sarifs' = sarifs
        /\ \/ gen[g].pc = "received" /\ disturb' = disturb
           \/ disturb' = [disturb EXCEPT ![t] = @ + 1]
    BY <1>1, <1>13 DEF GenBack, GenSame
  <2>2. Outcome(s)' = Outcome(s)
    BY <1>5, <2>1
  <2>3. CASE gen[g].pc = "received" /\ disturb' = disturb
    BY <1>9, <1>11, <2>1, <2>2, <2>3
  <2>4. CASE disturb' = [disturb EXCEPT ![t] = @ + 1] /\ s # t
    BY <1>3, <1>6, <1>10, <1>11, <2>1, <2>2, <2>4
  <2>5. CASE disturb' = [disturb EXCEPT ![t] = @ + 1] /\ s = t
    <3>1. disturb'[s] = disturb[s] + 1
      BY <1>3, <1>10, <2>5
    <3>2. Queued(s, a)' \subseteq Queued(s, a) \cup {i}
      BY <1>9, <2>2, QueuedKept
    <3>. QED
      BY <1>3, <1>4, <1>10, <2>1, <3>1, <3>2, QueuedFits
  <2>. QED
    BY <2>1, <2>3, <2>4, <2>5
<1>14. msgs' = msgs => Outcome(s)' = Outcome(s)
  BY <1>3, OutcomeKeeps
<1>15. CASE GenMade(g)
  <2>1. msgs' = msgs /\ sarifs' = sarifs /\ disturb' = disturb /\ gen[g].pc = "received"
    BY <1>15 DEF GenMade, GenQuiet, GenSame
  <2>. QED
    BY <1>9, <1>11, <1>14, <2>1
<1>16. ASSUME NEW b \in G!Agents, GenTurn(g, b)
       PROVE  OwedFits(s, a)
  <2>1. /\ msgs' = msgs /\ disturb' = disturb /\ gen'[g].pc = "deliver" /\ gen[g].pc = "deliver"
        /\ b \notin gen[g].ended
    BY <1>16 DEF GenTurn, GenQuiet, G!Delivering
  <2>2. Outcome(s)' = Outcome(s)
    BY <1>14, <2>1
  <2>3. CASE GenRefused(g) \/ GenGaveUp(g, b)
    <3>1. sarifs' = sarifs /\ gen[g].ended \subseteq gen'[g].ended
      BY <2>3 DEF GenRefused, GenSame, GenGaveUp
    <3>. QED
      BY <1>9, <1>11, <2>1, <2>2, <3>1
  <2>4. CASE GenAccepted(g, b)
    <3>1. gen'[g].ended = gen[g].ended \cup {b} /\ sarifs' = [sarifs EXCEPT ![t][b] = @ + 1]
      BY <1>1, <2>4 DEF GenAccepted
    <3>2. sarifs'[s][a] = IF s = t /\ a = b THEN sarifs[s][a] + 1 ELSE sarifs[s][a]
      BY <1>3, <1>10, <3>1
    <3>3. CASE s = t /\ a = b
      <4>1. i \in Queued(s, a)
        BY <1>6, <1>9, <2>1, <3>3, QueuedIs
      <4>2. Queued(s, a)' \subseteq Queued(s, a) \cup {i}
        BY <1>9, <2>2, QueuedKept
      <4>3. i \notin Queued(s, a)'
        BY <1>9, <2>1, <3>1, <3>3, QueuedNextIs
      <4>4. Queued(s, a)' \subseteq Queued(s, a) \ {i}
        BY <4>2, <4>3
      <4>. QED
        BY <1>3, <1>4, <1>10, <2>1, <3>2, <3>3, <4>1, <4>4, QueuedFits
    <3>4. CASE ~(s = t /\ a = b)
      BY <1>9, <1>11, <2>1, <2>2, <3>1, <3>2, <3>4
    <3>. QED
      BY <3>3, <3>4
  <2>. QED
    BY <1>16, <2>3, <2>4 DEF GenTurn
<1>. QED
  BY <1>2, <1>12, <1>13, <1>15, <1>16 DEF GenChange

(* What is owed stays where nothing but redeliveries is added.              *)
LEMMA OwedSame ==
  ASSUME SInv, SInv', DeliveryBudget, NEW s \in PushScans, NEW a \in G!Agents,
         Owed(s, a)' \subseteq Owed(s, a), sarifs' = sarifs, disturb'[s] >= disturb[s]
  PROVE  Cardinality(Owed(s, a)') + sarifs'[s][a] <= 1 + disturb'[s]
<1>1. s \in Scans /\ MaxDisturb \in Nat
  BY PollingAssumption DEF Scans
<1>2. sarifs[s][a] \in Nat /\ sarifs'[s][a] = sarifs[s][a]
  BY DEF SInv, GenTypes, G!Agents
<1>3. disturb[s] \in Nat /\ disturb'[s] \in Nat
  <2>1. disturb \in [Scans -> 0..MaxDisturb]
    BY PollParts DEF SInv, TypeOK
  <2>2. disturb' \in [Scans -> 0..MaxDisturb]
    BY DEF SInv, IInv, TypeOK
  <2>. QED
    BY <1>1, <2>1, <2>2
<1>4. IsFiniteSet(Owed(s, a))
  BY <1>1, OwedFacts DEF SInv
<1>5. /\ Cardinality(Owed(s, a)) \in Nat /\ Cardinality(Owed(s, a)') \in Nat
      /\ Cardinality(Owed(s, a)') <= Cardinality(Owed(s, a))
  BY <1>4, CardFacts
<1>6. Cardinality(Owed(s, a)) + sarifs[s][a] <= 1 + disturb[s]
  BY DEF DeliveryBudget
<1>. QED
  BY <1>2, <1>3, <1>5, <1>6

DeliveryInv == SInv /\ DeliveryBudget /\ NothingYet

(* The step of scan polling.                                                *)
LEMMA PollDelivers ==
  ASSUME DeliveryInv, SInv', Next, UNCHANGED sarifVars
  PROVE  DeliveryInv'
<1>1. SInv /\ DeliveryBudget /\ NothingYet /\ gen' = gen /\ sarifs' = sarifs
  BY DEF DeliveryInv, sarifVars
<1>2. TypeOK /\ HandlersHold /\ Exclusive /\ Fresh /\ IInv /\ notified \in [Scans -> Nat]
  BY <1>1, PollParts DEF SInv, TypeOK
<1>3. \A s \in PushScans : /\ s \in Scans /\ notified[s] \in Nat
                           /\ \/ notified'[s] = notified[s] /\ Outcome(s)' \subseteq Outcome(s)
                              \/ /\ notified'[s] = notified[s] + 1
                                 /\ \E n \in MsgIds : Outcome(s)' \subseteq Outcome(s) \cup {n}
  BY <1>1, <1>2, OutcomeGrows DEF Scans
<1>4. NothingYet'
  <2>1. SUFFICES ASSUME NEW s \in PushScans, notified'[s] = 0
                 PROVE  Outcome(s)' = {} /\ \A a \in G!Agents : sarifs'[s][a] = 0
    BY DEF NothingYet, G!Agents
  <2>2. notified[s] = 0 /\ Outcome(s)' \subseteq Outcome(s)
    BY <1>3, <2>1
  <2>3. Outcome(s) = {} /\ \A a \in G!Agents : sarifs[s][a] = 0
    BY <1>1, <2>2 DEF NothingYet
  <2>. QED
    BY <1>1, <2>2, <2>3
<1>5. DeliveryBudget'
  <2>1. SUFFICES ASSUME NEW s \in PushScans, NEW a \in G!Agents
                 PROVE  Cardinality(Owed(s, a)') + sarifs'[s][a] <= 1 + disturb'[s]
    BY DEF DeliveryBudget, G!Agents
  <2>2. \A i \in MsgIds : Served(i, a) => Served(i, a)'
    BY <1>1 DEF Served
  <2>3. \/ notified'[s] = notified[s] /\ Queued(s, a)' \subseteq Queued(s, a)
        \/ notified'[s] = notified[s] + 1 /\ \E n : Queued(s, a)' \subseteq Queued(s, a) \cup {n}
    <3>1. CASE notified'[s] = notified[s] /\ Outcome(s)' \subseteq Outcome(s)
      <4>1. Queued(s, a)' \subseteq Queued(s, a) \cup {}
        BY <1>1, <2>2, <3>1, QueuedKept
      <4>. QED
        BY <3>1, <4>1
    <3>2. ASSUME NEW n \in MsgIds, Outcome(s)' \subseteq Outcome(s) \cup {n}
          PROVE  Queued(s, a)' \subseteq Queued(s, a) \cup {n}
      BY <1>1, <2>2, <3>2, QueuedKept
    <3>. QED
      BY <1>3, <3>1, <3>2
  <2>4. CASE Fits(Active(s), notified[s], disturb[s], Active(s)', notified'[s], disturb'[s])
    <3>1. OwedFits(s, a)
      BY <1>1, <1>2, <1>3, <2>3, <2>4, ActiveOwed
    <3>. QED
      BY <1>1, <3>1, OwedKept
  <2>5. CASE Begins(s)
    <3>1. PICK n \in MsgIds : Active(s)' \subseteq {n}
      BY <2>5 DEF Begins
    <3>2. notified[s] = 0 /\ notified'[s] = 0 /\ disturb'[s] = disturb[s]
      BY <2>5 DEF Begins
    <3>3. Queued(s, a) = {} /\ sarifs'[s][a] = 0
      <4>1. Outcome(s) = {} /\ sarifs[s][a] = 0
        BY <1>1, <3>2 DEF NothingYet
      <4>. QED
        BY <1>1, <4>1, QueuedIs
    <3>4. Queued(s, a)' = {}
      BY <2>3, <3>2, <3>3
    <3>5. Owed(s, a)' \subseteq {} \cup {n}
      BY <3>1, <3>4, OwedNextIs
    <3>6. IsFiniteSet({}) /\ Cardinality({}) = 0
      BY FS_EmptySet
    <3>7. Cardinality(Owed(s, a)') \in Nat /\ Cardinality(Owed(s, a)') <= 0 + 1
      BY <3>5, <3>6, CardFacts
    <3>8. disturb[s] \in Nat
      BY <1>2, <1>3, PollingAssumption DEF TypeOK
    <3>. QED
      BY <3>2, <3>3, <3>7, <3>8
  <2>. QED
    BY <1>2, <1>3, <2>4, <2>5, ActiveStep
<1>. QED
  BY <1>4, <1>5 DEF DeliveryInv

(* A step that serves no delivery and reports nothing.                      *)
LEMMA NothingDelivered ==
  ASSUME DeliveryInv, SInv', sarifs' = sarifs, notified' = notified,
         \A s \in PushScans : /\ Outcome(s)' \subseteq Outcome(s) /\ Active(s)' = Active(s)
                              /\ disturb'[s] >= disturb[s],
         \A a \in G!Agents : \A i \in MsgIds : Served(i, a) => Served(i, a)'
  PROVE  DeliveryInv'
<1>1. SInv /\ DeliveryBudget /\ NothingYet /\ \A s \in PushScans : s \in Scans
  BY DEF DeliveryInv, Scans
<1>2. NothingYet'
  <2>1. SUFFICES ASSUME NEW s \in PushScans, notified'[s] = 0
                 PROVE  Outcome(s)' = {} /\ \A a \in G!Agents : sarifs'[s][a] = 0
    BY DEF NothingYet, G!Agents
  <2>2. Outcome(s) = {} /\ \A a \in G!Agents : sarifs[s][a] = 0
    BY <1>1, <2>1 DEF NothingYet
  <2>. QED
    BY <2>2
<1>3. DeliveryBudget'
  <2>1. SUFFICES ASSUME NEW s \in PushScans, NEW a \in G!Agents
                 PROVE  Cardinality(Owed(s, a)') + sarifs'[s][a] <= 1 + disturb'[s]
    BY DEF DeliveryBudget, G!Agents
  <2>2. Queued(s, a)' \subseteq Queued(s, a) \cup {}
    BY <1>1, QueuedKept
  <2>3. Owed(s, a)' \subseteq Owed(s, a)
    BY <1>1, <2>2, OwedFacts, OwedNextIs DEF SInv
  <2>. QED
    BY <1>1, <2>3, OwedSame
<1>. QED
  BY <1>2, <1>3 DEF DeliveryInv

(* The steps of a generator.                                                *)
LEMMA GenKeepsDelivery ==
  ASSUME DeliveryInv, SInv', NEW g \in Generators, G!SarifStep(g) \/ G!SarifCrash(g),
         UNCHANGED <<pollVars, decoVars>>
  PROVE  DeliveryInv'
<1>1. SInv /\ DeliveryBudget /\ NothingYet /\ notified' = notified
  BY DEF DeliveryInv, pollVars
<1>2. DeliveryBudget'
  <2>1. SUFFICES ASSUME NEW s \in PushScans, NEW a \in G!Agents
                 PROVE  Cardinality(Owed(s, a)') + sarifs'[s][a] <= 1 + disturb'[s]
    BY DEF DeliveryBudget, G!Agents
  <2>2. OwedFits(s, a)
    BY <1>1, GenDelivers
  <2>. QED
    BY <1>1, <2>2, OwedKept
<1>3. NothingYet'
  <2>1. SUFFICES ASSUME NEW s \in PushScans, notified'[s] = 0
                 PROVE  Outcome(s)' = {} /\ \A a \in G!Agents : sarifs'[s][a] = 0
    BY DEF NothingYet, G!Agents
  <2>2. Outcome(s) = {} /\ \A a \in G!Agents : sarifs[s][a] = 0
    BY <1>1, <2>1 DEF NothingYet
  <2>3. PICK i, t : i = gen[g].id /\ t = G!GenScan(g)
    OBVIOUS
  <2>4. Generating(g) /\ GenFrame(g) /\ GenChange(g) /\ (Keeps(i) \/ Drops(i))
    BY <1>1, <2>3, GenEffect DEF GenFrame
  <2>5. i \in MsgIds /\ t \in PushScans /\ t = msgs[i].scan /\ msgs[i].text \in {"results", "error"}
    BY <1>1, <2>3, <2>4, GeneratorFacts DEF SInv, G!GenScan
  <2>6. s # t
    BY <2>2, <2>5 DEF Outcome
  <2>7. Outcome(s)' \subseteq Outcome(s)
    BY <2>4, <2>5, OutcomeKeeps
  <2>8. sarifs' = sarifs \/ \E b \in G!Agents : sarifs' = [sarifs EXCEPT ![t][b] = @ + 1]
    BY <2>3, <2>4 DEF GenChange, GenDone, GenAborted, GenGone, GenBack, GenSame, GenMade, GenTurn, GenRefused,
                      GenGaveUp, GenAccepted
  <2>9. sarifs'[s] = sarifs[s]
    <3>1. sarifs \in [PushScans -> [G!Agents -> Nat]]
      BY <1>1 DEF SInv, GenTypes
    <3>. QED
      BY <2>6, <2>8, <3>1
  <2>. QED
    BY <2>2, <2>7, <2>9
<1>. QED
  BY <1>2, <1>3 DEF DeliveryInv

(* Every step keeps the budget of deliveries.                               *)
LEMMA NextDeliveryInv == DeliveryInv /\ [SysNext]_sysVars => DeliveryInv'
<1>1. SUFFICES ASSUME DeliveryInv, [SysNext]_sysVars PROVE DeliveryInv'
  OBVIOUS
<1>2. SInv /\ SInv' /\ PushScans \subseteq Scans
  BY <1>1, NextSInv DEF DeliveryInv, Scans
<1>3. disturb \in [Scans -> 0..MaxDisturb] /\ MaxDisturb \in Nat
  BY <1>2, PollParts, PollingAssumption DEF SInv, TypeOK
<1>4. disturb' = disturb => \A s \in PushScans : disturb'[s] >= disturb[s]
  BY <1>2, <1>3
<1>5. gen' = gen => \A a \in G!Agents : \A i \in MsgIds : Served(i, a) => Served(i, a)'
  BY DEF Served
<1>6. ASSUME msgs' = msgs, poller' = poller
      PROVE  \A s \in PushScans : Outcome(s)' \subseteq Outcome(s) /\ Active(s)' = Active(s)
  BY <1>6 DEF Outcome, Active, Copies, Spent
<1>7. CASE Next /\ UNCHANGED <<decoVars, sarifVars>>
  BY <1>1, <1>2, <1>7, PollDelivers
<1>8. ASSUME NEW i \in MsgIds, msgs[i].queue \in OutQueues, Keeps(i) \/ Drops(i), poller' = poller
      PROVE  \A s \in PushScans : Active(s)' = Active(s)
  BY <1>2, <1>8, OutsideActive
<1>9. CASE D!DecoNext /\ UNCHANGED <<pollVars, sarifVars>>
  <2>1. gen' = gen /\ sarifs' = sarifs /\ notified' = notified /\ poller' = poller /\ UNCHANGED pollVars
    BY <1>9 DEF pollVars, sarifVars
  <2>2. ASSUME NEW d \in D!Decorators, D!DecoStep(d) \/ D!DecoCrash(d)
        PROVE  DeliveryInv'
    <3>1. /\ Decorating(d) /\ (Keeps(deco[d].id) \/ Drops(deco[d].id))
          /\ \A s \in Scans : disturb'[s] >= disturb[s]
      BY <1>2, <2>2, DecoEffect DEF DecoFrame
    <3>2. \A s \in PushScans : Outcome(s)' = Outcome(s)
      BY <1>2, <3>1, NotOfPush
    <3>3. deco[d].id \in MsgIds /\ msgs[deco[d].id].queue \in OutQueues
      BY <1>2, <3>1, DecoratorFacts DEF SInv
    <3>4. PICK i : i = deco[d].id
      OBVIOUS
    <3>5. \A s \in PushScans : Active(s)' = Active(s)
      BY <1>8, <2>1, <3>1, <3>3, <3>4
    <3>. QED
      BY <1>1, <1>2, <1>5, <2>1, <3>1, <3>2, <3>5, NothingDelivered
  <2>3. ASSUME NEW d \in D!Decorators, NEW i \in MsgIds, D!DecoReceive(d, i)
        PROVE  DeliveryInv'
    <3>1. /\ i \in Ready(msgs, D!QueueOf(d)) /\ msgs' = Deliver(msgs, i) /\ disturb' = disturb
          /\ D!QueueOf(d) \in OutQueues
      BY <2>3, SameBroker, OutFacts DEF D!DecoReceive, OutQueues
    <3>2. Keeps(i) /\ msgs[i].queue \in OutQueues
      BY <1>2, <2>1, <3>1, ReceiveEffect DEF SInv
    <3>3. \A s \in PushScans : Outcome(s)' = Outcome(s) /\ Active(s)' = Active(s)
      BY <1>8, <2>1, <3>2, OutcomeKeeps
    <3>. QED
      BY <1>1, <1>2, <1>4, <1>5, <2>1, <3>1, <3>3, NothingDelivered
  <2>4. CASE D!OtherComment \/ UserStep
    <3>1. msgs' = msgs /\ disturb' = disturb
      BY <2>4, UserEffect DEF D!OtherComment
    <3>. QED
      BY <1>1, <1>2, <1>4, <1>5, <1>6, <2>1, <3>1, NothingDelivered
  <2>. QED
    BY <1>9, <2>2, <2>3, <2>4 DEF D!DecoNext, UserStep
<1>10. ASSUME NEW g \in Generators, G!SarifStep(g) \/ G!SarifCrash(g), UNCHANGED <<pollVars, decoVars>>
       PROVE  DeliveryInv'
  BY <1>1, <1>2, <1>10, GenKeepsDelivery
<1>11. ASSUME NEW g \in Generators, NEW i \in MsgIds, G!SarifReceive(g, i), UNCHANGED <<pollVars, decoVars>>
       PROVE  DeliveryInv'
  <2>1. /\ gen[g].pc = "idle" /\ i \in Ready(msgs, SarifGen) /\ msgs' = Deliver(msgs, i)
        /\ gen' = [gen EXCEPT ![g] = [G!GenIdle EXCEPT !.pc = "received", !.id = i]]
        /\ disturb' = disturb /\ sarifs' = sarifs
    BY <1>11, SameBroker DEF G!SarifReceive
  <2>2. notified' = notified /\ poller' = poller /\ UNCHANGED pollVars
    BY <1>11 DEF pollVars
  <2>3. Keeps(i) /\ msgs[i].queue \in OutQueues
    BY <1>2, <2>1, <2>2, ReceiveEffect DEF SInv, OutQueues
  <2>4. \A s \in PushScans : Outcome(s)' = Outcome(s) /\ Active(s)' = Active(s)
    BY <1>8, <2>2, <2>3, OutcomeKeeps
  <2>5. \A h \in Generators : gen[h].pc = "deliver" => gen'[h] = gen[h]
    <3>1. gen \in [Generators -> GenRec]
      BY <1>2 DEF SInv, GenTypes
    <3>. QED
      BY <2>1, <3>1
  <2>6. \A a \in G!Agents : \A j \in MsgIds : Served(j, a) => Served(j, a)'
    BY <2>5 DEF Served
  <2>. QED
    BY <1>1, <1>2, <1>4, <2>1, <2>2, <2>4, <2>6, NothingDelivered
<1>12. CASE UNCHANGED sysVars
  <2>1. /\ msgs' = msgs /\ poller' = poller /\ notified' = notified /\ gen' = gen /\ sarifs' = sarifs
        /\ disturb' = disturb
    BY <1>12 DEF sysVars
  <2>. QED
    BY <1>1, <1>2, <1>4, <1>5, <1>6, <2>1, NothingDelivered
<1>. QED
  BY <1>1, <1>7, <1>9, <1>10, <1>11, <1>12 DEF SysNext, G!SarifNext

(* An endpoint accepts the log of a scan once, and once more for every      *)
(* redelivery or duplicate: the messages that may still lead to a delivery  *)
(* and the deliveries made are together never more (DeliveryBudget), since  *)
(* the loop of __post ends with the first accepted answer and the message   *)
(* is not given back after a delivery except by a crash.                    *)
THEOREM DeliveriesBounded == SysSpec => []SarifBound
<1>1. SysInit => DeliveryInv
  <2>1. SUFFICES ASSUME SysInit PROVE DeliveryInv
    OBVIOUS
  <2>2. Init /\ G!SarifInit /\ SInv
    BY <2>1, InitSInv DEF SysInit
  <2>3. \A i \in MsgIds : msgs[i] = NoMsg
    BY <2>2 DEF Init
  <2>4. \A s \in PushScans : Outcome(s) = {} /\ \A a \in G!Agents : sarifs[s][a] = 0
    BY <2>2, <2>3 DEF G!SarifInit, Outcome, NoMsg
  <2>5. ASSUME NEW s \in PushScans, NEW a \in G!Agents
        PROVE  Cardinality(Owed(s, a)) + sarifs[s][a] <= 1 + disturb[s]
    <3>1. Owed(s, a) = {}
      BY <2>3, OutFacts DEF Owed, Active, Copies, NoMsg, OutQueues
    <3>2. Cardinality(Owed(s, a)) = 0
      BY <3>1, FS_EmptySet
    <3>3. disturb[s] = 0
      BY <2>2 DEF Init, Scans
    <3>. QED
      BY <2>4, <3>2, <3>3
  <2>6. DeliveryBudget
    BY <2>5 DEF DeliveryBudget
  <2>. QED
    BY <2>2, <2>4, <2>6 DEF DeliveryInv, NothingYet
<1>2. DeliveryInv => SarifBound
  <2>1. SUFFICES ASSUME DeliveryInv, NEW s \in PushScans, NEW a \in G!Agents
                 PROVE  sarifs[s][a] <= 1 + disturb[s]
    BY DEF SarifBound
  <2>2. PICK n, x, k : n = Cardinality(Owed(s, a)) /\ x = sarifs[s][a] /\ k = disturb[s]
    OBVIOUS
  <2>3. s \in Scans /\ IInv
    BY <2>1 DEF Scans, DeliveryInv, SInv
  <2>4. n \in Nat
    BY <2>2, <2>3, OwedFacts, FS_CardinalityType
  <2>5. x \in Nat
    BY <2>1, <2>2 DEF DeliveryInv, SInv, GenTypes
  <2>6. k \in Nat
    BY <2>2, <2>3, PollParts, PollingAssumption DEF TypeOK
  <2>7. n + x <= 1 + k
    BY <2>1, <2>2 DEF DeliveryInv, DeliveryBudget
  <2>8. x <= 1 + k
    BY <2>4, <2>5, <2>6, <2>7
  <2>. QED
    BY <2>2, <2>8
<1>. QED
  BY <1>1, <1>2, NextDeliveryInv, PTL DEF SysSpec
-----------------------------------------------------------------------------
(***************************************************************************)
(* The contract of monitoring, kept in the composition.                     *)
(***************************************************************************)

(* The consumers leave alone what the contract speaks of.                   *)
LEMMA ConsumersUnseen ==
  ASSUME SInv, SysNext, ~Next, NEW s \in Scans
  PROVE  Copies(s)' = Copies(s) /\ UNCHANGED pollVars
<1>1. UNCHANGED pollVars
  BY DEF SysNext
<1>2. poller' = poller
  BY <1>1 DEF pollVars
<1>3. ASSUME msgs' = msgs PROVE Copies(s)' = Copies(s)
  BY <1>3 DEF Copies
<1>4. ASSUME NEW d \in D!Decorators, D!DecoStep(d) \/ D!DecoCrash(d)
      PROVE  Copies(s)' = Copies(s)
  <2>1. Decorating(d) /\ (Keeps(deco[d].id) \/ Drops(deco[d].id))
    BY <1>4, DecoEffect DEF DecoFrame
  <2>2. deco[d].id \in MsgIds /\ msgs[deco[d].id].queue \in OutQueues
    BY <2>1, DecoratorFacts DEF SInv
  <2>. QED
    BY <1>2, <2>1, <2>2, OutsideActive
<1>5. ASSUME NEW g \in Generators, G!SarifStep(g) \/ G!SarifCrash(g)
      PROVE  Copies(s)' = Copies(s)
  <2>1. Generating(g) /\ (Keeps(gen[g].id) \/ Drops(gen[g].id))
    BY <1>5, GenEffect DEF GenFrame
  <2>2. gen[g].id \in MsgIds /\ msgs[gen[g].id].queue \in OutQueues
    BY <2>1, GeneratorFacts DEF SInv
  <2>. QED
    BY <1>2, <2>1, <2>2, OutsideActive
<1>6. ASSUME NEW i \in MsgIds, NEW q \in OutQueues, i \in Ready(msgs, q), msgs' = Deliver(msgs, i), disturb' = disturb
      PROVE  Copies(s)' = Copies(s)
  <2>1. Keeps(i) /\ msgs[i].queue \in OutQueues
    BY <1>1, <1>6, ReceiveEffect DEF SInv
  <2>. QED
    BY <1>2, <2>1, OutsideActive
<1>7. ASSUME NEW d \in D!Decorators, NEW i \in MsgIds, D!DecoReceive(d, i)
      PROVE  Copies(s)' = Copies(s)
  BY <1>6, <1>7, SameBroker, OutFacts DEF D!DecoReceive, OutQueues
<1>8. ASSUME NEW g \in Generators, NEW i \in MsgIds, G!SarifReceive(g, i)
      PROVE  Copies(s)' = Copies(s)
  BY <1>6, <1>8, SameBroker DEF G!SarifReceive, OutQueues
<1>9. CASE D!DecoNext
  BY <1>1, <1>3, <1>4, <1>7, <1>9, UserEffect DEF D!DecoNext, D!OtherComment, UserStep
<1>10. CASE G!SarifNext
  BY <1>1, <1>5, <1>8, <1>10 DEF G!SarifNext
<1>. QED
  BY <1>1, <1>9, <1>10 DEF SysNext

(* Among the other agents monitoring keeps its contract too: nothing that   *)
(* annotation, feedback and SARIF delivery do begins, ends or hides the     *)
(* monitoring of a scan (the hypothesis is that of ContractKept).           *)
THEOREM SystemKeepsContract ==
  ASSUME Lossless
  PROVE  SysSpec => ImplementsContract
<1>1. SysInit => Contract!Init /\ GivenUpOverdue
  BY ContractInit DEF SysInit, Init, GivenUpOverdue
<1>2. ASSUME SInv, [SysNext]_sysVars, ~Next
      PROVE  /\ \A s \in Scans : Copies(s)' = Copies(s)
             /\ scan' = scan /\ dropBy' = dropBy /\ start' = start /\ notified' = notified
             /\ stopped' = stopped
  <2>1. CASE SysNext
    <3>1. \A s \in Scans : Copies(s)' = Copies(s)
      BY <1>2, <2>1, ConsumersUnseen
    <3>2. UNCHANGED pollVars
      BY <1>2, <2>1 DEF SysNext
    <3>. QED
      BY <3>1, <3>2 DEF pollVars
  <2>2. CASE UNCHANGED sysVars
    BY <2>2 DEF sysVars, Copies
  <2>. QED
    BY <1>2, <2>1, <2>2
<1>3. SInv /\ GivenUpOverdue /\ [SysNext]_sysVars => GivenUpOverdue'
  <2>1. SUFFICES ASSUME SInv, GivenUpOverdue, [SysNext]_sysVars PROVE GivenUpOverdue'
    OBVIOUS
  <2>2. CASE Next
    BY <2>1, <2>2, PollParts, GivenUpStep DEF SInv
  <2>3. CASE ~Next
    BY <1>2, <2>1, <2>3 DEF GivenUpOverdue
  <2>. QED
    BY <2>2, <2>3
<1>4. SInv /\ SInv' /\ GivenUpOverdue' /\ [SysNext]_sysVars => [Contract!Next]_(Contract!vars)
  <2>1. SUFFICES ASSUME SInv, SInv', GivenUpOverdue', [SysNext]_sysVars
                 PROVE  [Contract!Next]_(Contract!vars)
    OBVIOUS
  <2>2. CASE Next
    <3>1. IInv /\ IInv' /\ [Next]_vars
      BY <2>1, <2>2 DEF SInv
    <3>. QED
      BY <2>1, <3>1, StepSimulates
  <2>3. CASE ~Next
    <3>1. /\ \A s \in Scans : Copies(s)' = Copies(s)
          /\ scan' = scan /\ dropBy' = dropBy /\ start' = start /\ notified' = notified
      BY <1>2, <2>1, <2>3
    <3>2. \A s \in Scans : Phase(s)' = Phase(s)
      BY <3>1 DEF Phase
    <3>3. EndedScans' = EndedScans /\ OverdueScans' = OverdueScans
      BY <3>1 DEF EndedScans, OverdueScans, Finished
    <3>. QED
      BY <3>2, <3>3, ContractStutter
  <2>. QED
    BY <2>2, <2>3
<1>. QED
  BY <1>1, <1>3, <1>4, SystemInvariant, PTL DEF SysSpec, ImplementsContract, Contract!Spec
=============================================================================

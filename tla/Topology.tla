------------------------------ MODULE Topology ------------------------------
(***************************************************************************)
(* The RabbitMQ topology that rabbit_config.py declares: exchanges, queues, *)
(* bindings and dead-letter exchanges, and the routing keys the services    *)
(* publish with.  A routing key is the sequence of its dot-separated words. *)
(* Matching and dead-lettering are RabbitMQ's (external); the bindings are  *)
(* the repository's.                                                        *)
(***************************************************************************)
EXTENDS Naturals, Sequences

CONSTANTS Moniker,      \* the service moniker, one word of a routing key
          AgentTags     \* the allowed-agent-tags of the resolver service

(***************************************************************************)
(* Queues.                                                                  *)
(***************************************************************************)
AwaitedScansLegacy == "pr:Awaited Scans"
AwaitedScans       == "Awaited Scans"
PollingScansLegacy == "pr:Polling Scans"
PollingScans       == "Polling Scans"
PRFeedback         == "pr:PR Feedback"
PRAnnotating       == "pr:PR Annotating"
SarifGen           == "push:Generate Sarif"
ResolverTimeout    == "res:Resolver Timeout"
ResolverComplete   == "res:Finished Resolver Scans"
ResolverReq(tag)   == "res:Resolver Req:" \o tag

(***************************************************************************)
(* Exchanges.  Exchange-to-exchange bindings carry every key (the sources   *)
(* are fanout exchanges).                                                   *)
(***************************************************************************)
ScanIn        == "Scan In"
ScanInLegacy  == "pr:Scan In"
ResolverScan  == "res:SCA Resolver Scan In"
ResolverDLX   == "res:SCA Resolver DLX"
Polling       == "Scan Polling Delivery"
PollingLegacy == "pr:Scan Polling Delivery"

FanoutBindings ==
  { <<ScanInLegacy, "pr:Scan Await">>,    <<ScanIn, "Scan Await">>,
    <<ScanInLegacy, "pr:Scan Feedback">>, <<ScanIn, "pr:Scan Feedback">>,
    <<ScanIn, "push:Sarif Workflows">>,
    <<ScanInLegacy, "pr:Scan Annotate">>, <<ScanIn, "pr:Scan Annotate">> }

(***************************************************************************)
(* Queue bindings <<exchange, pattern, queue>>.                             *)
(***************************************************************************)
PollBinding       == <<"cx", "*", "await", "*", "*">>
PollBindingLegacy == <<"cx", "pr", "await", "*", "*">>
ResolverReqStub   == <<"cx", "res", "exec", "sca-resolver", "run-scan">>
ResolverResultStub== <<"cx", "res", "exec", "sca-resolver", "scan-complete">>

QueueBindings ==
  { <<"pr:Scan Await", PollBindingLegacy, AwaitedScansLegacy>>,
    <<"Scan Await", PollBinding, AwaitedScans>>,
    <<PollingLegacy, PollBindingLegacy, PollingScansLegacy>>,
    <<Polling, PollBinding, PollingScans>>,
    <<"pr:Scan Feedback", <<"cx", "pr", "feedback", "pull-request", "*">>, PRFeedback>>,
    <<"push:Sarif Workflows", <<"cx", "push", "feedback", "push-gen-sarif", "*">>, SarifGen>>,
    <<"pr:Scan Annotate", <<"cx", "pr", "annotate", "pull-request", "*">>, PRAnnotating>>,
    <<ResolverDLX, <<"cx", "res", "#">>, ResolverTimeout>>,
    <<ResolverScan, ResolverResultStub \o <<"#">>, ResolverComplete>> }
  \cup { <<ResolverScan, ResolverReqStub \o <<t, "#">>, ResolverReq(t)>> : t \in AgentTags }

(***************************************************************************)
(* x-dead-letter-exchange of a queue; the queues that name none discard     *)
(* what is rejected without requeue.                                        *)
(***************************************************************************)
DeadLetterExchange ==
  { <<AwaitedScansLegacy, PollingLegacy>>, <<AwaitedScans, Polling>> }
  \cup { <<ResolverReq(t), ResolverDLX>> : t \in AgentTags }

(* RabbitMQ's topic match: "*" is one word, a trailing "#" any number.      *)
Matches(pattern, key) ==
  LET n == Len(pattern)
      m == IF pattern[n] = "#" THEN n - 1 ELSE n
  IN  /\ IF pattern[n] = "#" THEN Len(key) >= m ELSE Len(key) = m
      /\ \A i \in 1..m : pattern[i] = "*" \/ pattern[i] = key[i]

(* The queues a message published to an exchange with a key ends in.        *)
Destinations(exchange, key) ==
  LET reach == {exchange} \cup { b[2] : b \in { f \in FanoutBindings : f[1] = exchange } }
  IN  { b[3] : b \in { q \in QueueBindings : q[1] \in reach /\ Matches(q[2], key) } }

(* The queues a dead-lettered message of queue q ends in.                   *)
DeadLettered(q, key) ==
  UNION { Destinations(d[2], key) : d \in { x \in DeadLetterExchange : x[1] = q } }

(***************************************************************************)
(* The routing keys the services publish with (make_topic and friends).     *)
(***************************************************************************)
TopicPR(state)   == <<"cx", "pr", state, "pull-request", Moniker>>
TopicPush(state) == <<"cx", "push", state, "push-gen-sarif", Moniker>>
TopicForTag(tag) == ResolverReqStub \o <<tag, Moniker>>
ResultTopics     == {ResolverResultStub} \cup { ResolverResultStub \o <<t>> : t \in AgentTags }

(***************************************************************************)
(* What the other modules rely on: every published key ends in exactly one  *)
(* queue, the one named, and dead-lettering moves a message to the queue    *)
(* named.  TLC evaluates it in every run.                                   *)
(***************************************************************************)
ASSUME TopologyRoutes ==
  /\ Destinations(ScanIn, TopicPR("await")) = {AwaitedScans}
  /\ Destinations(ScanIn, TopicPush("await")) = {AwaitedScans}
  /\ Destinations(ScanInLegacy, TopicPR("await")) = {AwaitedScansLegacy}
  /\ Destinations(ScanIn, TopicPR("annotate")) = {PRAnnotating}
  /\ Destinations(ScanIn, TopicPR("feedback")) = {PRFeedback}
  /\ Destinations(ScanIn, TopicPush("feedback")) = {SarifGen}
  /\ DeadLettered(AwaitedScans, TopicPR("await")) = {PollingScans}
  /\ DeadLettered(AwaitedScans, TopicPush("await")) = {PollingScans}
  /\ DeadLettered(AwaitedScansLegacy, TopicPR("await")) = {PollingScansLegacy}
  /\ \A q \in {PollingScans, PollingScansLegacy, PRFeedback, PRAnnotating, SarifGen} :
        DeadLettered(q, TopicPR("await")) = {}
  /\ \A t \in AgentTags :
        /\ Destinations(ResolverScan, TopicForTag(t)) = {ResolverReq(t)}
        /\ DeadLettered(ResolverReq(t), TopicForTag(t)) = {ResolverTimeout}
  /\ \A k \in ResultTopics : Destinations(ResolverScan, k) = {ResolverComplete}
=============================================================================

---------------------------- MODULE SarifDelivery ----------------------------
(***************************************************************************)
(* process_gen_sarif: the SARIF log of a push scan, or its error, is made   *)
(* and then delivered by all delivery agents concurrently; the message is   *)
(* acknowledged when the last of them has ended.                            *)
(***************************************************************************)
EXTENDS Naturals, FiniteSets, Topology, Broker

CONSTANTS PushScans, NoMessage,
          Generators,              \* handler slots of the consumer
          HttpAgents, AmqpAgents,  \* the delivery agents configured
          Retries,                 \* delivery-retries of the HTTP agents
          Faults,                  \* of these: "crash", "sarif", "refuse", "connect"
          MaxDisturb

VARIABLES msgs, disturb,           \* shared with ScanPolling
          sarifEnabled,            \* is_enabled of the push workflow
          gen,                     \* the handlers
          sarifs,                  \* the endpoints: deliveries accepted from each agent
          undelivered              \* history: the agents that gave the scan up

Agents == HttpAgents \cup AmqpAgents

GenIdle == [pc |-> "idle", id |-> NoMessage, tried |-> [a \in Agents |-> 0], ended |-> {}, ok |-> {}]

SarifInit ==
  /\ sarifEnabled \in BOOLEAN
  /\ PushScans = {} => sarifEnabled           \* it does not matter then
  /\ gen = [g \in Generators |-> GenIdle]
  /\ sarifs = [s \in PushScans |-> [a \in Agents |-> 0]]
  /\ undelivered = [s \in PushScans |-> {}]

SarifTypeOK ==
  /\ gen \in [Generators -> [pc : {"idle", "received", "deliver"}, id : MsgIds \cup {NoMessage},
                             tried : [Agents -> 0..(Retries + 1)],
                             ended : SUBSET Agents, ok : SUBSET Agents]]
  /\ sarifs \in [PushScans -> [Agents -> Nat]]
  /\ undelivered \in [PushScans -> SUBSET Agents]

GenScan(g) == msgs[gen[g].id].scan
-----------------------------------------------------------------------------
SarifReceive(g, i) ==
  /\ gen[g].pc = "idle" /\ i \in Ready(msgs, SarifGen)
  /\ msgs' = Deliver(msgs, i)
  /\ gen' = [gen EXCEPT ![g] = [GenIdle EXCEPT !.pc = "received", !.id = i]]
  /\ UNCHANGED <<disturb, sarifEnabled, sarifs, undelivered>>

SarifEnds(g) ==
  /\ msgs' = Ack(msgs, gen[g].id)
  /\ gen' = [gen EXCEPT ![g] = GenIdle]
  /\ UNCHANGED <<disturb, sarifEnabled, sarifs>>

SarifDisabled(g) ==
  /\ gen[g].pc = "received" /\ ~sarifEnabled
  /\ SarifEnds(g) /\ UNCHANGED undelivered

SarifAbort_Nacks(g) ==
  /\ "sarif" \in Faults
  /\ gen[g].pc = "received" /\ sarifEnabled /\ msgs[gen[g].id].text = "results"
  /\ msgs' = Requeue(msgs, gen[g].id)
  /\ gen' = [gen EXCEPT ![g] = GenIdle]
  /\ UNCHANGED <<disturb, sarifEnabled, sarifs, undelivered>>

(* An exception of get_sarif_v210_log_for_scan is logged and the message    *)
(* acknowledged.  (The except clause that returns the message to the queue  *)
(* is for CxOneException, which nothing in the block raises.)               *)
SarifAbort(g) ==
  /\ "sarif" \in Faults
  /\ gen[g].pc = "received" /\ sarifEnabled /\ msgs[gen[g].id].text = "results"
  /\ SarifEnds(g) /\ undelivered' = [undelivered EXCEPT ![GenScan(g)] = Agents]

SarifGenerate(g) ==
  /\ gen[g].pc = "received" /\ sarifEnabled
  /\ gen' = [gen EXCEPT ![g].pc = "deliver"]
  /\ UNCHANGED <<msgs, disturb, sarifEnabled, sarifs, undelivered>>

Delivering(g, a) == gen[g].pc = "deliver" /\ a \notin gen[g].ended

HttpAccepted_Continues(g, a) ==
  /\ Delivering(g, a)
  /\ gen' = [gen EXCEPT ![g].tried[a] = @ + 1, ![g].ok = @ \cup {a},
                        ![g].ended = IF gen[g].tried[a] = Retries THEN @ \cup {a} ELSE @]
  /\ sarifs' = [sarifs EXCEPT ![GenScan(g)][a] = @ + 1]
  /\ UNCHANGED <<msgs, disturb, sarifEnabled, undelivered>>

(* One turn of the loop of __post: the answer is ok, is not ok, or there is *)
(* none; only an answer that is not ok is followed by another turn.         *)
HttpAccepted(g, a) ==
  /\ Delivering(g, a)
  /\ gen' = [gen EXCEPT ![g].tried[a] = @ + 1, ![g].ok = @ \cup {a}, ![g].ended = @ \cup {a}]
  /\ sarifs' = [sarifs EXCEPT ![GenScan(g)][a] = @ + 1]
  /\ UNCHANGED <<msgs, disturb, sarifEnabled, undelivered>>

HttpRefused_OneMore(g, a) ==
  /\ "refuse" \in Faults
  /\ Delivering(g, a)
  /\ gen' = [gen EXCEPT ![g].tried[a] = @ + 1,
                        ![g].ended = IF gen[g].tried[a] > Retries THEN @ \cup {a} ELSE @]
  /\ UNCHANGED <<msgs, disturb, sarifEnabled, sarifs, undelivered>>

HttpRefused(g, a) ==
  /\ "refuse" \in Faults
  /\ Delivering(g, a)
  /\ gen' = [gen EXCEPT ![g].tried[a] = @ + 1,
                        ![g].ended = IF gen[g].tried[a] = Retries THEN @ \cup {a} ELSE @]
  /\ undelivered' = IF gen[g].tried[a] = Retries
                      THEN [undelivered EXCEPT ![GenScan(g)] = @ \cup {a}] ELSE undelivered
  /\ UNCHANGED <<msgs, disturb, sarifEnabled, sarifs>>

HttpException(g, a) ==
  /\ "connect" \in Faults
  /\ Delivering(g, a)
  /\ gen' = [gen EXCEPT ![g].tried[a] = @ + 1, ![g].ended = @ \cup {a}]
  /\ undelivered' = [undelivered EXCEPT ![GenScan(g)] = @ \cup {a}]
  /\ UNCHANGED <<msgs, disturb, sarifEnabled, sarifs>>

(* The AMQP agent publishes once and logs an exception or a refusal.        *)
AmqpPublished(g, a) ==
  /\ Delivering(g, a)
  /\ gen' = [gen EXCEPT ![g].ok = @ \cup {a}, ![g].ended = @ \cup {a}]
  /\ sarifs' = [sarifs EXCEPT ![GenScan(g)][a] = @ + 1]
  /\ UNCHANGED <<msgs, disturb, sarifEnabled, undelivered>>

AmqpFailed(g, a) ==
  /\ "connect" \in Faults
  /\ Delivering(g, a)
  /\ gen' = [gen EXCEPT ![g].ended = @ \cup {a}]
  /\ undelivered' = [undelivered EXCEPT ![GenScan(g)] = @ \cup {a}]
  /\ UNCHANGED <<msgs, disturb, sarifEnabled, sarifs>>

SarifAck_FirstEnded(g) ==
  /\ gen[g].pc = "deliver" /\ gen[g].ended # {}
  /\ SarifEnds(g) /\ UNCHANGED undelivered

(* asyncio.wait returns when every delivery has ended.                      *)
SarifAck(g) ==
  /\ gen[g].pc = "deliver" /\ gen[g].ended = Agents
  /\ SarifEnds(g) /\ UNCHANGED undelivered

SarifCrash(g) ==
  /\ "crash" \in Faults
  /\ gen[g].pc # "idle" /\ disturb[GenScan(g)] < MaxDisturb
  /\ disturb' = [disturb EXCEPT ![GenScan(g)] = @ + 1]
  /\ msgs' = Requeue(msgs, gen[g].id)
  /\ gen' = [gen EXCEPT ![g] = GenIdle]
  /\ UNCHANGED <<sarifEnabled, sarifs, undelivered>>

SarifStep(g) ==
  \/ SarifDisabled(g) \/ SarifAbort(g) \/ SarifGenerate(g) \/ SarifAck(g)
  \/ \E a \in HttpAgents : HttpAccepted(g, a) \/ HttpRefused(g, a) \/ HttpException(g, a)
  \/ \E a \in AmqpAgents : AmqpPublished(g, a) \/ AmqpFailed(g, a)

SarifNext ==
  \E g \in Generators : SarifStep(g) \/ SarifCrash(g) \/ \E i \in MsgIds : SarifReceive(g, i)
=============================================================================

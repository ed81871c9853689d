------------------------------- MODULE Broker -------------------------------
(***************************************************************************)
(* The message pool of the RabbitMQ broker, as the services use it through  *)
(* aio_pika (external): a message is in a queue, ready or delivered but not *)
(* yet acknowledged.  Queues are not FIFO here: a consumer holds several    *)
(* messages at once and a requeued message may be overtaken.                *)
(***************************************************************************)
CONSTANTS MsgIds,    \* identities of the messages alive at one time (a bound)
          NoScan     \* the scan field of an unused identity

NoQueue == "none"
NoMsg == [queue |-> NoQueue, held |-> FALSE, scan |-> NoScan, ttl |-> 0, text |-> "none"]

Msg(q, s, ttl, text) ==
  [queue |-> q, held |-> FALSE, scan |-> s, ttl |-> ttl, text |-> text]

Free(ms)     == { i \in MsgIds : ms[i].queue = NoQueue }
NewId(ms)    == CHOOSE i \in Free(ms) : TRUE
Ready(ms, q) == { i \in MsgIds : ms[i].queue = q /\ ~ms[i].held }

(* basic.deliver; basic.ack, or nack without requeue on a queue that has no *)
(* dead-letter exchange; basic.nack(requeue); dead-lettering to a queue.    *)
Deliver(ms, i)       == [ms EXCEPT ![i].held = TRUE]
Ack(ms, i)           == [ms EXCEPT ![i] = NoMsg]
Requeue(ms, i)       == [ms EXCEPT ![i].held = FALSE]
DeadLetter(ms, i, q) == [ms EXCEPT ![i].queue = q, ![i].held = FALSE]
Publish(ms, m)       == [ms EXCEPT ![NewId(ms)] = m]
=============================================================================

------------------------- MODULE ResolverScanProofs -------------------------
(***************************************************************************)
(* Proofs about ResolverScan, for all requests, runners, handlers, messages, *)
(* retries and faults: its types, that a delegated request survives, and    *)
(* the bounds on what is pending, scanned and published for it.             *)
(***************************************************************************)
EXTENDS ResolverScan, FiniteSetTheorems, TLAPS

Pool == [MsgIds -> Message \cup {NoMsg}]
RunRec == [pc : {"idle", "received", "entered", "scanned", "failing", "ack", "nack", "stalled"},
           id : MsgIds \cup {NoMessage}, req : Requests \cup {NoScan},
           rc : ExitCodes, ghost : BOOLEAN]
HandlerRec == [pc : {"idle", "received", "ack"}, id : MsgIds \cup {NoMessage}]

(***************************************************************************)
(* The structure of a state: what a handler at work holds is a delivered    *)
(* message of its own queue, no two handlers hold the same one, and the     *)
(* text of a message is one of its queue.  A ghost, whose message the       *)
(* broker has taken back, holds none.                                       *)
(***************************************************************************)
Busy(w) == runner[w].pc # "idle"
Holds(w) == Busy(w) /\ ~runner[w].ghost

HandlersHold ==
  /\ \A w \in Runners : Busy(w) => runner[w].req \in Requests
  /\ \A w \in Runners : Holds(w) =>
       /\ runner[w].id \in MsgIds
       /\ msgs[runner[w].id].queue = ReqQueue /\ msgs[runner[w].id].held
       /\ msgs[runner[w].id].scan = runner[w].req
  /\ \A t \in TimeoutHandlers : tmo[t].pc # "idle" =>
       /\ tmo[t].id \in MsgIds
       /\ msgs[tmo[t].id].queue = ResolverTimeout /\ msgs[tmo[t].id].held
  /\ \A h \in ResultHandlers : res[h].pc # "idle" =>
       /\ res[h].id \in MsgIds
       /\ msgs[res[h].id].queue = ResolverComplete /\ msgs[res[h].id].held

Exclusive ==
  /\ \A v, w \in Runners : v # w /\ Holds(v) /\ Holds(w) => runner[v].id # runner[w].id
  /\ \A s, t \in TimeoutHandlers :
       s # t /\ tmo[s].pc # "idle" /\ tmo[t].pc # "idle" => tmo[s].id # tmo[t].id
  /\ \A g, h \in ResultHandlers :
       g # h /\ res[g].pc # "idle" /\ res[h].pc # "idle" => res[g].id # res[h].id

TextOK(m) ==
  /\ m.queue = ReqQueue => m.text = "request"
  /\ m.queue = ResolverTimeout => m.text \in {"expired", "rejected"}
  /\ m.queue = ResolverComplete => m.text \in Results

TextsOK == \A i \in MsgIds : TextOK(msgs[i])

SInv == TypeOK /\ HandlersHold /\ Exclusive /\ TextsOK

(***************************************************************************)
(* What is counted for a request.  A ghost goes on answering: it counts as  *)
(* pending until it has answered.  A request is still to be scanned while   *)
(* its message asks for it and no runner has got past its start.            *)
(***************************************************************************)
Asks == {"request", "expired"}
Early == {"received", "entered"}
Late == {"scanned", "failing"}
Active == Early \cup Late
Due(r) == IF req[r] = "delegated" THEN 1 ELSE 0

Past(i) == \E w \in Runners : runner[w].id = i /\ ~runner[w].ghost /\ runner[w].pc \in Late \cup {"stalled"}

Ghosts(r, pcs) == { w \in Runners : runner[w].ghost /\ runner[w].req = r /\ runner[w].pc \in pcs }
Unscanned(r) == { i \in Pending(r) : msgs[i].text \in Asks /\ ~Past(i) }
Above(r, k) == { i \in Pending(r) : msgs[i].text \in Asks /\ msgs[i].ttl > k }

PendingBudget(r) ==
  Cardinality(Pending(r)) + Cardinality(Ghosts(r, Active)) + outcomes[r] <= Due(r) + disturb[r]
ScanBudget(r) ==
  Cardinality(Unscanned(r)) + Cardinality(Ghosts(r, Early)) + scans[r] <= Due(r) + disturb[r]
RetryBudget(r, k) ==
  Cardinality(Above(r, k)) + published[r][k] <= Due(r) + disturb[r]

Budgets ==
  \A r \in Requests : PendingBudget(r) /\ ScanBudget(r) /\ \A k \in 0..ScanRetries : RetryBudget(r, k)

IInv == SInv /\ DelegationSurvives /\ Budgets
-----------------------------------------------------------------------------
(***************************************************************************)
(* The broker's operations on a pool of typed messages.                     *)
(***************************************************************************)

(* The queues have different names, and no queue is no queue.               *)
LEMMA QueueFacts ==
  /\ ReqQueue # NoQueue /\ ResolverTimeout # NoQueue /\ ResolverComplete # NoQueue
  /\ ReqQueue # ResolverTimeout /\ ReqQueue # ResolverComplete /\ ResolverTimeout # ResolverComplete
BY ResolverAssumption DEF NoQueue, ResolverTimeout, ResolverComplete

(* A message of the pool that is in a queue is a proper one; an unused      *)
(* identity is in no queue, not held and of no request.                     *)
LEMMA UsedIsMessage ==
  ASSUME NEW ms \in Pool, NEW i \in MsgIds
  PROVE  /\ ms[i].queue # NoQueue => ms[i] \in Message
         /\ ms[i].queue = NoQueue => ms[i] = NoMsg
         /\ ms[i].scan \in Requests => ms[i] \in Message
         /\ ms[i].held => ms[i] \in Message
         /\ ms[i] \in Message => ms[i].queue # NoQueue
BY QueueFacts, ResolverAssumption DEF Pool, NoMsg, Message

(* Publishing puts the message at an unused identity, and only there.       *)
LEMMA PublishFacts ==
  ASSUME NEW ms \in Pool, NEW m \in Message, Free(ms) # {}
  PROVE  /\ NewId(ms) \in MsgIds
         /\ ms[NewId(ms)] = NoMsg
         /\ Publish(ms, m) \in Pool
         /\ Publish(ms, m)[NewId(ms)] = m
         /\ \A j \in MsgIds \ {NewId(ms)} : Publish(ms, m)[j] = ms[j]
<1>1. NewId(ms) \in Free(ms)
  BY DEF NewId
<1>2. NewId(ms) \in MsgIds /\ ms[NewId(ms)] = NoMsg
  BY <1>1, UsedIsMessage DEF Free
<1>. QED
  BY <1>2 DEF Publish, Pool

(* What Msg builds is a message that nobody holds.                          *)
LEMMA MsgFacts ==
  ASSUME NEW q \in {ReqQueue, ResolverTimeout, ResolverComplete}, NEW s \in Requests,
         NEW d \in 0..ScanRetries, NEW x \in Results \cup Asks
  PROVE  /\ Msg(q, s, d, x) \in Message /\ ~Msg(q, s, d, x).held
         /\ Msg(q, s, d, x).queue = q /\ Msg(q, s, d, x).scan = s
         /\ Msg(q, s, d, x).ttl = d /\ Msg(q, s, d, x).text = x
BY DEF Msg, Message, Asks

(* Delivering a message marks it held and changes nothing else.             *)
LEMMA DeliverFacts ==
  ASSUME NEW ms \in Pool, NEW i \in MsgIds, ms[i] \in Message
  PROVE  /\ Deliver(ms, i) \in Pool /\ Deliver(ms, i)[i].held
         /\ Deliver(ms, i)[i].queue = ms[i].queue /\ Deliver(ms, i)[i].scan = ms[i].scan
         /\ Deliver(ms, i)[i].text = ms[i].text /\ Deliver(ms, i)[i].ttl = ms[i].ttl
         /\ \A j \in MsgIds \ {i} : Deliver(ms, i)[j] = ms[j]
BY DEF Pool, Message, Deliver

(* Requeueing a message makes it ready and changes nothing else.            *)
LEMMA RequeueFacts ==
  ASSUME NEW ms \in Pool, NEW i \in MsgIds, ms[i] \in Message
  PROVE  /\ Requeue(ms, i) \in Pool /\ ~Requeue(ms, i)[i].held
         /\ Requeue(ms, i)[i].queue = ms[i].queue /\ Requeue(ms, i)[i].scan = ms[i].scan
         /\ Requeue(ms, i)[i].text = ms[i].text /\ Requeue(ms, i)[i].ttl = ms[i].ttl
         /\ \A j \in MsgIds \ {i} : Requeue(ms, i)[j] = ms[j]
BY DEF Pool, Message, Requeue

(* Acknowledging frees the identity of the message.                         *)
LEMMA AckFacts ==
  ASSUME NEW ms \in Pool, NEW i \in MsgIds
  PROVE  /\ Ack(ms, i) \in Pool /\ Ack(ms, i)[i] = NoMsg
         /\ \A j \in MsgIds \ {i} : Ack(ms, i)[j] = ms[j]
BY DEF Ack, Pool

Dead(ms, i, x) == [DeadLetter(ms, i, ResolverTimeout) EXCEPT ![i].text = x]

(* The dead letter of a request is ready in the time-out queue, with the    *)
(* reason in place of its text.                                             *)
LEMMA DeadLetterFacts ==
  ASSUME NEW ms \in Pool, NEW i \in MsgIds, ms[i] \in Message, NEW x \in {"expired", "rejected"}
  PROVE  /\ Dead(ms, i, x) \in Pool /\ ~Dead(ms, i, x)[i].held
         /\ Dead(ms, i, x)[i].queue = ResolverTimeout /\ Dead(ms, i, x)[i].scan = ms[i].scan
         /\ Dead(ms, i, x)[i].text = x /\ Dead(ms, i, x)[i].ttl = ms[i].ttl
         /\ \A j \in MsgIds \ {i} : Dead(ms, i, x)[j] = ms[j]
BY DEF Pool, Message, DeadLetter, Dead

(* An unused identity is ready in no queue and has no text to answer.       *)
LEMMA NoMsgFacts ==
  /\ ~NoMsg.held /\ NoMsg.queue = NoQueue /\ NoMsg.scan \notin Requests
  /\ TextOK(NoMsg) /\ NoMsg.text # "rejected"
BY QueueFacts, ResolverAssumption DEF NoMsg, TextOK
-----------------------------------------------------------------------------
(***************************************************************************)
(* The status of a message, by who holds it.                                *)
(***************************************************************************)

(* A message nobody has been given is answered only if it was rejected.     *)
LEMMA NotHeld ==
  ASSUME HandlersHold, NEW i \in MsgIds, ~msgs[i].held
  PROVE  /\ Answered(i) <=> msgs[i].text = "rejected"
         /\ ~Past(i)
BY DEF HandlersHold, Holds, Busy, Answered, Past, Late

(* The request a runner holds is answered once it is to be acknowledged.    *)
LEMMA RunnerHas ==
  ASSUME SInv, NEW w \in Runners, Holds(w)
  PROVE  /\ Answered(runner[w].id) <=> runner[w].pc \in {"ack", "nack"}
         /\ Past(runner[w].id) <=> runner[w].pc \in Late \cup {"stalled"}
         /\ msgs[runner[w].id].text = "request"
<1>. DEFINE i == runner[w].id
<1>1. i \in MsgIds /\ msgs[i].queue = ReqQueue /\ msgs[i].text = "request"
  BY DEF SInv, HandlersHold, TextsOK, TextOK
<1>2. /\ \A t \in TimeoutHandlers : tmo[t].pc = "ack" => tmo[t].id # i
      /\ \A h \in ResultHandlers : res[h].pc = "ack" => res[h].id # i
  BY <1>1, QueueFacts DEF SInv, HandlersHold
<1>3. \A v \in Runners : Holds(v) /\ runner[v].id = i => v = w
  BY DEF SInv, Exclusive
<1>. HIDE DEF i
<1>. QED
  BY <1>1, <1>2, <1>3 DEF Answered, Past, Holds, Busy, Late, i

(* A dead letter that a time-out handler holds.                             *)
LEMMA TimeoutHas ==
  ASSUME SInv, NEW t \in TimeoutHandlers, tmo[t].pc # "idle"
  PROVE  /\ Answered(tmo[t].id) <=> tmo[t].pc = "ack" \/ msgs[tmo[t].id].text = "rejected"
         /\ ~Past(tmo[t].id)
         /\ msgs[tmo[t].id].text \in {"expired", "rejected"}
<1>. DEFINE i == tmo[t].id
<1>1. i \in MsgIds /\ msgs[i].queue = ResolverTimeout /\ msgs[i].text \in {"expired", "rejected"}
  BY DEF SInv, HandlersHold, TextsOK, TextOK
<1>2. /\ \A w \in Runners : Holds(w) => runner[w].id # i
      /\ \A h \in ResultHandlers : res[h].pc = "ack" => res[h].id # i
  BY <1>1, QueueFacts DEF SInv, HandlersHold
<1>3. \A s \in TimeoutHandlers : tmo[s].pc # "idle" /\ tmo[s].id = i => s = t
  BY DEF SInv, Exclusive
<1>. HIDE DEF i
<1>. QED
  BY <1>1, <1>2, <1>3 DEF Answered, Past, Holds, Busy, Late, i

(* A result that a result handler holds.                                    *)
LEMMA ResultHas ==
  ASSUME SInv, NEW h \in ResultHandlers, res[h].pc # "idle"
  PROVE  /\ Answered(res[h].id) <=> res[h].pc = "ack"
         /\ msgs[res[h].id].text \in Results
<1>. DEFINE i == res[h].id
<1>1. i \in MsgIds /\ msgs[i].queue = ResolverComplete /\ msgs[i].text \in Results
  BY DEF SInv, HandlersHold, TextsOK, TextOK
<1>2. /\ \A w \in Runners : Holds(w) => runner[w].id # i
      /\ \A t \in TimeoutHandlers : tmo[t].pc = "ack" => tmo[t].id # i
  BY <1>1, QueueFacts DEF SInv, HandlersHold
<1>3. \A g \in ResultHandlers : res[g].pc # "idle" /\ res[g].id = i => g = h
  BY DEF SInv, Exclusive
<1>. HIDE DEF i
<1>. QED
  BY <1>1, <1>2, <1>3 DEF Answered, Holds, Busy, i, Results

StatusOK ==
  /\ \A i \in MsgIds : ~msgs[i].held => /\ Answered(i) <=> msgs[i].text = "rejected"
                                        /\ ~Past(i)
  /\ \A w \in Runners : Holds(w) =>
       /\ Answered(runner[w].id) <=> runner[w].pc \in {"ack", "nack"}
       /\ Past(runner[w].id) <=> runner[w].pc \in Late \cup {"stalled"}
       /\ msgs[runner[w].id].text = "request"
  /\ \A t \in TimeoutHandlers : tmo[t].pc # "idle" =>
       /\ Answered(tmo[t].id) <=> tmo[t].pc = "ack" \/ msgs[tmo[t].id].text = "rejected"
       /\ ~Past(tmo[t].id)
       /\ msgs[tmo[t].id].text \in {"expired", "rejected"}
  /\ \A h \in ResultHandlers : res[h].pc # "idle" =>
       /\ Answered(res[h].id) <=> res[h].pc = "ack"
       /\ msgs[res[h].id].text \in Results

(* In a state of that structure the status of every message is known.       *)
LEMMA Status == SInv => StatusOK
<1>. SUFFICES ASSUME SInv PROVE StatusOK
  OBVIOUS
<1>1. HandlersHold
  BY DEF SInv
<1>. QED
  BY <1>1, NotHeld, RunnerHas, TimeoutHas, ResultHas DEF StatusOK

(* So what is counted of it is known as well.                               *)
ReadyTokens(i, r) ==
  /\ i \in Pending(r) <=> msgs[i].scan = r /\ msgs[i].text # "rejected"
  /\ i \in Unscanned(r) <=> msgs[i].scan = r /\ msgs[i].text \in Asks
  /\ \A k \in 0..ScanRetries :
       i \in Above(r, k) <=> msgs[i].scan = r /\ msgs[i].text \in Asks /\ msgs[i].ttl > k

RunnerTokens(w, r) ==
  /\ runner[w].id \in Pending(r) <=> runner[w].req = r /\ runner[w].pc \notin {"ack", "nack"}
  /\ runner[w].id \in Unscanned(r) <=> runner[w].req = r /\ runner[w].pc \in Early
  /\ \A k \in 0..ScanRetries :
       runner[w].id \in Above(r, k) <=>
         runner[w].req = r /\ runner[w].pc \notin {"ack", "nack"} /\ msgs[runner[w].id].ttl > k

TimeoutTokens(t, r) ==
  /\ tmo[t].id \in Pending(r) <=>
       TimeoutMsg(t).scan = r /\ tmo[t].pc # "ack" /\ TimeoutMsg(t).text = "expired"
  /\ tmo[t].id \in Unscanned(r) <=>
       TimeoutMsg(t).scan = r /\ tmo[t].pc # "ack" /\ TimeoutMsg(t).text = "expired"
  /\ \A k \in 0..ScanRetries :
       tmo[t].id \in Above(r, k) <=>
         TimeoutMsg(t).scan = r /\ tmo[t].pc # "ack" /\ TimeoutMsg(t).text = "expired" /\ TimeoutMsg(t).ttl > k

ResultTokens(h, r) ==
  /\ res[h].id \in Pending(r) <=> ResultMsg(h).scan = r /\ res[h].pc # "ack"
  /\ res[h].id \notin Unscanned(r)
  /\ \A k \in 0..ScanRetries : res[h].id \notin Above(r, k)

TokensOK ==
  \A r \in Requests :
    /\ \A i \in MsgIds : ~msgs[i].held => ReadyTokens(i, r)
    /\ \A w \in Runners : Holds(w) => RunnerTokens(w, r)
    /\ \A t \in TimeoutHandlers : tmo[t].pc # "idle" => TimeoutTokens(t, r)
    /\ \A h \in ResultHandlers : res[h].pc # "idle" => ResultTokens(h, r)

(* In a state of that structure what is counted is known.                   *)
LEMMA Tokens == SInv => TokensOK
<1>. SUFFICES ASSUME SInv, NEW r \in Requests
              PROVE  /\ \A i \in MsgIds : ~msgs[i].held => ReadyTokens(i, r)
                     /\ \A w \in Runners : Holds(w) => RunnerTokens(w, r)
                     /\ \A t \in TimeoutHandlers : tmo[t].pc # "idle" => TimeoutTokens(t, r)
                     /\ \A h \in ResultHandlers : res[h].pc # "idle" => ResultTokens(h, r)
  BY DEF TokensOK
<1>0. StatusOK
  BY Status
<1>1. ASSUME NEW i \in MsgIds, ~msgs[i].held
      PROVE  ReadyTokens(i, r)
  <2>1. (Answered(i) <=> msgs[i].text = "rejected") /\ ~Past(i)
    BY <1>0, <1>1 DEF StatusOK
  <2>. QED
    BY <2>1 DEF ReadyTokens, Pending, Unscanned, Above, Asks
<1>2. ASSUME NEW w \in Runners, Holds(w)
      PROVE  RunnerTokens(w, r)
  <2>1. /\ Answered(runner[w].id) <=> runner[w].pc \in {"ack", "nack"}
        /\ Past(runner[w].id) <=> runner[w].pc \in Late \cup {"stalled"}
        /\ msgs[runner[w].id].text = "request"
    BY <1>0, <1>2 DEF StatusOK
  <2>2. runner[w].id \in MsgIds /\ msgs[runner[w].id].scan = runner[w].req
    BY <1>2 DEF SInv, HandlersHold
  <2>3. runner[w].pc \in Early \cup Late \cup {"ack", "nack", "stalled"}
    BY <1>2 DEF SInv, TypeOK, Holds, Busy, Early, Late
  <2>. QED
    BY <2>1, <2>2, <2>3 DEF RunnerTokens, Pending, Unscanned, Above, Asks, Early, Late
<1>3. ASSUME NEW t \in TimeoutHandlers, tmo[t].pc # "idle"
      PROVE  TimeoutTokens(t, r)
  <2>1. /\ Answered(tmo[t].id) <=> tmo[t].pc = "ack" \/ msgs[tmo[t].id].text = "rejected"
        /\ ~Past(tmo[t].id)
        /\ msgs[tmo[t].id].text \in {"expired", "rejected"}
    BY <1>0, <1>3 DEF StatusOK
  <2>2. tmo[t].id \in MsgIds
    BY <1>3 DEF SInv, HandlersHold
  <2>. QED
    BY <2>1, <2>2 DEF TimeoutTokens, TimeoutMsg, Pending, Unscanned, Above, Asks
<1>4. ASSUME NEW h \in ResultHandlers, res[h].pc # "idle"
      PROVE  ResultTokens(h, r)
  <2>1. /\ Answered(res[h].id) <=> res[h].pc = "ack"
        /\ msgs[res[h].id].text \in Results
    BY <1>0, <1>4 DEF StatusOK
  <2>2. res[h].id \in MsgIds
    BY <1>4 DEF SInv, HandlersHold
  <2>. QED
    BY <2>1, <2>2 DEF ResultTokens, ResultMsg, Pending, Unscanned, Above, Asks, Results
<1>. QED
  BY <1>1, <1>2, <1>3, <1>4

(* The same of the next state.                                              *)
LEMMA TokensNext == SInv' => TokensOK'
BY Tokens, PTL
-----------------------------------------------------------------------------
(***************************************************************************)
(* One handler moves and the messages of X change, each of them ready or    *)
(* held by that handler: the structure is kept, and every other message     *)
(* keeps its status.                                                        *)
(***************************************************************************)
Same(j) ==
  /\ msgs'[j] = msgs[j]
  /\ Answered(j)' <=> Answered(j)
  /\ Past(j)' <=> Past(j)

Structure == HandlersHold /\ Exclusive /\ TextsOK

(* A runner moves to the state v.                                           *)
LEMMA RunnerMoves ==
  ASSUME SInv, NEW w \in Runners, NEW v \in RunRec,
         runner' = [runner EXCEPT ![w] = v], tmo' = tmo, res' = res,
         NEW X \in SUBSET MsgIds, \A j \in MsgIds \ X : msgs'[j] = msgs[j],
         \A j \in X : /\ ~msgs[j].held \/ (Holds(w) /\ j = runner[w].id)
                      /\ TextOK(msgs'[j]),
         v.pc # "idle" => v.req \in Requests,
         v.pc # "idle" /\ ~v.ghost =>
           /\ v.id \in X \/ (Holds(w) /\ v.id = runner[w].id)
           /\ msgs'[v.id].queue = ReqQueue /\ msgs'[v.id].held /\ msgs'[v.id].scan = v.req
  PROVE  /\ Structure'
         /\ \A j \in MsgIds \ X : (Holds(w) => j # runner[w].id) => Same(j)
<1>1. /\ runner'[w] = v
      /\ \A u \in Runners \ {w} : runner'[u] = runner[u]
  BY DEF SInv, TypeOK
<1>2. \A u \in Runners \ {w} : Holds(u) => /\ runner[u].id \in MsgIds \ X
                                           /\ Holds(w) => runner[u].id # runner[w].id
  BY DEF SInv, HandlersHold, Exclusive
<1>3. /\ \A t \in TimeoutHandlers : tmo[t].pc # "idle" => tmo[t].id \in MsgIds \ X
      /\ \A h \in ResultHandlers : res[h].pc # "idle" => res[h].id \in MsgIds \ X
  BY QueueFacts DEF SInv, HandlersHold
<1>4. HandlersHold'
  <2>1. \A u \in Runners : Busy(u)' => (runner[u].req)' \in Requests
    BY <1>1 DEF SInv, HandlersHold, Busy
  <2>2. ASSUME NEW u \in Runners, Holds(u)'
        PROVE  /\ runner'[u].id \in MsgIds
               /\ msgs'[runner'[u].id].queue = ReqQueue /\ msgs'[runner'[u].id].held
               /\ msgs'[runner'[u].id].scan = runner'[u].req
    <3>1. CASE u = w
      BY <3>1, <2>2, <1>1 DEF SInv, HandlersHold, Holds, Busy
    <3>2. CASE u # w
      <4>1. Holds(u)
        BY <3>2, <2>2, <1>1 DEF Holds, Busy
      <4>. QED
        BY <4>1, <3>2, <1>1, <1>2 DEF SInv, HandlersHold
    <3>. QED
      BY <3>1, <3>2
  <2>3. \A t \in TimeoutHandlers : tmo[t].pc # "idle" =>
           /\ tmo[t].id \in MsgIds
           /\ msgs'[tmo[t].id].queue = ResolverTimeout /\ msgs'[tmo[t].id].held
    BY <1>3 DEF SInv, HandlersHold
  <2>4. \A h \in ResultHandlers : res[h].pc # "idle" =>
           /\ res[h].id \in MsgIds
           /\ msgs'[res[h].id].queue = ResolverComplete /\ msgs'[res[h].id].held
    BY <1>3 DEF SInv, HandlersHold
  <2>. QED
    BY <2>1, <2>2, <2>3, <2>4 DEF HandlersHold
<1>5. Exclusive'
  <2>1. ASSUME NEW t \in Runners, NEW u \in Runners, t # u, Holds(t)', Holds(u)'
        PROVE  runner'[t].id # runner'[u].id
    <3>1. CASE t # w /\ u # w
      BY <3>1, <2>1, <1>1 DEF SInv, Exclusive, Holds, Busy
    <3>2. CASE t = w
      BY <3>2, <2>1, <1>1, <1>2 DEF Holds, Busy
    <3>3. CASE u = w
      BY <3>3, <2>1, <1>1, <1>2 DEF Holds, Busy
    <3>. QED
      BY <3>1, <3>2, <3>3
  <2>. QED
    BY <2>1 DEF SInv, Exclusive
<1>6. TextsOK'
  BY DEF SInv, TextsOK
<1>7. ASSUME NEW j \in MsgIds \ X, Holds(w) => j # runner[w].id
      PROVE  Same(j)
  <2>1. v.pc # "idle" /\ ~v.ghost => v.id # j
    BY <1>7
  <2>2. \A u \in Runners : (~runner'[u].ghost /\ runner'[u].pc # "idle" /\ runner'[u].id = j)
                             <=> (~runner[u].ghost /\ runner[u].pc # "idle" /\ runner[u].id = j /\ u # w)
    BY <2>1, <1>1
  <2>3. \A u \in Runners \ {w} : runner'[u].pc = runner[u].pc
    BY <1>1
  <2>4. ~(~runner[w].ghost /\ runner[w].pc # "idle" /\ runner[w].id = j)
    BY <1>7 DEF Holds, Busy
  <2>5. Past(j)' <=> Past(j)
    BY <2>2, <2>3, <2>4 DEF Past, Late
  <2>6. Answered(j)' <=> Answered(j)
    BY <2>2, <2>3, <2>4 DEF Answered
  <2>. QED
    BY <2>5, <2>6 DEF Same
<1>. QED
  BY <1>4, <1>5, <1>6, <1>7 DEF Structure

(* A time-out handler moves to the state v.                                 *)
LEMMA TimeoutMoves ==
  ASSUME SInv, NEW t \in TimeoutHandlers, NEW v \in HandlerRec,
         tmo' = [tmo EXCEPT ![t] = v], runner' = runner, res' = res,
         NEW X \in SUBSET MsgIds, \A j \in MsgIds \ X : msgs'[j] = msgs[j],
         \A j \in X : /\ ~msgs[j].held \/ (tmo[t].pc # "idle" /\ j = tmo[t].id)
                      /\ TextOK(msgs'[j]),
         v.pc # "idle" =>
           /\ v.id \in X \/ (tmo[t].pc # "idle" /\ v.id = tmo[t].id)
           /\ msgs'[v.id].queue = ResolverTimeout /\ msgs'[v.id].held
  PROVE  /\ Structure'
         /\ \A j \in MsgIds \ X : (tmo[t].pc # "idle" => j # tmo[t].id) => Same(j)
<1>1. /\ tmo'[t] = v
      /\ \A u \in TimeoutHandlers \ {t} : tmo'[u] = tmo[u]
  BY DEF SInv, TypeOK
<1>2. \A u \in TimeoutHandlers \ {t} :
         tmo[u].pc # "idle" => /\ tmo[u].id \in MsgIds \ X
                               /\ tmo[t].pc # "idle" => tmo[u].id # tmo[t].id
  BY DEF SInv, HandlersHold, Exclusive
<1>3. /\ \A w \in Runners : Holds(w) => runner[w].id \in MsgIds \ X
      /\ \A h \in ResultHandlers : res[h].pc # "idle" => res[h].id \in MsgIds \ X
  BY QueueFacts DEF SInv, HandlersHold
<1>4. HandlersHold'
  <2>1. ASSUME NEW u \in TimeoutHandlers, tmo'[u].pc # "idle"
        PROVE  /\ tmo'[u].id \in MsgIds
               /\ msgs'[tmo'[u].id].queue = ResolverTimeout /\ msgs'[tmo'[u].id].held
    <3>1. CASE u = t
      BY <3>1, <2>1, <1>1 DEF SInv, HandlersHold
    <3>2. CASE u # t
      BY <3>2, <2>1, <1>1, <1>2 DEF SInv, HandlersHold
    <3>. QED
      BY <3>1, <3>2
  <2>2. \A w \in Runners : Holds(w) =>
           /\ runner[w].id \in MsgIds
           /\ msgs'[runner[w].id].queue = ReqQueue /\ msgs'[runner[w].id].held
           /\ msgs'[runner[w].id].scan = runner[w].req
    BY <1>3 DEF SInv, HandlersHold
  <2>3. \A h \in ResultHandlers : res[h].pc # "idle" =>
           /\ res[h].id \in MsgIds
           /\ msgs'[res[h].id].queue = ResolverComplete /\ msgs'[res[h].id].held
    BY <1>3 DEF SInv, HandlersHold
  <2>4. \A w \in Runners : Busy(w) => runner[w].req \in Requests
    BY DEF SInv, HandlersHold
  <2>. QED
    BY <2>1, <2>2, <2>3, <2>4 DEF HandlersHold, Holds, Busy
<1>5. Exclusive'
  <2>1. ASSUME NEW s \in TimeoutHandlers, NEW u \in TimeoutHandlers, s # u,
               tmo'[s].pc # "idle", tmo'[u].pc # "idle"
        PROVE  tmo'[s].id # tmo'[u].id
    <3>1. CASE s # t /\ u # t
      BY <3>1, <2>1, <1>1 DEF SInv, Exclusive
    <3>2. CASE s = t
      BY <3>2, <2>1, <1>1, <1>2
    <3>3. CASE u = t
      BY <3>3, <2>1, <1>1, <1>2
    <3>. QED
      BY <3>1, <3>2, <3>3
  <2>. QED
    BY <2>1 DEF SInv, Exclusive, Holds, Busy
<1>6. TextsOK'
  BY DEF SInv, TextsOK
<1>7. ASSUME NEW j \in MsgIds \ X, tmo[t].pc # "idle" => j # tmo[t].id
      PROVE  Same(j)
  <2>1. \A u \in TimeoutHandlers : (tmo'[u].id = j /\ tmo'[u].pc = "ack") <=> (tmo[u].id = j /\ tmo[u].pc = "ack")
    BY <1>1, <1>7
  <2>. QED
    BY <2>1 DEF Same, Past, Answered
<1>. QED
  BY <1>4, <1>5, <1>6, <1>7 DEF Structure

(* A result handler moves to the state v.                                   *)
LEMMA ResultMoves ==
  ASSUME SInv, NEW h \in ResultHandlers, NEW v \in HandlerRec,
         res' = [res EXCEPT ![h] = v], runner' = runner, tmo' = tmo,
         NEW X \in SUBSET MsgIds, \A j \in MsgIds \ X : msgs'[j] = msgs[j],
         \A j \in X : /\ ~msgs[j].held \/ (res[h].pc # "idle" /\ j = res[h].id)
                      /\ TextOK(msgs'[j]),
         v.pc # "idle" =>
           /\ v.id \in X \/ (res[h].pc # "idle" /\ v.id = res[h].id)
           /\ msgs'[v.id].queue = ResolverComplete /\ msgs'[v.id].held
  PROVE  /\ Structure'
         /\ \A j \in MsgIds \ X : (res[h].pc # "idle" => j # res[h].id) => Same(j)
<1>1. /\ res'[h] = v
      /\ \A u \in ResultHandlers \ {h} : res'[u] = res[u]
  BY DEF SInv, TypeOK
<1>2. \A u \in ResultHandlers \ {h} :
         res[u].pc # "idle" => /\ res[u].id \in MsgIds \ X
                               /\ res[h].pc # "idle" => res[u].id # res[h].id
  BY DEF SInv, HandlersHold, Exclusive
<1>3. /\ \A w \in Runners : Holds(w) => runner[w].id \in MsgIds \ X
      /\ \A t \in TimeoutHandlers : tmo[t].pc # "idle" => tmo[t].id \in MsgIds \ X
  BY QueueFacts DEF SInv, HandlersHold
<1>4. HandlersHold'
  <2>1. ASSUME NEW u \in ResultHandlers, res'[u].pc # "idle"
        PROVE  /\ res'[u].id \in MsgIds
               /\ msgs'[res'[u].id].queue = ResolverComplete /\ msgs'[res'[u].id].held
    <3>1. CASE u = h
      BY <3>1, <2>1, <1>1 DEF SInv, HandlersHold
    <3>2. CASE u # h
      BY <3>2, <2>1, <1>1, <1>2 DEF SInv, HandlersHold
    <3>. QED
      BY <3>1, <3>2
  <2>2. \A w \in Runners : Holds(w) =>
           /\ runner[w].id \in MsgIds
           /\ msgs'[runner[w].id].queue = ReqQueue /\ msgs'[runner[w].id].held
           /\ msgs'[runner[w].id].scan = runner[w].req
    BY <1>3 DEF SInv, HandlersHold
  <2>3. \A t \in TimeoutHandlers : tmo[t].pc # "idle" =>
           /\ tmo[t].id \in MsgIds
           /\ msgs'[tmo[t].id].queue = ResolverTimeout /\ msgs'[tmo[t].id].held
    BY <1>3 DEF SInv, HandlersHold
  <2>4. \A w \in Runners : Busy(w) => runner[w].req \in Requests
    BY DEF SInv, HandlersHold
  <2>. QED
    BY <2>1, <2>2, <2>3, <2>4 DEF HandlersHold, Holds, Busy
<1>5. Exclusive'
  <2>1. ASSUME NEW g \in ResultHandlers, NEW u \in ResultHandlers, g # u,
               res'[g].pc # "idle", res'[u].pc # "idle"
        PROVE  res'[g].id # res'[u].id
    <3>1. CASE g # h /\ u # h
      BY <3>1, <2>1, <1>1 DEF SInv, Exclusive
    <3>2. CASE g = h
      BY <3>2, <2>1, <1>1, <1>2
    <3>3. CASE u = h
      BY <3>3, <2>1, <1>1, <1>2
    <3>. QED
      BY <3>1, <3>2, <3>3
  <2>. QED
    BY <2>1 DEF SInv, Exclusive, Holds, Busy
<1>6. TextsOK'
  BY DEF SInv, TextsOK
<1>7. ASSUME NEW j \in MsgIds \ X, res[h].pc # "idle" => j # res[h].id
      PROVE  Same(j)
  <2>1. \A u \in ResultHandlers : (res'[u].id = j /\ res'[u].pc = "ack") <=> (res[u].id = j /\ res[u].pc = "ack")
    BY <1>1, <1>7
  <2>. QED
    BY <2>1 DEF Same, Past, Answered
<1>. QED
  BY <1>4, <1>5, <1>6, <1>7 DEF Structure

(* The server or the broker changes ready messages.                         *)
LEMMA PoolMoves ==
  ASSUME SInv, runner' = runner, tmo' = tmo, res' = res,
         NEW X \in SUBSET MsgIds, \A j \in MsgIds \ X : msgs'[j] = msgs[j],
         \A j \in X : ~msgs[j].held /\ TextOK(msgs'[j])
  PROVE  /\ Structure'
         /\ \A j \in MsgIds \ X : Same(j)
<1>1. /\ \A w \in Runners : Holds(w) => runner[w].id \in MsgIds \ X
      /\ \A t \in TimeoutHandlers : tmo[t].pc # "idle" => tmo[t].id \in MsgIds \ X
      /\ \A h \in ResultHandlers : res[h].pc # "idle" => res[h].id \in MsgIds \ X
  BY DEF SInv, HandlersHold
<1>2. HandlersHold'
  <2>1. \A w \in Runners : Holds(w) =>
           /\ runner[w].id \in MsgIds
           /\ msgs'[runner[w].id].queue = ReqQueue /\ msgs'[runner[w].id].held
           /\ msgs'[runner[w].id].scan = runner[w].req
    BY <1>1 DEF SInv, HandlersHold
  <2>2. \A t \in TimeoutHandlers : tmo[t].pc # "idle" =>
           /\ tmo[t].id \in MsgIds
           /\ msgs'[tmo[t].id].queue = ResolverTimeout /\ msgs'[tmo[t].id].held
    BY <1>1 DEF SInv, HandlersHold
  <2>3. \A h \in ResultHandlers : res[h].pc # "idle" =>
           /\ res[h].id \in MsgIds
           /\ msgs'[res[h].id].queue = ResolverComplete /\ msgs'[res[h].id].held
    BY <1>1 DEF SInv, HandlersHold
  <2>4. \A w \in Runners : Busy(w) => runner[w].req \in Requests
    BY DEF SInv, HandlersHold
  <2>. QED
    BY <2>1, <2>2, <2>3, <2>4 DEF HandlersHold, Holds, Busy
<1>3. Exclusive'
  BY DEF SInv, Exclusive, Holds, Busy
<1>4. TextsOK'
  BY DEF SInv, TextsOK
<1>5. \A j \in MsgIds \ X : Same(j)
  BY DEF Same, Past, Answered
<1>. QED
  BY <1>2, <1>3, <1>4, <1>5 DEF Structure
-----------------------------------------------------------------------------
(***************************************************************************)
(* Budgets: two finite sets and a counter within a limit.                   *)
(***************************************************************************)

(* Cardinalities under the changes a step makes to a set.                   *)
LEMMA CardFacts ==
  ASSUME NEW S, IsFiniteSet(S), NEW T
  PROVE  /\ Cardinality(S) \in Nat
         /\ T \subseteq S => Cardinality(T) \in Nat /\ Cardinality(T) <= Cardinality(S)
         /\ \A y : T \subseteq S \cup {y} => Cardinality(T) \in Nat /\ Cardinality(T) <= Cardinality(S) + 1
         /\ \A x \in S : T \subseteq S \ {x} => Cardinality(T) \in Nat /\ Cardinality(T) <= Cardinality(S) - 1
         /\ \A x \in S : \A y : T \subseteq (S \ {x}) \cup {y} =>
              Cardinality(T) \in Nat /\ Cardinality(T) <= Cardinality(S)
<1>1. Cardinality(S) \in Nat
  BY FS_CardinalityType
<1>2. \A R : IsFiniteSet(R) /\ T \subseteq R =>
         Cardinality(R) \in Nat /\ Cardinality(T) \in Nat /\ Cardinality(T) <= Cardinality(R)
  BY FS_Subset, FS_CardinalityType
<1>3. \A R, y : IsFiniteSet(R) => IsFiniteSet(R \cup {y}) /\ Cardinality(R \cup {y}) <= Cardinality(R) + 1
  <2>1. SUFFICES ASSUME NEW R, NEW y, IsFiniteSet(R)
                 PROVE  IsFiniteSet(R \cup {y}) /\ Cardinality(R \cup {y}) <= Cardinality(R) + 1
    OBVIOUS
  <2>2. IsFiniteSet(R \cup {y}) /\ (Cardinality(R \cup {y}) = Cardinality(R) \/ Cardinality(R \cup {y}) = Cardinality(R) + 1)
    BY <2>1, FS_AddElement
  <2>3. Cardinality(R) \in Nat
    BY <2>1, FS_CardinalityType
  <2>. QED
    BY <2>2, <2>3
<1>4. \A x \in S : IsFiniteSet(S \ {x}) /\ Cardinality(S \ {x}) = Cardinality(S) - 1
  BY FS_RemoveElement
<1>5. ASSUME NEW y, T \subseteq S \cup {y}
      PROVE  Cardinality(T) \in Nat /\ Cardinality(T) <= Cardinality(S) + 1
  <2>1. IsFiniteSet(S \cup {y}) /\ Cardinality(S \cup {y}) <= Cardinality(S) + 1
    BY <1>3
  <2>2. Cardinality(S \cup {y}) \in Nat /\ Cardinality(T) \in Nat /\ Cardinality(T) <= Cardinality(S \cup {y})
    BY <2>1, <1>2, <1>5
  <2>. QED
    BY <2>1, <2>2, <1>1
<1>6. ASSUME NEW x \in S, T \subseteq S \ {x}
      PROVE  Cardinality(T) \in Nat /\ Cardinality(T) <= Cardinality(S) - 1
  BY <1>6, <1>4, <1>2
<1>7. ASSUME NEW x \in S, NEW y, T \subseteq (S \ {x}) \cup {y}
      PROVE  Cardinality(T) \in Nat /\ Cardinality(T) <= Cardinality(S)
  <2>1. IsFiniteSet(S \ {x}) /\ Cardinality(S \ {x}) = Cardinality(S) - 1
    BY <1>4
  <2>2. /\ IsFiniteSet((S \ {x}) \cup {y})
        /\ Cardinality((S \ {x}) \cup {y}) <= Cardinality(S \ {x}) + 1
    BY <2>1, <1>3
  <2>3. /\ Cardinality((S \ {x}) \cup {y}) \in Nat /\ Cardinality(T) \in Nat
        /\ Cardinality(T) <= Cardinality((S \ {x}) \cup {y})
    BY <2>2, <1>2, <1>7
  <2>. QED
    BY <2>1, <2>2, <2>3, <1>1
<1>8. T \subseteq S => Cardinality(T) \in Nat /\ Cardinality(T) <= Cardinality(S)
  BY <1>2
<1>. QED
  BY <1>1, <1>8, <1>5, <1>6, <1>7

(* The steps that keep a budget: nothing is added; one element with one     *)
(* more allowed; one element for another; one element for the counter.      *)
Fits(A, B, n, d, A1, B1, n1, d1) ==
  \/ A1 \subseteq A /\ B1 \subseteq B /\ n1 = n /\ d1 = d
  \/ \E y : A1 \subseteq A \cup {y} /\ B1 \subseteq B /\ n1 = n /\ d1 = d + 1
  \/ \E y : A1 \subseteq A /\ B1 \subseteq B \cup {y} /\ n1 = n /\ d1 = d + 1
  \/ \E x \in A : \E y : A1 \subseteq (A \ {x}) \cup {y} /\ B1 \subseteq B /\ n1 = n /\ d1 = d
  \/ \E x \in B : \E y : A1 \subseteq A \cup {y} /\ B1 \subseteq B \ {x} /\ n1 = n /\ d1 = d
  \/ \E x \in A : A1 \subseteq A \ {x} /\ B1 \subseteq B /\ n1 = n + 1 /\ d1 = d
  \/ \E x \in B : A1 \subseteq A /\ B1 \subseteq B \ {x} /\ n1 = n + 1 /\ d1 = d
  \/ A1 \subseteq A /\ B1 \subseteq B /\ n1 = n + 1 /\ d1 = d + 1

(* Such a step keeps it.                                                    *)
LEMMA BudgetKept ==
  ASSUME NEW A, NEW B, IsFiniteSet(A), IsFiniteSet(B), NEW A1, NEW B1,
         NEW n \in Nat, NEW n1 \in Nat, NEW d \in Nat, NEW d1 \in Nat,
         Cardinality(A) + Cardinality(B) + n <= d,
         Fits(A, B, n, d, A1, B1, n1, d1)
  PROVE  Cardinality(A1) + Cardinality(B1) + n1 <= d1
<1>. DEFINE a == Cardinality(A)
            b == Cardinality(B)
            a1 == Cardinality(A1)
            b1 == Cardinality(B1)
<1>0. a \in Nat /\ b \in Nat /\ a + b + n <= d
  BY CardFacts
<1>1. CASE A1 \subseteq A /\ B1 \subseteq B /\ n1 = n /\ d1 = d
  <2>1. a1 \in Nat /\ a1 <= a /\ b1 \in Nat /\ b1 <= b
    BY <1>1, CardFacts
  <2>. QED
    BY <1>0, <1>1, <2>1
<1>2. CASE \E y : A1 \subseteq A \cup {y} /\ B1 \subseteq B /\ n1 = n /\ d1 = d + 1
  <2>1. a1 \in Nat /\ a1 <= a + 1 /\ b1 \in Nat /\ b1 <= b
    BY <1>2, CardFacts
  <2>. QED
    BY <1>0, <1>2, <2>1
<1>3. CASE \E y : A1 \subseteq A /\ B1 \subseteq B \cup {y} /\ n1 = n /\ d1 = d + 1
  <2>1. a1 \in Nat /\ a1 <= a /\ b1 \in Nat /\ b1 <= b + 1
    BY <1>3, CardFacts
  <2>. QED
    BY <1>0, <1>3, <2>1
<1>4. CASE \E x \in A : \E y : A1 \subseteq (A \ {x}) \cup {y} /\ B1 \subseteq B /\ n1 = n /\ d1 = d
  <2>1. a1 \in Nat /\ a1 <= a /\ b1 \in Nat /\ b1 <= b
    BY <1>4, CardFacts
  <2>. QED
    BY <1>0, <1>4, <2>1
<1>5. CASE \E x \in B : \E y : A1 \subseteq A \cup {y} /\ B1 \subseteq B \ {x} /\ n1 = n /\ d1 = d
  <2>1. a1 \in Nat /\ a1 <= a + 1 /\ b1 \in Nat /\ b1 <= b - 1
    BY <1>5, CardFacts
  <2>. QED
    BY <1>0, <1>5, <2>1
<1>6. CASE \E x \in A : A1 \subseteq A \ {x} /\ B1 \subseteq B /\ n1 = n + 1 /\ d1 = d
  <2>1. a1 \in Nat /\ a1 <= a - 1 /\ b1 \in Nat /\ b1 <= b
    BY <1>6, CardFacts
  <2>. QED
    BY <1>0, <1>6, <2>1
<1>7. CASE \E x \in B : A1 \subseteq A /\ B1 \subseteq B \ {x} /\ n1 = n + 1 /\ d1 = d
  <2>1. a1 \in Nat /\ a1 <= a /\ b1 \in Nat /\ b1 <= b - 1
    BY <1>7, CardFacts
  <2>. QED
    BY <1>0, <1>7, <2>1
<1>8. CASE A1 \subseteq A /\ B1 \subseteq B /\ n1 = n + 1 /\ d1 = d + 1
  <2>1. a1 \in Nat /\ a1 <= a /\ b1 \in Nat /\ b1 <= b
    BY <1>8, CardFacts
  <2>. QED
    BY <1>0, <1>8, <2>1
<1>. HIDE DEF a, b, a1, b1
<1>. QED
  BY <1>1, <1>2, <1>3, <1>4, <1>5, <1>6, <1>7, <1>8 DEF Fits

(* The finite sets and the counters of the budgets.                         *)
LEMMA CountFacts ==
  ASSUME TypeOK, NEW r \in Requests
  PROVE  /\ IsFiniteSet(Pending(r)) /\ IsFiniteSet(Unscanned(r))
         /\ \A k : IsFiniteSet(Above(r, k))
         /\ \A pcs : IsFiniteSet(Ghosts(r, pcs))
         /\ outcomes[r] \in Nat /\ scans[r] \in Nat /\ disturb[r] \in Nat /\ Due(r) \in Nat
         /\ \A k \in 0..ScanRetries : published[r][k] \in Nat
<1>1. Pending(r) \subseteq MsgIds /\ Unscanned(r) \subseteq MsgIds
  BY DEF Pending, Unscanned
<1>2. /\ \A k : Above(r, k) \subseteq MsgIds
      /\ \A pcs : Ghosts(r, pcs) \subseteq Runners
  BY DEF Pending, Above, Ghosts
<1>3. IsFiniteSet(MsgIds) /\ IsFiniteSet(Runners)
  BY ResolverAssumption
<1>4. \A S : S \subseteq MsgIds \/ S \subseteq Runners => IsFiniteSet(S)
  BY <1>3, FS_Subset
<1>5. /\ outcomes[r] \in Nat /\ scans[r] \in Nat /\ disturb[r] \in Nat
      /\ \A k \in 0..ScanRetries : published[r][k] \in Nat
  <2>1. /\ outcomes \in [Requests -> Nat] /\ scans \in [Requests -> Nat] /\ disturb \in [Requests -> Nat]
        /\ published \in [Requests -> [0..ScanRetries -> Nat]]
    BY DEF TypeOK
  <2>. QED
    BY <2>1
<1>6. Due(r) \in Nat
  BY DEF Due
<1>. QED
  BY <1>1, <1>2, <1>4, <1>5, <1>6

PendingFits(r) ==
  Fits(Pending(r), Ghosts(r, Active), outcomes[r], Due(r) + disturb[r],
       Pending(r)', Ghosts(r, Active)', outcomes'[r], Due(r)' + disturb'[r])
ScanFits(r) ==
  Fits(Unscanned(r), Ghosts(r, Early), scans[r], Due(r) + disturb[r],
       Unscanned(r)', Ghosts(r, Early)', scans'[r], Due(r)' + disturb'[r])
RetryFits(r, k) ==
  Fits(Above(r, k), {}, published[r][k], Due(r) + disturb[r],
       Above(r, k)', {}, published'[r][k], Due(r)' + disturb'[r])

(* The same of the next state.                                              *)
LEMMA CountNext ==
  ASSUME TypeOK', NEW r \in Requests
  PROVE  /\ outcomes'[r] \in Nat /\ scans'[r] \in Nat /\ disturb'[r] \in Nat /\ Due(r)' \in Nat
         /\ \A k \in 0..ScanRetries : published'[r][k] \in Nat
<1>1. /\ outcomes' \in [Requests -> Nat] /\ scans' \in [Requests -> Nat] /\ disturb' \in [Requests -> Nat]
      /\ published' \in [Requests -> [0..ScanRetries -> Nat]]
  BY DEF TypeOK
<1>2. Due(r)' \in Nat
  BY DEF Due
<1>. QED
  BY <1>1, <1>2

(* A step that every budget allows keeps them.                              *)
LEMMA Accounts ==
  ASSUME TypeOK, TypeOK', Budgets,
         \A r \in Requests : /\ PendingFits(r) /\ ScanFits(r)
                             /\ \A k \in 0..ScanRetries : RetryFits(r, k)
  PROVE  Budgets'
<1>1. SUFFICES ASSUME NEW r \in Requests
               PROVE  /\ PendingBudget(r)' /\ ScanBudget(r)'
                      /\ \A k \in 0..ScanRetries : RetryBudget(r, k)'
  BY DEF Budgets
<1>2. /\ Due(r) + disturb[r] \in Nat /\ Due(r)' + disturb'[r] \in Nat
      /\ outcomes'[r] \in Nat /\ scans'[r] \in Nat /\ outcomes[r] \in Nat /\ scans[r] \in Nat
      /\ \A k \in 0..ScanRetries : published[r][k] \in Nat /\ published'[r][k] \in Nat
  BY CountFacts, CountNext
<1>3. PendingBudget(r)'
  <2>1. /\ IsFiniteSet(Pending(r)) /\ IsFiniteSet(Ghosts(r, Active))
        /\ Cardinality(Pending(r)) + Cardinality(Ghosts(r, Active)) + outcomes[r] <= Due(r) + disturb[r]
    BY CountFacts DEF Budgets, PendingBudget
  <2>2. Cardinality(Pending(r)') + Cardinality(Ghosts(r, Active)') + outcomes'[r] <= Due(r)' + disturb'[r]
    BY <1>2, <2>1, BudgetKept DEF PendingFits
  <2>. QED
    BY <2>2 DEF PendingBudget
<1>4. ScanBudget(r)'
  <2>1. /\ IsFiniteSet(Unscanned(r)) /\ IsFiniteSet(Ghosts(r, Early))
        /\ Cardinality(Unscanned(r)) + Cardinality(Ghosts(r, Early)) + scans[r] <= Due(r) + disturb[r]
    BY CountFacts DEF Budgets, ScanBudget
  <2>2. Cardinality(Unscanned(r)') + Cardinality(Ghosts(r, Early)') + scans'[r] <= Due(r)' + disturb'[r]
    BY <1>2, <2>1, BudgetKept DEF ScanFits
  <2>. QED
    BY <2>2 DEF ScanBudget
<1>5. ASSUME NEW k \in 0..ScanRetries
      PROVE  RetryBudget(r, k)'
  <2>1. /\ IsFiniteSet(Above(r, k)) /\ IsFiniteSet({}) /\ Cardinality({}) = 0
        /\ Cardinality(Above(r, k)) + published[r][k] <= Due(r) + disturb[r]
    BY <1>5, CountFacts, FS_EmptySet DEF Budgets, RetryBudget
  <2>2. Cardinality(Above(r, k)) \in Nat
    BY <2>1, FS_CardinalityType
  <2>3. Cardinality(Above(r, k)) + Cardinality({}) + published[r][k] <= Due(r) + disturb[r]
    BY <1>2, <2>1, <2>2
  <2>4. Cardinality(Above(r, k)') + Cardinality({}) + published'[r][k] <= Due(r)' + disturb'[r]
    BY <1>2, <2>1, <2>3, BudgetKept DEF RetryFits
  <2>5. IsFiniteSet(Above(r, k)')
    <3>1. Above(r, k)' \subseteq MsgIds
      BY DEF Above, Pending
    <3>. QED
      BY <3>1, FS_Subset, ResolverAssumption
  <2>6. Cardinality(Above(r, k)') \in Nat
    BY <2>5, FS_CardinalityType
  <2>7. Cardinality(Above(r, k)') + published'[r][k] <= Due(r)' + disturb'[r]
    BY <1>2, <2>1, <2>4, <2>6
  <2>. QED
    BY <2>7 DEF RetryBudget
<1>. QED
  BY <1>3, <1>4, <1>5
-----------------------------------------------------------------------------
(***************************************************************************)
(* Steps that add nothing to what is counted, and steps that add one        *)
(* message or one ghost and are counted as a disturbance.                   *)
(***************************************************************************)
Quiet(j, r) ==
  /\ j \in Pending(r)' => j \in Pending(r)
  /\ j \in Unscanned(r)' => j \in Unscanned(r)
  /\ \A k \in 0..ScanRetries : j \in Above(r, k)' => j \in Above(r, k)

GhostQuiet(w, r) ==
  /\ w \in Ghosts(r, Active)' => w \in Ghosts(r, Active)
  /\ w \in Ghosts(r, Early)' => w \in Ghosts(r, Early)

(* A message of unchanged status is pending as before.                      *)
LEMMA SameIsQuiet ==
  ASSUME NEW j \in MsgIds, Same(j), NEW r \in Requests
  PROVE  /\ Quiet(j, r)
         /\ j \in Pending(r) => j \in Pending(r)'
<1>1. j \in Pending(r)' <=> j \in Pending(r)
  BY DEF Same, Pending
<1>2. j \in Unscanned(r)' <=> j \in Unscanned(r)
  BY <1>1 DEF Same, Unscanned
<1>3. \A k \in 0..ScanRetries : j \in Above(r, k)' <=> j \in Above(r, k)
  BY <1>1 DEF Same, Above
<1>. QED
  BY <1>1, <1>2, <1>3 DEF Quiet

(* A runner that does not move, or that is no ghost afterwards, adds none.  *)
LEMMA StillIsQuiet ==
  ASSUME NEW w \in Runners, NEW r \in Requests,
         runner'[w] = runner[w] \/ ~runner'[w].ghost \/ runner'[w].pc = "idle"
  PROVE  GhostQuiet(w, r)
BY DEF GhostQuiet, Ghosts, Active, Early, Late

(* What is counted lies in the messages and in the runners.                 *)
LEMMA CountedRange ==
  ASSUME NEW r
  PROVE  /\ Pending(r)' \subseteq MsgIds /\ Unscanned(r)' \subseteq MsgIds
         /\ \A k : Above(r, k)' \subseteq MsgIds
         /\ Ghosts(r, Active)' \subseteq Runners /\ Ghosts(r, Early)' \subseteq Runners
BY DEF Pending, Unscanned, Above, Ghosts

(* A request for which everything is quiet.                                 *)
LEMMA QuietRequest ==
  ASSUME NEW r \in Requests,
         \A j \in MsgIds : Quiet(j, r), \A w \in Runners : GhostQuiet(w, r)
  PROVE  /\ Pending(r)' \subseteq Pending(r) /\ Unscanned(r)' \subseteq Unscanned(r)
         /\ \A k \in 0..ScanRetries : Above(r, k)' \subseteq Above(r, k)
         /\ Ghosts(r, Active)' \subseteq Ghosts(r, Active) /\ Ghosts(r, Early)' \subseteq Ghosts(r, Early)
BY CountedRange DEF Quiet, GhostQuiet

(* Its budgets are kept if its counters are.                                *)
LEMMA QuietFits ==
  ASSUME NEW r \in Requests,
         \A j \in MsgIds : Quiet(j, r), \A w \in Runners : GhostQuiet(w, r),
         req'[r] = req[r], disturb'[r] = disturb[r]
  PROVE  /\ outcomes'[r] = outcomes[r] => PendingFits(r)
         /\ scans'[r] = scans[r] => ScanFits(r)
         /\ \A k \in 0..ScanRetries : published'[r][k] = published[r][k] => RetryFits(r, k)
<1>1. /\ Pending(r)' \subseteq Pending(r) /\ Unscanned(r)' \subseteq Unscanned(r)
      /\ \A k \in 0..ScanRetries : Above(r, k)' \subseteq Above(r, k)
      /\ Ghosts(r, Active)' \subseteq Ghosts(r, Active) /\ Ghosts(r, Early)' \subseteq Ghosts(r, Early)
  BY QuietRequest
<1>2. Due(r)' + disturb'[r] = Due(r) + disturb[r]
  BY DEF Due
<1>3. outcomes'[r] = outcomes[r] => PendingFits(r)
  BY <1>1, <1>2 DEF PendingFits, Fits
<1>4. scans'[r] = scans[r] => ScanFits(r)
  BY <1>1, <1>2 DEF ScanFits, Fits
<1>5. ASSUME NEW k \in 0..ScanRetries, published'[r][k] = published[r][k]
      PROVE  RetryFits(r, k)
  BY <1>1, <1>2, <1>5 DEF RetryFits, Fits
<1>. QED
  BY <1>3, <1>4, <1>5

(* A quiet step keeps the budgets.                                          *)
LEMMA QuietStep ==
  ASSUME TypeOK, TypeOK', Budgets,
         \A r \in Requests, j \in MsgIds : Quiet(j, r),
         \A r \in Requests, w \in Runners : GhostQuiet(w, r),
         UNCHANGED <<req, disturb, outcomes, scans, published>>
  PROVE  Budgets'
<1>1. ASSUME NEW r \in Requests
      PROVE  PendingFits(r) /\ ScanFits(r) /\ \A k \in 0..ScanRetries : RetryFits(r, k)
  BY QuietFits
<1>. QED
  BY <1>1, Accounts

(* A disturbance of the request r0 adds the message i or the ghost w.       *)
LEMMA DisturbStep ==
  ASSUME TypeOK, TypeOK', Budgets, NEW r0 \in Requests, NEW i, NEW w,
         \A r \in Requests, j \in MsgIds : (j # i \/ r # r0) => Quiet(j, r),
         \A r \in Requests, u \in Runners : (u # w \/ r # r0) => GhostQuiet(u, r),
         \/ i \in Pending(r0)' => i \in Pending(r0)
         \/ w \in Ghosts(r0, Active)' => w \in Ghosts(r0, Active),
         \/ i \in Unscanned(r0)' => i \in Unscanned(r0)
         \/ w \in Ghosts(r0, Early)' => w \in Ghosts(r0, Early),
         disturb'[r0] = disturb[r0] + 1, \A r \in Requests \ {r0} : disturb'[r] = disturb[r],
         UNCHANGED <<req, outcomes, scans, published>>
  PROVE  Budgets'
<1>1. ASSUME NEW r \in Requests, r # r0
      PROVE  PendingFits(r) /\ ScanFits(r) /\ \A k \in 0..ScanRetries : RetryFits(r, k)
  BY <1>1, QuietFits
<1>2. /\ Pending(r0)' \subseteq Pending(r0) \cup {i} /\ Unscanned(r0)' \subseteq Unscanned(r0) \cup {i}
      /\ \A k \in 0..ScanRetries : Above(r0, k)' \subseteq Above(r0, k) \cup {i}
      /\ Ghosts(r0, Active)' \subseteq Ghosts(r0, Active) \cup {w}
      /\ Ghosts(r0, Early)' \subseteq Ghosts(r0, Early) \cup {w}
  BY CountedRange DEF Quiet, GhostQuiet
<1>3. Due(r0)' + disturb'[r0] = Due(r0) + disturb[r0] + 1
  <2>1. Due(r0) \in Nat /\ disturb[r0] \in Nat
    BY CountFacts
  <2>2. Due(r0)' = Due(r0)
    BY DEF Due
  <2>. QED
    BY <2>1, <2>2
<1>4. PendingFits(r0)
  <2>1. \/ Pending(r0)' \subseteq Pending(r0)
        \/ Ghosts(r0, Active)' \subseteq Ghosts(r0, Active)
    BY <1>2
  <2>. QED
    BY <1>2, <1>3, <2>1 DEF PendingFits, Fits
<1>5. ScanFits(r0)
  <2>1. \/ Unscanned(r0)' \subseteq Unscanned(r0)
        \/ Ghosts(r0, Early)' \subseteq Ghosts(r0, Early)
    BY <1>2
  <2>. QED
    BY <1>2, <1>3, <2>1 DEF ScanFits, Fits
<1>6. \A k \in 0..ScanRetries : RetryFits(r0, k)
  BY <1>2, <1>3 DEF RetryFits, Fits
<1>. QED
  BY <1>1, <1>4, <1>5, <1>6, Accounts

(* A disturbance without a ghost adds the message i.                        *)
LEMMA DisturbMessage ==
  ASSUME TypeOK, TypeOK', Budgets, NEW r0 \in Requests, NEW i,
         \A r \in Requests, j \in MsgIds : (j # i \/ r # r0) => Quiet(j, r),
         \A r \in Requests, u \in Runners : GhostQuiet(u, r),
         disturb'[r0] = disturb[r0] + 1, \A r \in Requests \ {r0} : disturb'[r] = disturb[r],
         UNCHANGED <<req, outcomes, scans, published>>
  PROVE  Budgets'
<1>1. PICK w : w \notin Runners
  BY NoSetContainsEverything
<1>2. w \notin Ghosts(r0, Active)' /\ w \notin Ghosts(r0, Early)'
  BY <1>1, CountedRange
<1>. QED
  BY <1>2, DisturbStep

(* What a step must keep or leave for a request to survive it.              *)
LEMMA SurviveStep ==
  ASSUME DelegationSurvives,
         \A r \in Requests :
           \/ Pending(r)' # {} \/ outcomes'[r] # 0 \/ dropped'[r] # {}
           \/ /\ req'[r] = "delegated" => req[r] = "delegated"
              /\ outcomes'[r] = 0 => outcomes[r] = 0
              /\ dropped'[r] = {} => dropped[r] = {}
              /\ \A j \in Pending(r) : j \in Pending(r)'
  PROVE  DelegationSurvives'
BY DEF DelegationSurvives
-----------------------------------------------------------------------------
(***************************************************************************)
(* The steps of the runners.                                                *)
(***************************************************************************)

(* The types of the variables, one by one.                                  *)
LEMMA TypeParts ==
  TypeOK <=>
    /\ req \in [Requests -> {"none", "delegated", "local", "failed"}]
    /\ cxscan \in [Requests -> {"none", "executing", "ended"}]
    /\ msgs \in Pool
    /\ runner \in [Runners -> RunRec]
    /\ tmo \in [TimeoutHandlers -> HandlerRec]
    /\ res \in [ResultHandlers -> HandlerRec]
    /\ scans \in [Requests -> Nat]
    /\ published \in [Requests -> [0..ScanRetries -> Nat]]
    /\ outcomes \in [Requests -> Nat]
    /\ disturb \in [Requests -> Nat]
    /\ dropped \in [Requests -> SUBSET {"signature", "suppressed", "unpublished", "over", "dispatch"}]
BY DEF TypeOK, Pool, RunRec, HandlerRec

(* The same of the next state.                                              *)
LEMMA TypePartsNext ==
  (/\ req' \in [Requests -> {"none", "delegated", "local", "failed"}]
   /\ cxscan' \in [Requests -> {"none", "executing", "ended"}]
   /\ msgs' \in Pool
   /\ runner' \in [Runners -> RunRec]
   /\ tmo' \in [TimeoutHandlers -> HandlerRec]
   /\ res' \in [ResultHandlers -> HandlerRec]
   /\ scans' \in [Requests -> Nat]
   /\ published' \in [Requests -> [0..ScanRetries -> Nat]]
   /\ outcomes' \in [Requests -> Nat]
   /\ disturb' \in [Requests -> Nat]
   /\ dropped' \in [Requests -> SUBSET {"signature", "suppressed", "unpublished", "over", "dispatch"}])
  => TypeOK'
BY DEF TypeOK, Pool, RunRec, HandlerRec

(* A runner at work has a request.                                          *)
LEMMA RunnerWork ==
  ASSUME SInv, NEW w \in Runners, Busy(w)
  PROVE  runner[w].req \in Requests
BY DEF SInv, HandlersHold

(* A runner at work moves on with its message.                              *)
LEMMA RunnerGoesOn ==
  ASSUME SInv, TypeOK', NEW w \in Runners, Busy(w), NEW v \in RunRec,
         runner' = [runner EXCEPT ![w] = v], UNCHANGED <<msgs, tmo, res>>, v.pc # "idle",
         v.id = runner[w].id, v.req = runner[w].req, v.ghost = runner[w].ghost
  PROVE  /\ SInv'
         /\ \A r \in Requests, j \in MsgIds :
              (runner[w].pc \in {"ack", "nack"} => r # runner[w].req \/ j # runner[w].id)
              /\ (v.pc \in Early => runner[w].pc \in Early) => Quiet(j, r)
         /\ \A r \in Requests, u \in Runners :
              (v.pc \in Early => runner[w].pc \in Early)
              /\ (v.pc \in Active => u # w \/ r # runner[w].req \/ runner[w].pc \in Active) => GhostQuiet(u, r)
         /\ \A r \in Requests : \A j \in Pending(r) :
              j \in Pending(r)' \/ (r = runner[w].req /\ v.pc \in {"ack", "nack"})
<1>. DEFINE i == runner[w].id
<1>0. /\ runner'[w] = v
      /\ \A u \in Runners \ {w} : runner'[u] = runner[u]
  BY TypeParts DEF SInv
<1>1. runner[w].req \in Requests
  BY DEF SInv, HandlersHold
<1>2. Holds(w) => /\ i \in MsgIds
                  /\ msgs[i].queue = ReqQueue /\ msgs[i].held /\ msgs[i].scan = runner[w].req
  BY DEF SInv, HandlersHold
<1>3. v.pc # "idle" /\ ~v.ghost =>
        /\ Holds(w) /\ v.id = runner[w].id
        /\ msgs'[v.id].queue = ReqQueue /\ msgs'[v.id].held /\ msgs'[v.id].scan = v.req
  BY <1>2 DEF Holds
<1>4. /\ Structure'
      /\ \A j \in MsgIds : (Holds(w) => j # runner[w].id) => Same(j)
  <2>. DEFINE X == {}
  <2>1. /\ X \in SUBSET MsgIds /\ \A j \in MsgIds \ X : msgs'[j] = msgs[j]
        /\ \A j \in X : /\ ~msgs[j].held \/ (Holds(w) /\ j = runner[w].id)
                        /\ TextOK(msgs'[j])
    OBVIOUS
  <2>2. \A j \in MsgIds : j \in MsgIds \ X
    OBVIOUS
  <2>. HIDE DEF X
  <2>3. /\ Structure'
        /\ \A j \in MsgIds \ X : (Holds(w) => j # runner[w].id) => Same(j)
    BY <1>1, <1>3, <2>1, RunnerMoves
  <2>. QED
    BY <2>2, <2>3
<1>5. SInv'
  BY <1>4 DEF SInv, Structure
<1>6. TokensOK /\ TokensOK'
  BY <1>5, Tokens, TokensNext
<1>7. ASSUME Holds(w), NEW r \in Requests
      PROVE  /\ i \in Pending(r) <=> runner[w].req = r /\ runner[w].pc \notin {"ack", "nack"}
             /\ i \in Unscanned(r) <=> runner[w].req = r /\ runner[w].pc \in Early
             /\ \A k \in 0..ScanRetries :
                  i \in Above(r, k) <=>
                    runner[w].req = r /\ runner[w].pc \notin {"ack", "nack"} /\ msgs[i].ttl > k
             /\ i \in Pending(r)' <=> runner[w].req = r /\ v.pc \notin {"ack", "nack"}
             /\ i \in Unscanned(r)' <=> runner[w].req = r /\ v.pc \in Early
             /\ \A k \in 0..ScanRetries :
                  i \in Above(r, k)' <=>
                    runner[w].req = r /\ v.pc \notin {"ack", "nack"} /\ msgs[i].ttl > k
  <2>1. Holds(w)'
    BY <1>0, <1>7 DEF Holds, Busy
  <2>2. RunnerTokens(w, r) /\ RunnerTokens(w, r)'
    BY <1>6, <1>7, <2>1 DEF TokensOK
  <2>. QED
    BY <2>2, <1>0 DEF RunnerTokens
<1>. HIDE DEF i
<1>8. ASSUME NEW r \in Requests, NEW j \in MsgIds,
             runner[w].pc \in {"ack", "nack"} => r # runner[w].req \/ j # runner[w].id,
             v.pc \in Early => runner[w].pc \in Early
      PROVE  Quiet(j, r)
  <2>1. CASE Holds(w) => j # runner[w].id
    BY <2>1, <1>4, SameIsQuiet
  <2>2. CASE Holds(w) /\ j = i
    BY <2>2, <1>7, <1>8 DEF Quiet, i
  <2>. QED
    BY <2>1, <2>2 DEF i
<1>9. ASSUME NEW r \in Requests, NEW u \in Runners,
             v.pc \in Early => runner[w].pc \in Early,
             v.pc \in Active => u # w \/ r # runner[w].req \/ runner[w].pc \in Active
      PROVE  GhostQuiet(u, r)
  <2>1. CASE u # w
    BY <2>1, <1>0, StillIsQuiet
  <2>2. CASE u = w
    BY <2>2, <1>0, <1>9 DEF GhostQuiet, Ghosts
  <2>. QED
    BY <2>1, <2>2
<1>10. ASSUME NEW r \in Requests, NEW j \in Pending(r)
       PROVE  j \in Pending(r)' \/ (r = runner[w].req /\ v.pc \in {"ack", "nack"})
  <2>0. j \in MsgIds
    BY DEF Pending
  <2>1. CASE Holds(w) => j # runner[w].id
    BY <2>0, <2>1, <1>4, SameIsQuiet
  <2>2. CASE Holds(w) /\ j = i
    BY <2>2, <1>7
  <2>. QED
    BY <2>1, <2>2 DEF i
<1>. QED
  BY <1>5, <1>8, <1>9, <1>10

RunPCs == {"received", "entered", "scanned", "failing", "ack", "nack", "stalled"}

(* The state of a runner after its program counter is set.                  *)
LEMMA PcSet ==
  ASSUME TypeOK, NEW w \in Runners, NEW p \in RunPCs
  PROVE  LET v == [runner[w] EXCEPT !.pc = p]
         IN  /\ v \in RunRec /\ v.pc = p /\ v.pc # "idle"
             /\ v.id = runner[w].id /\ v.req = runner[w].req /\ v.ghost = runner[w].ghost
             /\ [runner EXCEPT ![w].pc = p] = [runner EXCEPT ![w] = v]
             /\ [runner EXCEPT ![w].pc = p] \in [Runners -> RunRec]
<1>1. runner \in [Runners -> RunRec] /\ runner[w] \in RunRec
  BY TypeParts
<1>. QED
  BY <1>1 DEF RunRec, RunPCs

(* A runner that has not answered goes on: to another of its steps, or to   *)
(* the end with the loss of the outcome recorded.                           *)
LEMMA RunnerInner ==
  ASSUME IInv, NEW w \in Runners, NEW p \in RunPCs, runner[w].pc \in Active,
         runner' = [runner EXCEPT ![w].pc = p],
         UNCHANGED <<req, cxscan, msgs, tmo, res, scans, published, outcomes, disturb>>,
         p \in Early => runner[w].pc \in Early,
         \/ dropped' = dropped /\ p \notin {"ack", "nack"}
         \/ \E x \in {"signature", "suppressed", "unpublished"} :
              dropped' = [dropped EXCEPT ![runner[w].req] = @ \cup {x}]
  PROVE  IInv'
<1>. DEFINE v == [runner[w] EXCEPT !.pc = p]
<1>0. SInv /\ TypeOK /\ Busy(w) /\ runner[w].pc \notin {"ack", "nack"}
  BY DEF IInv, SInv, Busy, Active, Early, Late
<1>1. /\ v \in RunRec /\ v.pc = p /\ v.pc # "idle"
      /\ v.id = runner[w].id /\ v.req = runner[w].req /\ v.ghost = runner[w].ghost
      /\ runner' = [runner EXCEPT ![w] = v]
      /\ runner' \in [Runners -> RunRec]
  BY <1>0, PcSet
<1>. HIDE DEF v
<1>2. runner[w].req \in Requests
  BY <1>0 DEF SInv, HandlersHold
<1>3. /\ dropped' \in [Requests -> SUBSET {"signature", "suppressed", "unpublished", "over", "dispatch"}]
      /\ \A r \in Requests : dropped'[r] = {} => dropped[r] = {}
      /\ p \in {"ack", "nack"} => dropped'[runner[w].req] # {}
  <2>1. dropped \in [Requests -> SUBSET {"signature", "suppressed", "unpublished", "over", "dispatch"}]
    BY <1>0, TypeParts
  <2>. QED
    BY <1>2, <2>1
<1>4. TypeOK'
  BY <1>0, <1>1, <1>3, TypeParts, TypePartsNext
<1>5. /\ SInv'
      /\ \A r \in Requests, j \in MsgIds : Quiet(j, r)
      /\ \A r \in Requests, u \in Runners : GhostQuiet(u, r)
      /\ \A r \in Requests : \A j \in Pending(r) :
           j \in Pending(r)' \/ (r = runner[w].req /\ v.pc \in {"ack", "nack"})
  BY <1>0, <1>1, <1>4, RunnerGoesOn
<1>6. Budgets'
  BY <1>0, <1>4, <1>5, QuietStep DEF IInv
<1>7. DelegationSurvives'
  BY <1>1, <1>3, <1>5, SurviveStep DEF IInv
<1>. QED
  BY <1>5, <1>6, <1>7 DEF IInv

(* Of the scan, one of those the request may have.                          *)
LEMMA RunScanStep ==
  ASSUME IInv, NEW w \in Runners, RunScan(w)
  PROVE  IInv'
<1>0. SInv /\ TypeOK /\ Busy(w) /\ runner[w].pc = "entered"
  BY DEF IInv, SInv, Busy, RunScan
<1>1. PICK rc \in ExitCodes : runner' = [runner EXCEPT ![w].pc = "scanned", ![w].rc = rc]
  BY DEF RunScan
<1>. DEFINE v == [runner[w] EXCEPT !.pc = "scanned", !.rc = rc]
<1>2. /\ v \in RunRec /\ v.pc = "scanned"
      /\ v.id = runner[w].id /\ v.req = runner[w].req /\ v.ghost = runner[w].ghost
      /\ runner' = [runner EXCEPT ![w] = v]
      /\ runner' \in [Runners -> RunRec]
      /\ runner'[w] = v
  <2>1. runner \in [Runners -> RunRec] /\ runner[w] \in RunRec
    BY <1>0, TypeParts
  <2>. QED
    BY <1>1, <2>1 DEF RunRec
<1>. HIDE DEF v
<1>3. PICK r0, i : r0 \in Requests /\ r0 = runner[w].req /\ i = runner[w].id
  BY <1>0, RunnerWork
<1>. r0 \in Requests
  BY <1>3
<1>4. /\ scans' \in [Requests -> Nat] /\ scans'[r0] = scans[r0] + 1
      /\ \A r \in Requests \ {r0} : scans'[r] = scans[r]
      /\ cxscan' \in [Requests -> {"none", "executing", "ended"}]
  <2>1. scans \in [Requests -> Nat] /\ cxscan \in [Requests -> {"none", "executing", "ended"}]
    BY <1>0, TypeParts
  <2>. QED
    BY <1>3, <2>1 DEF RunScan
<1>5. TypeOK'
  BY <1>0, <1>2, <1>4, TypeParts, TypePartsNext DEF RunScan
<1>6. /\ SInv'
      /\ \A r \in Requests, j \in MsgIds : Quiet(j, r)
      /\ \A r \in Requests, u \in Runners : GhostQuiet(u, r)
      /\ \A r \in Requests : \A j \in Pending(r) :
           j \in Pending(r)' \/ (r = runner[w].req /\ v.pc \in {"ack", "nack"})
  BY <1>0, <1>2, <1>5, RunnerGoesOn DEF RunScan, Active, Early, Late
<1>7. /\ Unscanned(r0)' \subseteq Unscanned(r0) /\ Ghosts(r0, Early)' \subseteq Ghosts(r0, Early)
      /\ \/ i \in Unscanned(r0) /\ i \notin Unscanned(r0)'
         \/ w \in Ghosts(r0, Early) /\ w \notin Ghosts(r0, Early)'
  <2>1. Unscanned(r0)' \subseteq Unscanned(r0) /\ Ghosts(r0, Early)' \subseteq Ghosts(r0, Early)
    BY <1>3, <1>6, QuietRequest
  <2>2. CASE runner[w].ghost
    BY <2>1, <2>2, <1>0, <1>2, <1>3 DEF Ghosts, Early
  <2>3. CASE ~runner[w].ghost
    <3>1. Holds(w) /\ Holds(w)'
      BY <2>3, <1>0, <1>2 DEF Holds, Busy
    <3>2. RunnerTokens(w, r0) /\ RunnerTokens(w, r0)'
      BY <1>0, <1>3, <1>6, <3>1, Tokens, TokensNext DEF TokensOK
    <3>. QED
      BY <2>1, <3>2, <1>0, <1>2, <1>3 DEF RunnerTokens, Early
  <2>. QED
    BY <2>1, <2>2, <2>3
<1>8. Budgets'
  <2>1. UNCHANGED <<req, disturb, outcomes, published>>
    BY DEF RunScan
  <2>2. ASSUME NEW r \in Requests
        PROVE  /\ PendingFits(r) /\ \A k \in 0..ScanRetries : RetryFits(r, k)
               /\ r # r0 => ScanFits(r)
    BY <1>4, <1>6, <2>1, QuietFits
  <2>3. Due(r0)' + disturb'[r0] = Due(r0) + disturb[r0]
    BY <2>1 DEF Due
  <2>4. ScanFits(r0)
    <3>1. CASE i \in Unscanned(r0) /\ i \notin Unscanned(r0)'
      <4>1. Unscanned(r0)' \subseteq Unscanned(r0) \ {i}
        BY <1>7, <3>1
      <4>. QED
        BY <1>4, <1>7, <2>3, <3>1, <4>1 DEF ScanFits, Fits
    <3>2. CASE w \in Ghosts(r0, Early) /\ w \notin Ghosts(r0, Early)'
      <4>1. Ghosts(r0, Early)' \subseteq Ghosts(r0, Early) \ {w}
        BY <1>7, <3>2
      <4>. QED
        BY <1>4, <1>7, <2>3, <3>2, <4>1 DEF ScanFits, Fits
    <3>. QED
      BY <1>7, <3>1, <3>2
  <2>. QED
    BY <1>0, <1>5, <2>2, <2>4, Accounts DEF IInv
<1>9. DelegationSurvives'
  <2>1. UNCHANGED <<req, outcomes, dropped>>
    BY DEF RunScan
  <2>. QED
    BY <1>2, <1>6, <2>1, SurviveStep DEF IInv
<1>. QED
  BY <1>6, <1>8, <1>9 DEF IInv

(* A failed clean-up makes what was answered pending again.                 *)
LEMMA RunCleanupStep ==
  ASSUME IInv, NEW w \in Runners, RunCleanupFails(w)
  PROVE  IInv'
<1>. DEFINE v == [runner[w] EXCEPT !.pc = "failing"]
<1>0. SInv /\ TypeOK /\ Busy(w) /\ runner[w].pc = "ack"
  BY DEF IInv, SInv, Busy, RunCleanupFails
<1>1. /\ v \in RunRec /\ v.pc = "failing"
      /\ v.id = runner[w].id /\ v.req = runner[w].req /\ v.ghost = runner[w].ghost
      /\ runner' = [runner EXCEPT ![w] = v]
      /\ runner' \in [Runners -> RunRec] /\ runner'[w] = v
  BY <1>0, PcSet, TypeParts DEF RunPCs, RunCleanupFails
<1>. HIDE DEF v
<1>2. PICK r0, i : r0 \in Requests /\ r0 = runner[w].req /\ i = runner[w].id
  BY <1>0, RunnerWork
<1>. r0 \in Requests
  BY <1>2
<1>3. disturb' \in [Requests -> Nat]
  BY <1>0, <1>2, TypeParts DEF RunCleanupFails
<1>4. TypeOK'
  BY <1>0, <1>1, <1>3, TypeParts, TypePartsNext DEF RunCleanupFails
<1>5. /\ SInv'
      /\ \A r \in Requests, j \in MsgIds : (j # i \/ r # r0) => Quiet(j, r)
      /\ \A r \in Requests, u \in Runners : (u # w \/ r # r0) => GhostQuiet(u, r)
      /\ \A r \in Requests : \A j \in Pending(r) : j \in Pending(r)'
  <2>1. UNCHANGED <<msgs, tmo, res>> /\ v.pc \notin Early /\ v.pc # "idle" /\ v.pc \notin {"ack", "nack"}
    BY <1>1 DEF RunCleanupFails, Early
  <2>2. /\ SInv'
        /\ \A r \in Requests, j \in MsgIds :
             (runner[w].pc \in {"ack", "nack"} => r # runner[w].req \/ j # runner[w].id)
             /\ (v.pc \in Early => runner[w].pc \in Early) => Quiet(j, r)
        /\ \A r \in Requests, u \in Runners :
             (v.pc \in Early => runner[w].pc \in Early)
             /\ (v.pc \in Active => u # w \/ r # runner[w].req \/ runner[w].pc \in Active) => GhostQuiet(u, r)
        /\ \A r \in Requests : \A j \in Pending(r) :
             j \in Pending(r)' \/ (r = runner[w].req /\ v.pc \in {"ack", "nack"})
    BY <1>0, <1>1, <1>4, <2>1, RunnerGoesOn
  <2>. QED
    BY <1>2, <2>1, <2>2
<1>6. /\ \/ i \in Pending(r0)' => i \in Pending(r0)
         \/ w \in Ghosts(r0, Active)' => w \in Ghosts(r0, Active)
      /\ w \in Ghosts(r0, Early)' => w \in Ghosts(r0, Early)
  <2>1. CASE runner[w].ghost
    <3>1. \A j \in MsgIds : Answered(j)' <=> Answered(j)
      <4>1. \A u \in Runners : ~runner[u].ghost => runner'[u] = runner[u]
        BY <2>1, <1>0, <1>1, TypeParts
      <4>2. \A u \in Runners : runner'[u].ghost <=> runner[u].ghost
        BY <1>0, <1>1, TypeParts
      <4>. QED
        BY <4>1, <4>2 DEF RunCleanupFails, Answered
    <3>2. i \in Pending(r0)' => i \in Pending(r0)
      BY <3>1 DEF Pending, RunCleanupFails
    <3>. QED
      BY <3>2, <1>1 DEF Ghosts, Early
  <2>2. CASE ~runner[w].ghost
    BY <2>2, <1>1 DEF Ghosts
  <2>. QED
    BY <2>1, <2>2
<1>7. /\ disturb'[r0] = disturb[r0] + 1 /\ \A r \in Requests \ {r0} : disturb'[r] = disturb[r]
      /\ UNCHANGED <<req, outcomes, scans, published, dropped>>
  BY <1>0, <1>2, TypeParts DEF RunCleanupFails
<1>8. Budgets'
  BY <1>0, <1>4, <1>5, <1>6, <1>7, DisturbStep DEF IInv
<1>9. DelegationSurvives'
  BY <1>5, <1>7, SurviveStep DEF IInv
<1>. QED
  BY <1>5, <1>8, <1>9 DEF IInv

(* One pending thing becomes another: the message n replaces the message or *)
(* the ghost x of the request r0.                                           *)
LEMMA SwapStep ==
  ASSUME TypeOK, TypeOK', Budgets, NEW r0 \in Requests, NEW n, NEW x,
         \A r \in Requests, j \in MsgIds : (j # n \/ r # r0) => Quiet(j, r),
         \A r \in Requests, u \in Runners : GhostQuiet(u, r),
         n \notin Unscanned(r0)', \A k \in 0..ScanRetries : n \notin Above(r0, k)',
         \/ x # n /\ x \in Pending(r0) /\ x \notin Pending(r0)'
         \/ x \in Ghosts(r0, Active) /\ x \notin Ghosts(r0, Active)',
         UNCHANGED <<req, disturb, outcomes, scans, published>>
  PROVE  Budgets'
<1>1. ASSUME NEW r \in Requests, r # r0
      PROVE  PendingFits(r) /\ ScanFits(r) /\ \A k \in 0..ScanRetries : RetryFits(r, k)
  BY <1>1, QuietFits
<1>2. /\ Pending(r0)' \subseteq Pending(r0) \cup {n} /\ Unscanned(r0)' \subseteq Unscanned(r0)
      /\ \A k \in 0..ScanRetries : Above(r0, k)' \subseteq Above(r0, k)
      /\ Ghosts(r0, Active)' \subseteq Ghosts(r0, Active)
      /\ Ghosts(r0, Early)' \subseteq Ghosts(r0, Early)
  BY CountedRange DEF Quiet, GhostQuiet
<1>3. Due(r0)' + disturb'[r0] = Due(r0) + disturb[r0]
  BY DEF Due
<1>4. PendingFits(r0)
  <2>1. CASE x # n /\ x \in Pending(r0) /\ x \notin Pending(r0)'
    <3>1. Pending(r0)' \subseteq (Pending(r0) \ {x}) \cup {n}
      BY <1>2, <2>1
    <3>. QED
      BY <1>2, <1>3, <2>1, <3>1 DEF PendingFits, Fits
  <2>2. CASE x \in Ghosts(r0, Active) /\ x \notin Ghosts(r0, Active)'
    <3>1. Ghosts(r0, Active)' \subseteq Ghosts(r0, Active) \ {x}
      BY <1>2, <2>2
    <3>. QED
      BY <1>2, <1>3, <2>2, <3>1 DEF PendingFits, Fits
  <2>. QED
    BY <2>1, <2>2
<1>5. ScanFits(r0)
  BY <1>2, <1>3 DEF ScanFits, Fits
<1>6. \A k \in 0..ScanRetries : RetryFits(r0, k)
  BY <1>2, <1>3 DEF RetryFits, Fits
<1>. QED
  BY <1>1, <1>4, <1>5, <1>6, Accounts

(* A request is delivered to a runner.                                      *)
LEMMA RunReceiveStep ==
  ASSUME IInv, NEW w \in Runners, NEW i \in MsgIds, RunReceive(w, i)
  PROVE  IInv'
<1>. DEFINE v == [RunIdle EXCEPT !.pc = "received", !.id = i, !.req = msgs[i].scan]
<1>0. /\ SInv /\ TypeOK /\ runner[w].pc = "idle" /\ msgs[i].queue = ReqQueue /\ ~msgs[i].held
      /\ msgs' = Deliver(msgs, i) /\ runner' = [runner EXCEPT ![w] = v]
      /\ UNCHANGED <<req, cxscan, tmo, res, scans, published, outcomes, disturb, dropped>>
  BY DEF IInv, SInv, RunReceive, RunnerOnly, Ready
<1>1. msgs \in Pool /\ runner \in [Runners -> RunRec]
  BY <1>0, TypeParts
<1>2. msgs[i] \in Message /\ msgs[i].scan \in Requests
  BY <1>0, <1>1, UsedIsMessage, QueueFacts DEF Message
<1>3. /\ msgs' \in Pool /\ msgs'[i].held /\ msgs'[i].queue = ReqQueue
      /\ msgs'[i].scan = msgs[i].scan /\ msgs'[i].text = msgs[i].text /\ msgs'[i].ttl = msgs[i].ttl
      /\ \A j \in MsgIds \ {i} : msgs'[j] = msgs[j]
  BY <1>0, <1>1, <1>2, DeliverFacts
<1>4. msgs[i].text = "request" /\ TextOK(msgs'[i])
  BY <1>0, <1>3 DEF SInv, TextsOK, TextOK
<1>5. /\ v \in RunRec /\ v.pc = "received" /\ v.id = i /\ v.req = msgs[i].scan /\ ~v.ghost
      /\ runner' \in [Runners -> RunRec] /\ runner'[w] = v
      /\ \A u \in Runners \ {w} : runner'[u] = runner[u]
  BY <1>0, <1>1, <1>2, ResolverAssumption DEF RunRec, RunIdle, ExitCodes
<1>. HIDE DEF v
<1>6. TypeOK'
  BY <1>0, <1>3, <1>5, TypeParts, TypePartsNext
<1>7. /\ Structure'
      /\ \A j \in MsgIds \ {i} : Same(j)
  <2>. DEFINE X == {i}
  <2>1. /\ X \in SUBSET MsgIds /\ \A j \in MsgIds \ X : msgs'[j] = msgs[j]
        /\ \A j \in X : /\ ~msgs[j].held \/ (Holds(w) /\ j = runner[w].id)
                        /\ TextOK(msgs'[j])
        /\ v.id \in X
    BY <1>0, <1>3, <1>4, <1>5
  <2>2. \A j \in MsgIds \ {i} : j \in MsgIds \ X
    OBVIOUS
  <2>. HIDE DEF X
  <2>9. /\ v.pc # "idle" => v.req \in Requests
        /\ v.pc # "idle" /\ ~v.ghost =>
              /\ v.id \in X \/ (Holds(w) /\ v.id = runner[w].id)
              /\ msgs'[v.id].queue = ReqQueue /\ msgs'[v.id].held /\ msgs'[v.id].scan = v.req
        /\ tmo' = tmo /\ res' = res
    BY <1>0, <1>2, <1>3, <1>5, <2>1
  <2>3. /\ Structure'
        /\ \A j \in MsgIds \ X : (Holds(w) => j # runner[w].id) => Same(j)
    BY <1>0, <1>5, <2>1, <2>9, RunnerMoves
  <2>. QED
    BY <1>0, <2>2, <2>3 DEF Holds, Busy
<1>8. SInv' /\ TokensOK /\ TokensOK'
  BY <1>0, <1>6, <1>7, Tokens, TokensNext DEF SInv, Structure
<1>9. ASSUME NEW r \in Requests
      PROVE  Quiet(i, r) /\ (i \in Pending(r) => i \in Pending(r)')
  <2>1. Holds(w)'
    BY <1>5 DEF Holds, Busy
  <2>2. ReadyTokens(i, r) /\ RunnerTokens(w, r)'
    BY <1>0, <1>8, <2>1 DEF TokensOK
  <2>. QED
    BY <2>2, <1>3, <1>4, <1>5 DEF ReadyTokens, RunnerTokens, Quiet, Early, Asks
<1>10. /\ \A r \in Requests, j \in MsgIds : Quiet(j, r)
       /\ \A r \in Requests : \A j \in Pending(r) : j \in Pending(r)'
  <2>1. \A r \in Requests : Pending(r) \subseteq MsgIds
    BY DEF Pending
  <2>. QED
    BY <1>7, <1>9, <2>1, SameIsQuiet
<1>11. \A r \in Requests, u \in Runners : GhostQuiet(u, r)
  BY <1>5, StillIsQuiet
<1>12. Budgets'
  BY <1>0, <1>6, <1>10, <1>11, QuietStep DEF IInv
<1>13. DelegationSurvives'
  BY <1>0, <1>10, SurviveStep DEF IInv
<1>. QED
  BY <1>8, <1>12, <1>13 DEF IInv

(* A runner publishes a result in place of its request.                     *)
LEMMA RunnerAnswers ==
  ASSUME IInv, NEW w \in Runners, runner[w].pc \in Late, NEW p \in {"ack", "nack"},
         NEW m \in Message, m.queue = ResolverComplete, m.scan = runner[w].req, m.text \in Results,
         ~m.held, Free(msgs) # {}, msgs' = Publish(msgs, m),
         runner' = [runner EXCEPT ![w].pc = p],
         UNCHANGED <<req, cxscan, tmo, res, scans, published, outcomes, disturb, dropped>>
  PROVE  IInv'
<1>. DEFINE v == [runner[w] EXCEPT !.pc = p]
<1>0. /\ SInv /\ TypeOK /\ Busy(w) /\ runner[w].pc \notin {"ack", "nack"}
      /\ runner[w].pc \in Active /\ p \notin Active /\ p \notin Early
  BY DEF IInv, SInv, Busy, Active, Early, Late
<1>1. msgs \in Pool /\ runner \in [Runners -> RunRec]
  BY <1>0, TypeParts
<1>2. /\ v \in RunRec /\ v.pc = p /\ v.pc # "idle"
      /\ v.id = runner[w].id /\ v.req = runner[w].req /\ v.ghost = runner[w].ghost
      /\ runner' = [runner EXCEPT ![w] = v]
      /\ runner' \in [Runners -> RunRec] /\ runner'[w] = v
      /\ \A u \in Runners \ {w} : runner'[u] = runner[u]
  <2>1. p \in RunPCs
    BY DEF RunPCs
  <2>2. /\ v \in RunRec /\ v.pc = p /\ v.pc # "idle"
        /\ v.id = runner[w].id /\ v.req = runner[w].req /\ v.ghost = runner[w].ghost
        /\ runner' = [runner EXCEPT ![w] = v]
        /\ runner' \in [Runners -> RunRec]
    BY <1>0, <2>1, PcSet
  <2>. HIDE DEF v
  <2>. QED
    BY <1>1, <2>2
<1>. HIDE DEF v
<1>3. PICK r0, i : r0 \in Requests /\ r0 = runner[w].req /\ i = runner[w].id
  BY <1>0, RunnerWork
<1>. r0 \in Requests
  BY <1>3
<1>4. PICK n \in MsgIds : /\ msgs[n] = NoMsg /\ msgs' \in Pool /\ msgs'[n] = m
                          /\ \A j \in MsgIds \ {n} : msgs'[j] = msgs[j]
  BY <1>1, PublishFacts
<1>5. TypeOK'
  BY <1>0, <1>2, <1>4, TypeParts, TypePartsNext
<1>6. Holds(w) => /\ i \in MsgIds /\ i # n /\ msgs[i].held
                  /\ msgs[i].queue = ReqQueue /\ msgs[i].scan = r0
  BY <1>0, <1>3, <1>4, NoMsgFacts DEF SInv, HandlersHold
<1>7. /\ Structure'
      /\ \A j \in MsgIds \ {n} : (Holds(w) => j # i) => Same(j)
  <2>. DEFINE X == {n}
  <2>1. TextOK(m)
    BY QueueFacts DEF TextOK
  <2>2. /\ X \in SUBSET MsgIds /\ \A j \in MsgIds \ X : msgs'[j] = msgs[j]
        /\ \A j \in X : /\ ~msgs[j].held \/ (Holds(w) /\ j = runner[w].id)
                        /\ TextOK(msgs'[j])
    BY <1>4, <2>1, NoMsgFacts
  <2>3. v.pc # "idle" /\ ~v.ghost =>
          /\ v.id \in X \/ (Holds(w) /\ v.id = runner[w].id)
          /\ msgs'[v.id].queue = ReqQueue /\ msgs'[v.id].held /\ msgs'[v.id].scan = v.req
    BY <1>0, <1>2, <1>3, <1>4, <1>6 DEF Holds
  <2>4. \A j \in MsgIds \ {n} : j \in MsgIds \ X
    OBVIOUS
  <2>. HIDE DEF X
  <2>9. (v.pc # "idle" => v.req \in Requests) /\ tmo' = tmo /\ res' = res
    BY <1>2, <1>3
  <2>5. /\ Structure'
        /\ \A j \in MsgIds \ X : (Holds(w) => j # runner[w].id) => Same(j)
    BY <1>0, <1>2, <2>9, <2>2, <2>3, RunnerMoves
  <2>. QED
    BY <1>3, <2>4, <2>5
<1>8. SInv' /\ TokensOK /\ TokensOK'
  BY <1>0, <1>5, <1>7, Tokens, TokensNext DEF SInv, Structure
<1>9. ASSUME NEW r \in Requests
      PROVE  /\ n \notin Pending(r) /\ (n \in Pending(r)' <=> r = r0)
             /\ n \notin Unscanned(r)'
             /\ \A k \in 0..ScanRetries : n \notin Above(r, k)'
  <2>1. ReadyTokens(n, r) /\ ReadyTokens(n, r)'
    BY <1>4, <1>8, NoMsgFacts DEF TokensOK
  <2>. QED
    BY <2>1, <1>3, <1>4, NoMsgFacts DEF ReadyTokens, Results, Asks
<1>10. ASSUME NEW r \in Requests, Holds(w)
       PROVE  Quiet(i, r) /\ (i \in Pending(r) <=> r = r0) /\ i \notin Pending(r)'
  <2>1. Holds(w)'
    BY <1>2, <1>10 DEF Holds, Busy
  <2>2. RunnerTokens(w, r) /\ RunnerTokens(w, r)'
    BY <1>8, <1>10, <2>1 DEF TokensOK
  <2>. QED
    BY <2>2, <1>0, <1>2, <1>3 DEF RunnerTokens, Quiet
<1>11. \A r \in Requests, j \in MsgIds : (j # n \/ r # r0) => Quiet(j, r)
  <2>1. \A r \in Requests : r # r0 => Quiet(n, r)
    BY <1>9 DEF Quiet
  <2>. QED
    BY <2>1, <1>7, <1>10, SameIsQuiet
<1>12. \A r \in Requests, u \in Runners : GhostQuiet(u, r)
  <2>1. \A r \in Requests : GhostQuiet(w, r)
    BY <1>0, <1>2 DEF GhostQuiet, Ghosts
  <2>. QED
    BY <2>1, <1>2, StillIsQuiet
<1>13. \E x : \/ x # n /\ x \in Pending(r0) /\ x \notin Pending(r0)'
              \/ x \in Ghosts(r0, Active) /\ x \notin Ghosts(r0, Active)'
  <2>1. CASE Holds(w)
    BY <2>1, <1>6, <1>10
  <2>2. CASE ~Holds(w)
    <3>1. w \in Ghosts(r0, Active) /\ w \notin Ghosts(r0, Active)'
      BY <2>2, <1>0, <1>1, <1>2, <1>3 DEF Holds, Ghosts, RunRec
    <3>. QED
      BY <3>1
  <2>. QED
    BY <2>1, <2>2
<1>14. Budgets'
  BY <1>0, <1>5, <1>9, <1>11, <1>12, <1>13, SwapStep DEF IInv
<1>15. DelegationSurvives'
  <2>1. Pending(r0)' # {}
    BY <1>9
  <2>2. ASSUME NEW r \in Requests, r # r0, NEW j \in Pending(r)
        PROVE  j \in Pending(r)'
    BY <2>2, <1>7, <1>9, <1>10, SameIsQuiet DEF Pending
  <2>. QED
    BY <2>1, <2>2, SurviveStep DEF IInv
<1>. QED
  BY <1>8, <1>14, <1>15 DEF IInv

(* What is left when runner w takes state v and lets go of message i.       *)
Released(w, v, i) ==
  /\ SInv'
  /\ runner'[w] = v /\ \A u \in Runners \ {w} : runner'[u] = runner[u]
  /\ \A j \in MsgIds : (Holds(w) => j # i) => Same(j)
  /\ Holds(w) => i \in MsgIds /\ \A r \in Requests : RunnerTokens(w, r) /\ ReadyTokens(i, r)'

(* A runner at work lets go of its message, which is ready or gone          *)
(* afterwards; a ghost has none to let go of.                               *)
LEMMA RunnerReleases ==
  ASSUME SInv, TypeOK', NEW w \in Runners, Busy(w), NEW v \in RunRec,
         runner' = [runner EXCEPT ![w] = v], tmo' = tmo, res' = res,
         v.pc = "idle" \/ (v.ghost /\ v.req = runner[w].req),
         NEW i, i = runner[w].id,
         runner[w].ghost => msgs' = msgs,
         ~runner[w].ghost => /\ \A j \in MsgIds \ {i} : msgs'[j] = msgs[j]
                             /\ ~msgs'[i].held /\ TextOK(msgs'[i])
  PROVE  Released(w, v, i)
<1>1. /\ runner'[w] = v
      /\ \A u \in Runners \ {w} : runner'[u] = runner[u]
  BY TypeParts DEF SInv
<1>2. runner[w].req \in Requests /\ (Holds(w) => i \in MsgIds)
  BY DEF SInv, HandlersHold
<1>3. Holds(w) <=> ~runner[w].ghost
  BY DEF Holds
<1>4. /\ Structure'
      /\ \A j \in MsgIds : (Holds(w) => j # i) => Same(j)
  <2>. DEFINE X == IF runner[w].ghost THEN {} ELSE {i}
  <2>1. /\ X \in SUBSET MsgIds /\ \A j \in MsgIds \ X : msgs'[j] = msgs[j]
        /\ \A j \in X : /\ ~msgs[j].held \/ (Holds(w) /\ j = runner[w].id)
                        /\ TextOK(msgs'[j])
        /\ \A j \in MsgIds : (Holds(w) => j # i) => j \in MsgIds \ X
    BY <1>2, <1>3
  <2>. HIDE DEF X
  <2>2. /\ v.pc # "idle" => v.req \in Requests
        /\ v.pc # "idle" /\ ~v.ghost =>
              /\ v.id \in X \/ (Holds(w) /\ v.id = runner[w].id)
              /\ msgs'[v.id].queue = ReqQueue /\ msgs'[v.id].held /\ msgs'[v.id].scan = v.req
    BY <1>2
  <2>3. /\ Structure'
        /\ \A j \in MsgIds \ X : (Holds(w) => j # runner[w].id) => Same(j)
    BY <2>1, <2>2, RunnerMoves
  <2>. QED
    BY <2>1, <2>3
<1>5. SInv'
  BY <1>4 DEF SInv, Structure
<1>6. TokensOK /\ TokensOK'
  BY <1>5, Tokens, TokensNext
<1>7. ASSUME Holds(w), NEW r \in Requests
      PROVE  RunnerTokens(w, r) /\ ReadyTokens(i, r)'
  BY <1>2, <1>3, <1>6, <1>7 DEF TokensOK
<1>. QED
  BY <1>1, <1>2, <1>4, <1>5, <1>7 DEF Released

(* RunIdle is a state of a runner.                                          *)
LEMMA IdleFacts ==
  /\ RunIdle \in RunRec /\ RunIdle.pc = "idle"
  /\ HIdle \in HandlerRec /\ HIdle.pc = "idle"
BY DEF RunIdle, RunRec, HIdle, HandlerRec, ExitCodes

(* The message of a runner that holds one.                                  *)
LEMMA HeldFacts ==
  ASSUME SInv, NEW w \in Runners, Holds(w)
  PROVE  /\ runner[w].id \in MsgIds /\ msgs[runner[w].id] \in Message
         /\ msgs[runner[w].id].queue = ReqQueue /\ msgs[runner[w].id].scan = runner[w].req
         /\ msgs[runner[w].id].text = "request" /\ runner[w].req \in Requests
<1>1. /\ runner[w].id \in MsgIds /\ msgs[runner[w].id].queue = ReqQueue
      /\ msgs[runner[w].id].scan = runner[w].req
  BY DEF SInv, HandlersHold
<1>2. msgs \in Pool
  BY TypeParts DEF SInv
<1>. QED
  BY <1>1, <1>2, UsedIsMessage, QueueFacts, RunnerHas DEF Message

(* The acknowledgement frees or dead-letters a message already answered.    *)
LEMMA RunAckStep ==
  ASSUME IInv, NEW w \in Runners, RunAck(w)
  PROVE  IInv'
<1>0. /\ SInv /\ TypeOK /\ Busy(w) /\ runner[w].pc \in {"ack", "nack"}
      /\ runner' = [runner EXCEPT ![w] = RunIdle]
      /\ UNCHANGED <<req, cxscan, tmo, res, scans, published, outcomes, disturb, dropped>>
  BY DEF IInv, SInv, Busy, RunAck, RunnerOnly
<1>1. PICK i : i = runner[w].id
  OBVIOUS
<1>2. msgs \in Pool /\ runner \in [Runners -> RunRec]
  BY <1>0, TypeParts
<1>3. runner[w].ghost \in BOOLEAN
  BY <1>2 DEF RunRec
<1>4. runner[w].ghost => msgs' = msgs
  BY DEF RunAck
<1>5. ASSUME ~runner[w].ghost
      PROVE  /\ i \in MsgIds /\ msgs' \in Pool
             /\ \A j \in MsgIds \ {i} : msgs'[j] = msgs[j]
             /\ ~msgs'[i].held /\ TextOK(msgs'[i])
             /\ \A r \in Requests : msgs'[i].scan = r => msgs'[i].text = "rejected"
  <2>1. i \in MsgIds /\ msgs[i] \in Message /\ msgs[i].queue = ReqQueue
    BY <1>0, <1>1, <1>5, HeldFacts DEF Holds
  <2>2. CASE runner[w].pc = "ack"
    <3>1. msgs' = Ack(msgs, i)
      BY <1>1, <1>5, <2>2 DEF RunAck
    <3>. QED
      BY <1>2, <2>1, <3>1, AckFacts, NoMsgFacts
  <2>3. CASE runner[w].pc = "nack"
    <3>1. msgs' = Dead(msgs, i, "rejected")
      BY <1>1, <1>5, <2>3 DEF RunAck, Dead
    <3>2. /\ msgs' \in Pool /\ ~msgs'[i].held
          /\ msgs'[i].queue = ResolverTimeout /\ msgs'[i].text = "rejected"
          /\ \A j \in MsgIds \ {i} : msgs'[j] = msgs[j]
      BY <1>2, <2>1, <3>1, DeadLetterFacts
    <3>. QED
      BY <2>1, <3>2, QueueFacts DEF TextOK
  <2>. QED
    BY <1>0, <2>2, <2>3
<1>6. TypeOK'
  <2>1. msgs' \in Pool
    BY <1>2, <1>3, <1>4, <1>5
  <2>2. runner' \in [Runners -> RunRec]
    BY <1>0, <1>2, IdleFacts
  <2>. QED
    BY <1>0, <2>1, <2>2, TypeParts, TypePartsNext
<1>7. /\ SInv'
      /\ runner'[w] = RunIdle /\ \A u \in Runners \ {w} : runner'[u] = runner[u]
      /\ \A j \in MsgIds : (Holds(w) => j # i) => Same(j)
      /\ Holds(w) => i \in MsgIds /\ \A r \in Requests : RunnerTokens(w, r) /\ ReadyTokens(i, r)'
  <2>1. Released(w, RunIdle, i)
    BY <1>0, <1>1, <1>4, <1>5, <1>6, IdleFacts, RunnerReleases
  <2>. QED
    BY <2>1 DEF Released
<1>8. ASSUME Holds(w), NEW r \in Requests
      PROVE  Quiet(i, r) /\ i \notin Pending(r)
  <2>1. RunnerTokens(w, r) /\ ReadyTokens(i, r)'
    BY <1>7, <1>8
  <2>2. i \notin Pending(r)' /\ i \notin Unscanned(r)' /\ \A k \in 0..ScanRetries : i \notin Above(r, k)'
    BY <2>1, <1>5, <1>8 DEF ReadyTokens, Asks, Holds
  <2>. QED
    BY <2>1, <2>2, <1>0, <1>1 DEF RunnerTokens, Quiet
<1>9. /\ \A r \in Requests, j \in MsgIds : Quiet(j, r)
      /\ \A r \in Requests : \A j \in Pending(r) : j \in Pending(r)'
  <2>1. \A r \in Requests : Pending(r) \subseteq MsgIds
    BY DEF Pending
  <2>. QED
    BY <2>1, <1>7, <1>8, SameIsQuiet
<1>10. \A r \in Requests, u \in Runners : GhostQuiet(u, r)
  BY <1>7, IdleFacts, StillIsQuiet
<1>11. Budgets'
  BY <1>0, <1>6, <1>9, <1>10, QuietStep DEF IInv
<1>12. DelegationSurvives'
  BY <1>0, <1>9, SurviveStep DEF IInv
<1>. QED
  BY <1>7, <1>11, <1>12 DEF IInv

(* A redelivery: the runner dies, or the broker stops waiting for it.       *)
LEMMA RunnerDisturbed ==
  ASSUME IInv, NEW w \in Runners, Busy(w), NEW v \in RunRec,
         runner' = [runner EXCEPT ![w] = v],
         \/ v.pc = "idle"
         \/ ~runner[w].ghost /\ v.ghost /\ v.pc = runner[w].pc /\ v.req = runner[w].req,
         msgs' = IF runner[w].ghost THEN msgs ELSE Requeue(msgs, runner[w].id),
         disturb' = [disturb EXCEPT ![runner[w].req] = @ + 1],
         UNCHANGED <<req, cxscan, tmo, res, scans, published, outcomes, dropped>>
  PROVE  IInv'
<1>0. SInv /\ TypeOK
  BY DEF IInv, SInv
<1>1. PICK r0, i : r0 \in Requests /\ r0 = runner[w].req /\ i = runner[w].id
  BY <1>0, RunnerWork
<1>. r0 \in Requests
  BY <1>1
<1>2. msgs \in Pool /\ runner \in [Runners -> RunRec] /\ disturb \in [Requests -> Nat]
  BY <1>0, TypeParts
<1>3. runner[w].ghost \in BOOLEAN
  BY <1>2 DEF RunRec
<1>4. runner[w].ghost => msgs' = msgs
  OBVIOUS
<1>5. ASSUME ~runner[w].ghost
      PROVE  /\ i \in MsgIds /\ msgs' \in Pool
             /\ \A j \in MsgIds \ {i} : msgs'[j] = msgs[j]
             /\ ~msgs'[i].held /\ TextOK(msgs'[i])
             /\ msgs'[i].scan = r0 /\ msgs'[i].text = "request" /\ msgs'[i].ttl = msgs[i].ttl
  <2>1. /\ i \in MsgIds /\ msgs[i] \in Message /\ msgs[i].queue = ReqQueue
        /\ msgs[i].scan = r0 /\ msgs[i].text = "request"
    BY <1>0, <1>1, <1>5, HeldFacts DEF Holds
  <2>2. msgs' = Requeue(msgs, i)
    BY <1>1, <1>5
  <2>3. /\ msgs' \in Pool /\ ~msgs'[i].held
        /\ msgs'[i].queue = ReqQueue /\ msgs'[i].scan = r0 /\ msgs'[i].text = "request"
        /\ msgs'[i].ttl = msgs[i].ttl
        /\ \A j \in MsgIds \ {i} : msgs'[j] = msgs[j]
    BY <1>2, <2>1, <2>2, RequeueFacts
  <2>. QED
    BY <2>1, <2>3, QueueFacts DEF TextOK
<1>6. TypeOK'
  <2>1. msgs' \in Pool
    BY <1>2, <1>3, <1>4, <1>5
  <2>2. runner' \in [Runners -> RunRec]
    BY <1>2
  <2>3. disturb' \in [Requests -> Nat]
    BY <1>1, <1>2
  <2>. QED
    BY <1>0, <2>1, <2>2, <2>3, TypeParts, TypePartsNext
<1>7. /\ SInv'
      /\ runner'[w] = v /\ \A u \in Runners \ {w} : runner'[u] = runner[u]
      /\ \A j \in MsgIds : (Holds(w) => j # i) => Same(j)
      /\ Holds(w) => i \in MsgIds /\ \A r \in Requests : RunnerTokens(w, r) /\ ReadyTokens(i, r)'
  <2>1. /\ v.pc = "idle" \/ (v.ghost /\ v.req = runner[w].req)
        /\ tmo' = tmo /\ res' = res
    OBVIOUS
  <2>2. /\ runner[w].ghost => msgs' = msgs
        /\ ~runner[w].ghost => /\ \A j \in MsgIds \ {i} : msgs'[j] = msgs[j]
                               /\ ~msgs'[i].held /\ TextOK(msgs'[i])
        /\ i = runner[w].id
    BY <1>1, <1>4, <1>5
  <2>3. Released(w, v, i)
    BY <1>0, <1>6, <2>1, <2>2, RunnerReleases
  <2>. QED
    BY <2>3 DEF Released
<1>8. ASSUME Holds(w), NEW r \in Requests
      PROVE  /\ r # r0 => Quiet(i, r)
             /\ i \in Pending(r) => i \in Pending(r)'
             /\ runner[w].pc \in Active /\ r = r0 => i \in Pending(r)
             /\ runner[w].pc \in Early /\ r = r0 => i \in Unscanned(r)
  <2>1. RunnerTokens(w, r) /\ ReadyTokens(i, r)'
    BY <1>7, <1>8
  <2>2. msgs'[i].scan = r0 /\ msgs'[i].text = "request"
    BY <1>5, <1>8 DEF Holds
  <2>3. r # r0 => i \notin Pending(r)' /\ i \notin Unscanned(r)' /\ \A k \in 0..ScanRetries : i \notin Above(r, k)'
    BY <2>1, <2>2 DEF ReadyTokens
  <2>4. i \in Pending(r)' <=> r = r0
    BY <2>1, <2>2 DEF ReadyTokens
  <2>5. runner[w].pc \in Active => runner[w].pc \notin {"ack", "nack"}
    BY DEF Active, Early, Late
  <2>. QED
    BY <2>1, <2>3, <2>4, <2>5, <1>1 DEF RunnerTokens, Quiet
<1>9. /\ \A r \in Requests, j \in MsgIds : (j # i \/ r # r0) => Quiet(j, r)
      /\ \A r \in Requests : \A j \in Pending(r) : j \in Pending(r)'
  <2>1. \A r \in Requests : Pending(r) \subseteq MsgIds
    BY DEF Pending
  <2>. QED
    BY <2>1, <1>7, <1>8, SameIsQuiet
<1>10. \A r \in Requests, u \in Runners : (u # w \/ r # r0) => GhostQuiet(u, r)
  <2>1. \A r \in Requests : r # r0 => GhostQuiet(w, r)
    BY <1>1, <1>7 DEF GhostQuiet, Ghosts, Active, Early, Late
  <2>. QED
    BY <2>1, <1>7, StillIsQuiet
<1>11. /\ \/ i \in Pending(r0)' => i \in Pending(r0)
          \/ w \in Ghosts(r0, Active)' => w \in Ghosts(r0, Active)
       /\ \/ i \in Unscanned(r0)' => i \in Unscanned(r0)
          \/ w \in Ghosts(r0, Early)' => w \in Ghosts(r0, Early)
  <2>1. CASE v.pc = "idle"
    BY <2>1, <1>7 DEF Ghosts, Active, Early, Late
  <2>2. CASE ~runner[w].ghost /\ v.ghost /\ v.pc = runner[w].pc /\ v.req = runner[w].req
    <3>1. Holds(w)
      BY <2>2 DEF Holds
    <3>2. /\ runner[w].pc \notin Active => w \notin Ghosts(r0, Active)'
          /\ runner[w].pc \notin Early => w \notin Ghosts(r0, Early)'
      BY <1>7, <2>2 DEF Ghosts
    <3>. QED
      BY <1>8, <3>1, <3>2
  <2>. QED
    BY <2>1, <2>2
<1>12. /\ disturb'[r0] = disturb[r0] + 1 /\ \A r \in Requests \ {r0} : disturb'[r] = disturb[r]
       /\ UNCHANGED <<req, outcomes, scans, published>>
  BY <1>1, <1>2
<1>13. Budgets'
  <2>1. \/ i \in Pending(r0)' => i \in Pending(r0)
        \/ w \in Ghosts(r0, Active)' => w \in Ghosts(r0, Active)
    BY <1>11
  <2>2. \/ i \in Unscanned(r0)' => i \in Unscanned(r0)
        \/ w \in Ghosts(r0, Early)' => w \in Ghosts(r0, Early)
    BY <1>11
  <2>3. Budgets
    BY DEF IInv
  <2>. QED
    BY <1>0, <1>6, <1>9, <1>10, <2>1, <2>2, <2>3, <1>12, DisturbStep
<1>14. DelegationSurvives'
  BY <1>9, SurviveStep DEF IInv
<1>. QED
  BY <1>7, <1>13, <1>14 DEF IInv
-----------------------------------------------------------------------------
(***************************************************************************)
(* The steps of the time-out handlers.                                      *)
(***************************************************************************)

(* The types of the handlers after one of them is to acknowledge.           *)
LEMMA HandlerAcks ==
  ASSUME TypeOK
  PROVE  /\ \A t \in TimeoutHandlers : [tmo EXCEPT ![t].pc = "ack"] \in [TimeoutHandlers -> HandlerRec]
         /\ \A h \in ResultHandlers : [res EXCEPT ![h].pc = "ack"] \in [ResultHandlers -> HandlerRec]
<1>1. tmo \in [TimeoutHandlers -> HandlerRec] /\ res \in [ResultHandlers -> HandlerRec]
  BY TypeParts
<1>. QED
  BY <1>1 DEF HandlerRec

(* The dead letter of a time-out handler at work.                           *)
LEMMA TimeoutFacts ==
  ASSUME SInv, NEW t \in TimeoutHandlers, tmo[t].pc # "idle"
  PROVE  /\ tmo[t].id \in MsgIds /\ TimeoutMsg(t) \in Message /\ TimeoutMsg(t) = msgs[tmo[t].id]
         /\ TimeoutMsg(t).queue = ResolverTimeout /\ TimeoutMsg(t).held
         /\ TimeoutMsg(t).scan \in Requests /\ TimeoutMsg(t).ttl \in 0..ScanRetries
         /\ TimeoutMsg(t).text \in {"expired", "rejected"} /\ TextOK(TimeoutMsg(t))
<1>1. /\ tmo[t].id \in MsgIds /\ msgs[tmo[t].id].queue = ResolverTimeout /\ msgs[tmo[t].id].held
  BY DEF SInv, HandlersHold
<1>2. msgs \in Pool
  BY TypeParts DEF SInv
<1>3. msgs[tmo[t].id] \in Message
  BY <1>1, <1>2, UsedIsMessage
<1>4. TextOK(msgs[tmo[t].id])
  BY <1>1 DEF SInv, TextsOK
<1>. QED
  BY <1>1, <1>3, <1>4, TimeoutHas DEF TimeoutMsg, Message

DoneFacts(t, i, X) ==
  /\ SInv' /\ i \in MsgIds \ X
  /\ \A j \in MsgIds \ X : j # i => Same(j)
  /\ \A r \in Requests : \A j \in X : ReadyTokens(j, r) /\ ReadyTokens(j, r)'
  /\ \A r \in Requests :
       /\ i \in Pending(r) <=> TimeoutMsg(t).scan = r /\ TimeoutMsg(t).text = "expired"
       /\ i \in Unscanned(r) <=> TimeoutMsg(t).scan = r /\ TimeoutMsg(t).text = "expired"
       /\ \A k \in 0..ScanRetries :
            i \in Above(r, k) <=>
              TimeoutMsg(t).scan = r /\ TimeoutMsg(t).text = "expired" /\ TimeoutMsg(t).ttl > k
       /\ i \notin Pending(r)' /\ Quiet(i, r)
  /\ \A r \in Requests, u \in Runners : GhostQuiet(u, r)

(* A time-out handler has done its work and is to acknowledge; the ready    *)
(* messages of X have changed.                                              *)
LEMMA TimeoutDone ==
  ASSUME SInv, TypeOK', NEW t \in TimeoutHandlers, tmo[t].pc = "received",
         tmo' = [tmo EXCEPT ![t].pc = "ack"], runner' = runner, res' = res,
         NEW X \in SUBSET MsgIds, \A j \in MsgIds \ X : msgs'[j] = msgs[j],
         \A j \in X : ~msgs[j].held /\ ~msgs'[j].held /\ TextOK(msgs'[j]),
         NEW i, i = tmo[t].id
  PROVE  DoneFacts(t, i, X)
<1>. DEFINE v == [tmo[t] EXCEPT !.pc = "ack"]
<1>1. /\ v \in HandlerRec /\ v.pc = "ack" /\ v.id = i
      /\ tmo' = [tmo EXCEPT ![t] = v] /\ tmo'[t] = v
  <2>1. tmo \in [TimeoutHandlers -> HandlerRec] /\ tmo[t] \in HandlerRec
    BY TypeParts DEF SInv
  <2>. QED
    BY <2>1 DEF HandlerRec
<1>. HIDE DEF v
<1>2. /\ i \in MsgIds /\ TimeoutMsg(t) = msgs[i]
      /\ msgs[i].queue = ResolverTimeout /\ msgs[i].held
  BY TimeoutFacts
<1>3. i \in MsgIds \ X /\ msgs'[i] = msgs[i]
  BY <1>2
<1>4. /\ Structure'
      /\ \A j \in MsgIds \ X : j # i => Same(j)
  <2>1. /\ \A j \in X : /\ ~msgs[j].held \/ (tmo[t].pc # "idle" /\ j = tmo[t].id)
                        /\ TextOK(msgs'[j])
        /\ v.pc # "idle" =>
             /\ v.id \in X \/ (tmo[t].pc # "idle" /\ v.id = tmo[t].id)
             /\ msgs'[v.id].queue = ResolverTimeout /\ msgs'[v.id].held
    BY <1>1, <1>2, <1>3
  <2>2. /\ Structure'
        /\ \A j \in MsgIds \ X : (tmo[t].pc # "idle" => j # tmo[t].id) => Same(j)
    BY <1>1, <2>1, TimeoutMoves
  <2>. QED
    BY <2>2
<1>5. SInv' /\ TokensOK /\ TokensOK'
  BY <1>4, Tokens, TokensNext DEF SInv, Structure
<1>6. \A r \in Requests : \A j \in X : ReadyTokens(j, r) /\ ReadyTokens(j, r)'
  BY <1>5 DEF TokensOK
<1>7. ASSUME NEW r \in Requests
      PROVE  /\ i \in Pending(r) <=> TimeoutMsg(t).scan = r /\ TimeoutMsg(t).text = "expired"
             /\ i \in Unscanned(r) <=> TimeoutMsg(t).scan = r /\ TimeoutMsg(t).text = "expired"
             /\ \A k \in 0..ScanRetries :
                  i \in Above(r, k) <=>
                    TimeoutMsg(t).scan = r /\ TimeoutMsg(t).text = "expired" /\ TimeoutMsg(t).ttl > k
             /\ i \notin Pending(r)' /\ Quiet(i, r)
  <2>1. TimeoutTokens(t, r) /\ TimeoutTokens(t, r)'
    BY <1>1, <1>5 DEF TokensOK
  <2>2. /\ i \notin Pending(r)' /\ i \notin Unscanned(r)'
        /\ \A k \in 0..ScanRetries : i \notin Above(r, k)'
    BY <2>1, <1>1 DEF TimeoutTokens
  <2>. QED
    BY <2>1, <2>2 DEF TimeoutTokens, Quiet
<1>8. \A r \in Requests, u \in Runners : GhostQuiet(u, r)
  BY StillIsQuiet
<1>. QED
  BY <1>3, <1>4, <1>5, <1>6, <1>7, <1>8 DEF DoneFacts

(* The dead letter of a rejected request is ignored; that of an expired one *)
(* is lost, recorded.                                                       *)
LEMMA TimeoutInner ==
  ASSUME IInv, NEW t \in TimeoutHandlers, tmo[t].pc = "received",
         tmo' = [tmo EXCEPT ![t].pc = "ack"],
         UNCHANGED <<req, cxscan, msgs, runner, res, scans, published, outcomes, disturb>>,
         \/ dropped' = dropped /\ ~Expired(TimeoutMsg(t))
         \/ \E x \in {"signature", "unpublished"} :
              dropped' = [dropped EXCEPT ![TimeoutMsg(t).scan] = @ \cup {x}]
  PROVE  IInv'
<1>0. SInv /\ TypeOK
  BY DEF IInv, SInv
<1>1. PICK r0 \in Requests, i \in MsgIds : r0 = TimeoutMsg(t).scan /\ i = tmo[t].id
  BY <1>0, TimeoutFacts
<1>2. /\ dropped' \in [Requests -> SUBSET {"signature", "suppressed", "unpublished", "over", "dispatch"}]
      /\ \A r \in Requests : dropped'[r] = {} => dropped[r] = {}
      /\ dropped'[r0] = {} => TimeoutMsg(t).text # "expired"
  <2>1. dropped \in [Requests -> SUBSET {"signature", "suppressed", "unpublished", "over", "dispatch"}]
    BY <1>0, TypeParts
  <2>2. CASE dropped' = dropped /\ ~Expired(TimeoutMsg(t))
    BY <2>1, <2>2 DEF Expired
  <2>3. ASSUME NEW x \in {"signature", "unpublished"},
               dropped' = [dropped EXCEPT ![TimeoutMsg(t).scan] = @ \cup {x}]
        PROVE  /\ dropped' \in [Requests -> SUBSET {"signature", "suppressed", "unpublished", "over", "dispatch"}]
               /\ \A r \in Requests : dropped'[r] = {} => dropped[r] = {}
               /\ dropped'[r0] # {}
    <3>1. dropped' = [dropped EXCEPT ![r0] = @ \cup {x}]
      BY <1>1, <2>3
    <3>. QED
      BY <2>1, <3>1
  <2>. QED
    BY <2>2, <2>3
<1>3. TypeOK'
  <2>1. tmo' \in [TimeoutHandlers -> HandlerRec]
    BY <1>0, HandlerAcks
  <2>. QED
    BY <1>0, <1>2, <2>1, TypeParts, TypePartsNext
<1>4. /\ SInv' /\ i \in MsgIds
      /\ \A j \in MsgIds : j # i => Same(j)
      /\ \A r \in Requests :
           /\ i \in Pending(r) => r0 = r /\ TimeoutMsg(t).text = "expired"
           /\ Quiet(i, r)
      /\ \A r \in Requests, u \in Runners : GhostQuiet(u, r)
  <2>. DEFINE X == {}
  <2>1. /\ X \in SUBSET MsgIds /\ \A j \in MsgIds \ X : msgs'[j] = msgs[j]
        /\ \A j \in X : ~msgs[j].held /\ ~msgs'[j].held /\ TextOK(msgs'[j])
        /\ \A j \in MsgIds : j \in MsgIds \ X
        /\ runner' = runner /\ res' = res
    OBVIOUS
  <2>. HIDE DEF X
  <2>2. DoneFacts(t, i, X)
    BY <1>0, <1>1, <1>3, <2>1, TimeoutDone
  <2>. QED
    BY <1>1, <2>1, <2>2 DEF DoneFacts
<1>5. /\ \A r \in Requests, j \in MsgIds : Quiet(j, r)
      /\ \A r \in Requests : \A j \in Pending(r) : j \in Pending(r)' \/ dropped'[r] # {}
  <2>1. \A r \in Requests : Pending(r) \subseteq MsgIds
    BY DEF Pending
  <2>. QED
    BY <2>1, <1>2, <1>4, SameIsQuiet
<1>6. Budgets'
  BY <1>0, <1>3, <1>4, <1>5, QuietStep DEF IInv
<1>7. DelegationSurvives'
  BY <1>2, <1>5, SurviveStep DEF IInv
<1>. QED
  BY <1>4, <1>6, <1>7 DEF IInv

(* The last dead letter of a request is answered as a failure.              *)
LEMMA TimeoutFailureStep ==
  ASSUME IInv, NEW t \in TimeoutHandlers, TimeoutFailure(t)
  PROVE  IInv'
<1>. DEFINE m == Msg(ResolverComplete, TimeoutMsg(t).scan, 0, "hard")
<1>0. /\ SInv /\ TypeOK /\ tmo[t].pc = "received" /\ TimeoutMsg(t).text = "expired"
      /\ Free(msgs) # {} /\ msgs' = Publish(msgs, m) /\ tmo' = [tmo EXCEPT ![t].pc = "ack"]
      /\ UNCHANGED <<req, cxscan, runner, res, scans, published, outcomes, dropped, disturb>>
  BY DEF IInv, SInv, TimeoutFailure, Expired
<1>1. PICK r0 \in Requests, i \in MsgIds : r0 = TimeoutMsg(t).scan /\ i = tmo[t].id
  BY <1>0, TimeoutFacts
<1>2. /\ m \in Message /\ ~m.held /\ m.queue = ResolverComplete /\ m.scan = r0 /\ m.text = "hard"
  BY <1>1, MsgFacts, ResolverAssumption DEF Results
<1>. HIDE DEF m
<1>3. PICK n \in MsgIds : /\ msgs[n] = NoMsg /\ msgs' \in Pool /\ msgs'[n] = m
                          /\ \A j \in MsgIds \ {n} : msgs'[j] = msgs[j]
  <2>1. msgs \in Pool
    BY <1>0, TypeParts
  <2>. QED
    BY <1>0, <1>2, <2>1, PublishFacts
<1>4. TypeOK'
  <2>1. tmo' \in [TimeoutHandlers -> HandlerRec]
    BY <1>0, HandlerAcks
  <2>. QED
    BY <1>0, <1>3, <2>1, TypeParts, TypePartsNext
<1>5. /\ SInv' /\ i \in MsgIds /\ i # n
      /\ \A j \in MsgIds \ {n} : j # i => Same(j)
      /\ \A r \in Requests : ReadyTokens(n, r) /\ ReadyTokens(n, r)'
      /\ \A r \in Requests :
           /\ i \in Pending(r) <=> r0 = r
           /\ i \notin Pending(r)' /\ Quiet(i, r)
      /\ \A r \in Requests, u \in Runners : GhostQuiet(u, r)
  <2>. DEFINE X == {n}
  <2>1. TextOK(m)
    BY <1>2, QueueFacts DEF TextOK, Results
  <2>2. /\ X \in SUBSET MsgIds /\ \A j \in MsgIds \ X : msgs'[j] = msgs[j]
        /\ \A j \in X : ~msgs[j].held /\ ~msgs'[j].held /\ TextOK(msgs'[j])
        /\ MsgIds \ X = MsgIds \ {n} /\ n \in X
        /\ runner' = runner /\ res' = res
    BY <1>0, <1>2, <1>3, <2>1, NoMsgFacts
  <2>. HIDE DEF X
  <2>3. DoneFacts(t, i, X)
    BY <1>0, <1>1, <1>4, <2>2, TimeoutDone
  <2>. QED
    BY <1>0, <1>1, <2>2, <2>3 DEF DoneFacts
<1>6. ASSUME NEW r \in Requests
      PROVE  /\ n \notin Pending(r) /\ (n \in Pending(r)' <=> r = r0)
             /\ n \notin Unscanned(r)'
             /\ \A k \in 0..ScanRetries : n \notin Above(r, k)'
  BY <1>2, <1>3, <1>5, NoMsgFacts DEF ReadyTokens, Asks
<1>7. \A r \in Requests, j \in MsgIds : (j # n \/ r # r0) => Quiet(j, r)
  <2>1. \A r \in Requests : r # r0 => Quiet(n, r)
    BY <1>6 DEF Quiet
  <2>. QED
    BY <2>1, <1>5, SameIsQuiet
<1>8. Budgets'
  <2>1. i # n /\ i \in Pending(r0) /\ i \notin Pending(r0)'
    BY <1>5
  <2>2. /\ n \notin Unscanned(r0)' /\ \A k \in 0..ScanRetries : n \notin Above(r0, k)'
        /\ UNCHANGED <<req, disturb, outcomes, scans, published>>
        /\ Budgets
    BY <1>0, <1>6 DEF IInv
  <2>. QED
    BY <1>0, <1>4, <1>5, <1>7, <2>1, <2>2, SwapStep
<1>9. DelegationSurvives'
  <2>1. Pending(r0)' # {}
    BY <1>6
  <2>2. ASSUME NEW r \in Requests, r # r0, NEW j \in Pending(r)
        PROVE  j \in Pending(r)'
    BY <2>2, <1>5, <1>6, SameIsQuiet DEF Pending
  <2>. QED
    BY <1>0, <2>1, <2>2, SurviveStep DEF IInv
<1>. QED
  BY <1>5, <1>8, <1>9 DEF IInv

(* One more publication of the request r with c retries left.               *)
LEMMA PublishedOnce ==
  ASSUME NEW f \in [Requests -> [0..ScanRetries -> Nat]], NEW r \in Requests, NEW c \in 0..ScanRetries
  PROVE  LET g == [f EXCEPT ![r][c] = @ + 1]
         IN  /\ g \in [Requests -> [0..ScanRetries -> Nat]]
             /\ g[r][c] = f[r][c] + 1
             /\ \A k \in 0..ScanRetries : k # c => g[r][k] = f[r][k]
             /\ \A q \in Requests \ {r} : g[q] = f[q]
<1>. DEFINE e == [f[r] EXCEPT ![c] = @ + 1]
            g == [f EXCEPT ![r] = e]
<1>1. f[r] \in [0..ScanRetries -> Nat]
  OBVIOUS
<1>2. e \in [0..ScanRetries -> Nat] /\ e[c] = f[r][c] + 1 /\ \A k \in 0..ScanRetries : k # c => e[k] = f[r][k]
  BY <1>1
<1>. HIDE DEF e
<1>3. /\ g \in [Requests -> [0..ScanRetries -> Nat]] /\ g[r] = e
      /\ \A q \in Requests \ {r} : g[q] = f[q]
  BY <1>2
<1>4. [f EXCEPT ![r][c] = @ + 1] = g
  BY DEF e
<1>. HIDE DEF g
<1>. QED
  BY <1>2, <1>3, <1>4

(* An expired request is published again, with one retry less.              *)
LEMMA TimeoutResubmitStep ==
  ASSUME IInv, NEW t \in TimeoutHandlers, TimeoutResubmit(t)
  PROVE  IInv'
<1>0. /\ SInv /\ TypeOK /\ Budgets /\ tmo[t].pc = "received" /\ TimeoutMsg(t).text = "expired"
      /\ Free(msgs) # {} /\ tmo' = [tmo EXCEPT ![t].pc = "ack"]
      /\ UNCHANGED <<req, cxscan, runner, res, scans, outcomes, dropped, disturb>>
  BY DEF IInv, SInv, TimeoutResubmit, Expired
<1>21. PICK r0 \in Requests, i \in MsgIds : r0 = TimeoutMsg(t).scan /\ i = tmo[t].id
  BY <1>0, TimeoutFacts
<1>22. PICK c \in 0..ScanRetries : c = ResubmitCount(TimeoutMsg(t)) /\ TimeoutMsg(t).ttl = c + 1
  <2>1. TimeoutMsg(t).scan \in Requests /\ TimeoutMsg(t).ttl \in 0..ScanRetries
    BY <1>0, TimeoutFacts
  <2>2. ResubmitCount(TimeoutMsg(t)) > 0
    BY DEF TimeoutResubmit
  <2>3. /\ ResubmitCount(TimeoutMsg(t)) \in 0..ScanRetries
        /\ TimeoutMsg(t).ttl = ResubmitCount(TimeoutMsg(t)) + 1
    <3>1. ASSUME NEW q, q.ttl \in 0..ScanRetries, ResubmitCount(q) > 0
          PROVE  ResubmitCount(q) \in 0..ScanRetries /\ q.ttl = ResubmitCount(q) + 1
      BY <3>1, ResolverAssumption DEF ResubmitCount
    <3>. QED
      BY <2>1, <2>2, <3>1
  <2>. QED
    BY <2>3
<1>1. /\ r0 = TimeoutMsg(t).scan /\ i = tmo[t].id
      /\ c = ResubmitCount(TimeoutMsg(t)) /\ TimeoutMsg(t).ttl = c + 1
  BY <1>21, <1>22
<1>. DEFINE m == Msg(ReqQueue, r0, c, "request")
<1>2. /\ msgs' = Publish(msgs, m) /\ published' = [published EXCEPT ![r0][c] = @ + 1]
  BY <1>1 DEF TimeoutResubmit
<1>3. /\ m \in Message /\ ~m.held /\ m.queue = ReqQueue /\ m.scan = r0 /\ m.text = "request" /\ m.ttl = c
  BY <1>1, MsgFacts DEF Asks
<1>. HIDE DEF m
<1>4. PICK n \in MsgIds : /\ msgs[n] = NoMsg /\ msgs' \in Pool /\ msgs'[n] = m
                          /\ \A j \in MsgIds \ {n} : msgs'[j] = msgs[j]
  <2>1. msgs \in Pool
    BY <1>0, TypeParts
  <2>. QED
    BY <1>0, <1>2, <1>3, <2>1, PublishFacts
<1>5. /\ published' \in [Requests -> [0..ScanRetries -> Nat]]
      /\ published'[r0][c] = published[r0][c] + 1
      /\ \A k \in 0..ScanRetries : k # c => published'[r0][k] = published[r0][k]
      /\ \A r \in Requests \ {r0} : published'[r] = published[r]
  <2>1. published \in [Requests -> [0..ScanRetries -> Nat]]
    BY <1>0, TypeParts
  <2>. QED
    BY <1>2, <2>1, PublishedOnce
<1>6. TypeOK'
  <2>1. tmo' \in [TimeoutHandlers -> HandlerRec]
    BY <1>0, HandlerAcks
  <2>. QED
    BY <1>0, <1>4, <1>5, <2>1, TypeParts, TypePartsNext
<1>7. /\ SInv' /\ i \in MsgIds /\ i # n
      /\ \A j \in MsgIds \ {n} : j # i => Same(j)
      /\ \A r \in Requests : ReadyTokens(n, r) /\ ReadyTokens(n, r)'
      /\ \A r \in Requests :
           /\ i \in Pending(r) <=> r0 = r
           /\ i \in Unscanned(r) <=> r0 = r
           /\ \A k \in 0..ScanRetries : i \in Above(r, k) <=> r0 = r /\ c + 1 > k
           /\ i \notin Pending(r)' /\ Quiet(i, r)
      /\ \A r \in Requests, u \in Runners : GhostQuiet(u, r)
  <2>. DEFINE X == {n}
  <2>1. TextOK(m)
    BY <1>3, QueueFacts DEF TextOK
  <2>2. /\ X \in SUBSET MsgIds /\ \A j \in MsgIds \ X : msgs'[j] = msgs[j]
        /\ \A j \in X : ~msgs[j].held /\ ~msgs'[j].held /\ TextOK(msgs'[j])
        /\ MsgIds \ X = MsgIds \ {n} /\ n \in X
        /\ runner' = runner /\ res' = res
    BY <1>0, <1>3, <1>4, <2>1, NoMsgFacts
  <2>. HIDE DEF X
  <2>3. DoneFacts(t, i, X)
    BY <1>0, <1>1, <1>6, <2>2, TimeoutDone
  <2>. QED
    BY <1>0, <1>1, <2>2, <2>3 DEF DoneFacts
<1>8. ASSUME NEW r \in Requests
      PROVE  /\ n \notin Pending(r) /\ (n \in Pending(r)' <=> r = r0)
             /\ n \in Unscanned(r)' <=> r = r0
             /\ \A k \in 0..ScanRetries : n \in Above(r, k)' <=> r = r0 /\ c > k
  BY <1>3, <1>4, <1>7, NoMsgFacts DEF ReadyTokens, Asks
<1>9. \A r \in Requests, j \in MsgIds : (j # n \/ r # r0) => Quiet(j, r)
  <2>1. \A r \in Requests : r # r0 => Quiet(n, r)
    BY <1>8 DEF Quiet
  <2>. QED
    BY <2>1, <1>7, SameIsQuiet
<1>10. Budgets'
  <2>1. ASSUME NEW r \in Requests, r # r0
        PROVE  PendingFits(r) /\ ScanFits(r) /\ \A k \in 0..ScanRetries : RetryFits(r, k)
    BY <2>1, <1>0, <1>5, <1>7, <1>9, QuietFits
  <2>2. Due(r0)' + disturb'[r0] = Due(r0) + disturb[r0]
    BY <1>0 DEF Due
  <2>3. /\ Ghosts(r0, Active)' \subseteq Ghosts(r0, Active)
        /\ Ghosts(r0, Early)' \subseteq Ghosts(r0, Early)
    BY <1>7, CountedRange DEF GhostQuiet
  <2>4. /\ i \notin Unscanned(r0)' /\ \A k : i \notin Above(r0, k)'
    BY <1>7 DEF Unscanned, Above
  <2>5. PendingFits(r0)
    <3>1. Pending(r0)' \subseteq (Pending(r0) \ {i}) \cup {n}
      BY <1>7, <1>9, CountedRange DEF Quiet
    <3>. QED
      BY <1>0, <1>7, <2>2, <2>3, <3>1 DEF PendingFits, Fits
  <2>6. ScanFits(r0)
    <3>1. Unscanned(r0)' \subseteq (Unscanned(r0) \ {i}) \cup {n}
      BY <1>9, <2>4, CountedRange DEF Quiet
    <3>. QED
      BY <1>0, <1>7, <2>2, <2>3, <3>1 DEF ScanFits, Fits
  <2>7. ASSUME NEW k \in 0..ScanRetries
        PROVE  RetryFits(r0, k)
    <3>1. Above(r0, k)' \subseteq (Above(r0, k) \ {i}) \cup {n}
      BY <1>9, <2>4, CountedRange DEF Quiet
    <3>2. CASE k < c
      <4>1. i \in Above(r0, k) /\ published'[r0][k] = published[r0][k]
        BY <1>1, <1>5, <1>7, <3>2
      <4>. QED
        BY <2>2, <3>1, <4>1 DEF RetryFits, Fits
    <3>3. CASE k = c
      <4>1. i \in Above(r0, k) /\ n \notin Above(r0, k)'
        BY <1>1, <1>7, <1>8, <3>3
      <4>2. Above(r0, k)' \subseteq Above(r0, k) \ {i}
        BY <3>1, <4>1
      <4>. QED
        BY <1>5, <2>2, <3>3, <4>1, <4>2 DEF RetryFits, Fits
    <3>4. CASE k > c
      <4>1. n \notin Above(r0, k)' /\ published'[r0][k] = published[r0][k]
        BY <1>1, <1>5, <1>8, <3>4
      <4>2. Above(r0, k)' \subseteq Above(r0, k)
        BY <3>1, <4>1
      <4>. QED
        BY <2>2, <4>1, <4>2 DEF RetryFits, Fits
    <3>. QED
      BY <1>1, <3>2, <3>3, <3>4
  <2>. QED
    BY <1>0, <1>6, <2>1, <2>5, <2>6, <2>7, Accounts
<1>11. DelegationSurvives'
  <2>1. Pending(r0)' # {}
    BY <1>8
  <2>2. ASSUME NEW r \in Requests, r # r0, NEW j \in Pending(r)
        PROVE  j \in Pending(r)'
    BY <2>2, <1>7, <1>8, SameIsQuiet DEF Pending
  <2>. QED
    BY <1>0, <2>1, <2>2, SurviveStep DEF IInv
<1>. QED
  BY <1>7, <1>10, <1>11 DEF IInv

(* A dead letter is delivered to a time-out handler.                        *)
LEMMA TimeoutReceiveStep ==
  ASSUME IInv, NEW t \in TimeoutHandlers, NEW i \in MsgIds, TimeoutReceive(t, i)
  PROVE  IInv'
<1>. DEFINE v == [pc |-> "received", id |-> i]
<1>0. /\ SInv /\ TypeOK /\ tmo[t].pc = "idle" /\ msgs[i].queue = ResolverTimeout /\ ~msgs[i].held
      /\ msgs' = Deliver(msgs, i) /\ tmo' = [tmo EXCEPT ![t] = v]
      /\ UNCHANGED <<req, cxscan, runner, res, scans, published, outcomes, disturb, dropped>>
  BY DEF IInv, SInv, TimeoutReceive, Ready
<1>1. msgs \in Pool /\ tmo \in [TimeoutHandlers -> HandlerRec]
  BY <1>0, TypeParts
<1>2. msgs[i] \in Message
  BY <1>0, <1>1, UsedIsMessage, QueueFacts
<1>3. /\ msgs' \in Pool /\ msgs'[i].held /\ msgs'[i].queue = ResolverTimeout
      /\ msgs'[i].scan = msgs[i].scan /\ msgs'[i].text = msgs[i].text /\ msgs'[i].ttl = msgs[i].ttl
      /\ \A j \in MsgIds \ {i} : msgs'[j] = msgs[j]
  BY <1>0, <1>1, <1>2, DeliverFacts
<1>4. msgs[i].text \in {"expired", "rejected"} /\ TextOK(msgs'[i])
  BY <1>0, <1>3, QueueFacts DEF SInv, TextsOK, TextOK
<1>5. /\ v \in HandlerRec /\ v.pc = "received" /\ v.id = i
      /\ tmo' \in [TimeoutHandlers -> HandlerRec] /\ tmo'[t] = v
  BY <1>0, <1>1 DEF HandlerRec
<1>. HIDE DEF v
<1>6. TypeOK'
  BY <1>0, <1>3, <1>5, TypeParts, TypePartsNext
<1>7. /\ Structure'
      /\ \A j \in MsgIds \ {i} : Same(j)
  <2>. DEFINE X == {i}
  <2>1. /\ X \in SUBSET MsgIds /\ \A j \in MsgIds \ X : msgs'[j] = msgs[j]
        /\ \A j \in X : /\ ~msgs[j].held \/ (tmo[t].pc # "idle" /\ j = tmo[t].id)
                        /\ TextOK(msgs'[j])
        /\ v.pc # "idle" =>
             /\ v.id \in X \/ (tmo[t].pc # "idle" /\ v.id = tmo[t].id)
             /\ msgs'[v.id].queue = ResolverTimeout /\ msgs'[v.id].held
        /\ runner' = runner /\ res' = res
    BY <1>0, <1>3, <1>4, <1>5
  <2>2. MsgIds \ {i} = MsgIds \ X
    OBVIOUS
  <2>. HIDE DEF X
  <2>3. /\ Structure'
        /\ \A j \in MsgIds \ X : (tmo[t].pc # "idle" => j # tmo[t].id) => Same(j)
    BY <1>0, <1>5, <2>1, TimeoutMoves
  <2>. QED
    BY <1>0, <2>2, <2>3
<1>8. SInv' /\ TokensOK /\ TokensOK'
  BY <1>0, <1>6, <1>7, Tokens, TokensNext DEF SInv, Structure
<1>9. ASSUME NEW r \in Requests
      PROVE  Quiet(i, r) /\ (i \in Pending(r) => i \in Pending(r)')
  <2>1. ReadyTokens(i, r) /\ TimeoutTokens(t, r)'
    BY <1>0, <1>5, <1>8 DEF TokensOK
  <2>2. TimeoutMsg(t)' = msgs'[i] /\ tmo'[t].id = i /\ tmo'[t].pc = "received"
    BY <1>5 DEF TimeoutMsg
  <2>. QED
    BY <2>1, <2>2, <1>3, <1>4 DEF ReadyTokens, TimeoutTokens, Quiet, Asks
<1>10. /\ \A r \in Requests, j \in MsgIds : Quiet(j, r)
       /\ \A r \in Requests : \A j \in Pending(r) : j \in Pending(r)'
  <2>1. \A r \in Requests : Pending(r) \subseteq MsgIds
    BY DEF Pending
  <2>. QED
    BY <1>7, <1>9, <2>1, SameIsQuiet
<1>11. \A r \in Requests, u \in Runners : GhostQuiet(u, r)
  BY <1>0, StillIsQuiet
<1>12. Budgets'
  BY <1>0, <1>6, <1>10, <1>11, QuietStep DEF IInv
<1>13. DelegationSurvives'
  BY <1>0, <1>10, SurviveStep DEF IInv
<1>. QED
  BY <1>8, <1>12, <1>13 DEF IInv

(* A time-out handler lets go of its message.                               *)
LEMMA TimeoutReleases ==
  ASSUME SInv, TypeOK', NEW t \in TimeoutHandlers, tmo[t].pc # "idle",
         tmo' = [tmo EXCEPT ![t] = HIdle], runner' = runner, res' = res,
         NEW i, i = tmo[t].id,
         \A j \in MsgIds \ {i} : msgs'[j] = msgs[j], ~msgs'[i].held, TextOK(msgs'[i])
  PROVE  /\ SInv' /\ i \in MsgIds
         /\ \A j \in MsgIds \ {i} : Same(j)
         /\ \A r \in Requests : TimeoutTokens(t, r) /\ ReadyTokens(i, r)'
         /\ \A r \in Requests, u \in Runners : GhostQuiet(u, r)
<1>1. i \in MsgIds
  BY TimeoutFacts
<1>2. /\ Structure'
      /\ \A j \in MsgIds \ {i} : Same(j)
  <2>. DEFINE X == {i}
  <2>1. /\ X \in SUBSET MsgIds /\ \A j \in MsgIds \ X : msgs'[j] = msgs[j]
        /\ \A j \in X : /\ ~msgs[j].held \/ (tmo[t].pc # "idle" /\ j = tmo[t].id)
                        /\ TextOK(msgs'[j])
        /\ MsgIds \ {i} = MsgIds \ X /\ i \in X
    BY <1>1
  <2>. HIDE DEF X
  <2>2. /\ HIdle \in HandlerRec
        /\ HIdle.pc # "idle" =>
             /\ HIdle.id \in X \/ (tmo[t].pc # "idle" /\ HIdle.id = tmo[t].id)
             /\ msgs'[HIdle.id].queue = ResolverTimeout /\ msgs'[HIdle.id].held
    BY IdleFacts
  <2>3. /\ Structure'
        /\ \A j \in MsgIds \ X : (tmo[t].pc # "idle" => j # tmo[t].id) => Same(j)
    BY <2>1, <2>2, TimeoutMoves
  <2>. QED
    BY <2>1, <2>3
<1>3. SInv' /\ TokensOK /\ TokensOK'
  BY <1>2, Tokens, TokensNext DEF SInv, Structure
<1>4. \A r \in Requests : TimeoutTokens(t, r) /\ ReadyTokens(i, r)'
  BY <1>1, <1>3 DEF TokensOK
<1>. QED
  BY <1>1, <1>2, <1>3, <1>4, StillIsQuiet

(* An answered dead letter is acknowledged.                                 *)
LEMMA TimeoutAckStep ==
  ASSUME IInv, NEW t \in TimeoutHandlers, TimeoutAck(t)
  PROVE  IInv'
<1>0. /\ SInv /\ TypeOK /\ tmo[t].pc = "ack" /\ tmo' = [tmo EXCEPT ![t] = HIdle]
      /\ msgs' = Ack(msgs, tmo[t].id)
      /\ UNCHANGED <<req, cxscan, runner, res, scans, published, outcomes, disturb, dropped>>
  BY DEF IInv, SInv, TimeoutAck
<1>1. msgs \in Pool /\ tmo \in [TimeoutHandlers -> HandlerRec]
  BY <1>0, TypeParts
<1>2. PICK i \in MsgIds : i = tmo[t].id
  BY <1>0, TimeoutFacts
<1>3. msgs' \in Pool /\ msgs'[i] = NoMsg /\ \A j \in MsgIds \ {i} : msgs'[j] = msgs[j]
  BY <1>0, <1>1, <1>2, AckFacts
<1>4. TypeOK'
  <2>1. tmo' \in [TimeoutHandlers -> HandlerRec]
    BY <1>0, <1>1, IdleFacts
  <2>. QED
    BY <1>0, <1>3, <2>1, TypeParts, TypePartsNext
<1>5. /\ SInv' /\ \A j \in MsgIds \ {i} : Same(j)
      /\ \A r \in Requests : TimeoutTokens(t, r) /\ ReadyTokens(i, r)'
      /\ \A r \in Requests, u \in Runners : GhostQuiet(u, r)
  <2>1. /\ tmo[t].pc # "idle" /\ runner' = runner /\ res' = res
        /\ ~msgs'[i].held /\ TextOK(msgs'[i])
    BY <1>0, <1>3, NoMsgFacts
  <2>. QED
    BY <1>0, <1>2, <1>3, <1>4, <2>1, TimeoutReleases
<1>6. ASSUME NEW r \in Requests
      PROVE  Quiet(i, r) /\ i \notin Pending(r)
  BY <1>0, <1>2, <1>3, <1>5, NoMsgFacts DEF TimeoutTokens, ReadyTokens, Quiet
<1>7. /\ \A r \in Requests, j \in MsgIds : Quiet(j, r)
      /\ \A r \in Requests : \A j \in Pending(r) : j \in Pending(r)'
  <2>1. \A r \in Requests : Pending(r) \subseteq MsgIds
    BY DEF Pending
  <2>. QED
    BY <2>1, <1>5, <1>6, SameIsQuiet
<1>8. Budgets'
  BY <1>0, <1>4, <1>5, <1>7, QuietStep DEF IInv
<1>9. DelegationSurvives'
  BY <1>0, <1>7, SurviveStep DEF IInv
<1>. QED
  BY <1>5, <1>8, <1>9 DEF IInv

(* A time-out handler dies: its dead letter is delivered again.             *)
LEMMA TimeoutCrashStep ==
  ASSUME IInv, NEW t \in TimeoutHandlers, TimeoutCrash(t)
  PROVE  IInv'
<1>0. /\ SInv /\ TypeOK /\ tmo[t].pc # "idle" /\ tmo' = [tmo EXCEPT ![t] = HIdle]
      /\ msgs' = Requeue(msgs, tmo[t].id)
      /\ disturb' = [disturb EXCEPT ![TimeoutMsg(t).scan] = @ + 1]
      /\ UNCHANGED <<req, cxscan, runner, res, scans, published, outcomes, dropped>>
  BY DEF IInv, SInv, TimeoutCrash
<1>1. /\ msgs \in Pool /\ tmo \in [TimeoutHandlers -> HandlerRec] /\ disturb \in [Requests -> Nat]
  BY <1>0, TypeParts
<1>2. PICK r0 \in Requests, i \in MsgIds : r0 = TimeoutMsg(t).scan /\ i = tmo[t].id
  BY <1>0, TimeoutFacts
<1>3. /\ msgs[i] \in Message /\ msgs[i] = TimeoutMsg(t) /\ msgs[i].scan = r0
      /\ TextOK(msgs[i])
  BY <1>0, <1>2, TimeoutFacts
<1>4. /\ msgs' \in Pool /\ ~msgs'[i].held /\ TextOK(msgs'[i])
      /\ msgs'[i].scan = r0 /\ msgs'[i].text = msgs[i].text /\ msgs'[i].ttl = msgs[i].ttl
      /\ \A j \in MsgIds \ {i} : msgs'[j] = msgs[j]
  <2>1. msgs' = Requeue(msgs, i)
    BY <1>0, <1>2
  <2>. QED
    BY <1>1, <1>3, <2>1, RequeueFacts DEF TextOK
<1>5. /\ disturb' \in [Requests -> Nat] /\ disturb'[r0] = disturb[r0] + 1
      /\ \A r \in Requests \ {r0} : disturb'[r] = disturb[r]
  BY <1>0, <1>1, <1>2
<1>6. TypeOK'
  <2>1. tmo' \in [TimeoutHandlers -> HandlerRec]
    BY <1>0, <1>1, IdleFacts
  <2>. QED
    BY <1>0, <1>4, <1>5, <2>1, TypeParts, TypePartsNext
<1>7. /\ SInv' /\ \A j \in MsgIds \ {i} : Same(j)
      /\ \A r \in Requests : TimeoutTokens(t, r) /\ ReadyTokens(i, r)'
      /\ \A r \in Requests, u \in Runners : GhostQuiet(u, r)
  <2>1. runner' = runner /\ res' = res
    BY <1>0
  <2>. QED
    BY <1>0, <1>2, <1>4, <1>6, <2>1, TimeoutReleases
<1>8. ASSUME NEW r \in Requests
      PROVE  (r # r0 => Quiet(i, r)) /\ (i \in Pending(r) => i \in Pending(r)')
  <2>1. r # r0 => i \notin Pending(r)' /\ i \notin Unscanned(r)' /\ \A k \in 0..ScanRetries : i \notin Above(r, k)'
    BY <1>4, <1>7 DEF ReadyTokens
  <2>2. i \in Pending(r) => i \in Pending(r)'
    BY <1>2, <1>3, <1>4, <1>7 DEF TimeoutTokens, ReadyTokens
  <2>. QED
    BY <2>1, <2>2 DEF Quiet
<1>9. /\ \A r \in Requests, j \in MsgIds : (j # i \/ r # r0) => Quiet(j, r)
      /\ \A r \in Requests : \A j \in Pending(r) : j \in Pending(r)'
  <2>1. \A r \in Requests : Pending(r) \subseteq MsgIds
    BY DEF Pending
  <2>. QED
    BY <2>1, <1>7, <1>8, SameIsQuiet
<1>10. Budgets'
  <2>1. UNCHANGED <<req, outcomes, scans, published>> /\ Budgets
    BY <1>0 DEF IInv
  <2>. QED
    BY <1>0, <1>5, <1>6, <1>7, <1>9, <2>1, DisturbMessage
<1>11. DelegationSurvives'
  BY <1>0, <1>9, SurviveStep DEF IInv
<1>. QED
  BY <1>7, <1>10, <1>11 DEF IInv
-----------------------------------------------------------------------------
(***************************************************************************)
(* The steps of the result handlers.                                        *)
(***************************************************************************)

(* The result of a result handler at work.                                  *)
LEMMA ResultFacts ==
  ASSUME SInv, NEW h \in ResultHandlers, res[h].pc # "idle"
  PROVE  /\ res[h].id \in MsgIds /\ ResultMsg(h) \in Message /\ ResultMsg(h) = msgs[res[h].id]
         /\ ResultMsg(h).queue = ResolverComplete /\ ResultMsg(h).held
         /\ ResultMsg(h).scan \in Requests
         /\ ResultMsg(h).text \in Results /\ TextOK(ResultMsg(h))
<1>1. /\ res[h].id \in MsgIds /\ msgs[res[h].id].queue = ResolverComplete /\ msgs[res[h].id].held
  BY DEF SInv, HandlersHold
<1>2. msgs \in Pool
  BY TypeParts DEF SInv
<1>3. msgs[res[h].id] \in Message
  BY <1>1, <1>2, UsedIsMessage
<1>4. TextOK(msgs[res[h].id])
  BY <1>1 DEF SInv, TextsOK
<1>. QED
  BY <1>1, <1>3, <1>4, ResultHas DEF ResultMsg, Message

(* A result handler has done its work and is to acknowledge.                *)
LEMMA ResultDone ==
  ASSUME SInv, TypeOK', NEW h \in ResultHandlers, res[h].pc = "received",
         res' = [res EXCEPT ![h].pc = "ack"], runner' = runner, tmo' = tmo, msgs' = msgs,
         NEW i, i = res[h].id
  PROVE  /\ SInv' /\ i \in MsgIds
         /\ \A j \in MsgIds : j # i => Same(j)
         /\ \A r \in Requests :
              /\ i \in Pending(r) <=> ResultMsg(h).scan = r
              /\ i \notin Pending(r)' /\ Quiet(i, r)
         /\ \A r \in Requests, u \in Runners : GhostQuiet(u, r)
<1>. DEFINE v == [res[h] EXCEPT !.pc = "ack"]
<1>1. /\ v \in HandlerRec /\ v.pc = "ack" /\ v.id = i
      /\ res' = [res EXCEPT ![h] = v] /\ res'[h] = v
  <2>1. res \in [ResultHandlers -> HandlerRec] /\ res[h] \in HandlerRec
    BY TypeParts DEF SInv
  <2>. QED
    BY <2>1 DEF HandlerRec
<1>. HIDE DEF v
<1>2. /\ i \in MsgIds /\ ResultMsg(h) = msgs[i]
      /\ msgs[i].queue = ResolverComplete /\ msgs[i].held
  BY ResultFacts
<1>3. /\ Structure'
      /\ \A j \in MsgIds : j # i => Same(j)
  <2>. DEFINE X == {}
  <2>1. /\ X \in SUBSET MsgIds /\ \A j \in MsgIds \ X : msgs'[j] = msgs[j]
        /\ \A j \in X : /\ ~msgs[j].held \/ (res[h].pc # "idle" /\ j = res[h].id)
                        /\ TextOK(msgs'[j])
        /\ MsgIds = MsgIds \ X
    OBVIOUS
  <2>. HIDE DEF X
  <2>2. v.pc # "idle" =>
          /\ v.id \in X \/ (res[h].pc # "idle" /\ v.id = res[h].id)
          /\ msgs'[v.id].queue = ResolverComplete /\ msgs'[v.id].held
    BY <1>1, <1>2
  <2>3. /\ Structure'
        /\ \A j \in MsgIds \ X : (res[h].pc # "idle" => j # res[h].id) => Same(j)
    BY <1>1, <2>1, <2>2, ResultMoves
  <2>. QED
    BY <2>1, <2>3
<1>4. SInv' /\ TokensOK /\ TokensOK'
  BY <1>3, Tokens, TokensNext DEF SInv, Structure
<1>5. ASSUME NEW r \in Requests
      PROVE  /\ i \in Pending(r) <=> ResultMsg(h).scan = r
             /\ i \notin Pending(r)' /\ Quiet(i, r)
  <2>1. ResultTokens(h, r) /\ ResultTokens(h, r)'
    BY <1>1, <1>4 DEF TokensOK
  <2>2. /\ i \notin Pending(r)' /\ i \notin Unscanned(r)'
        /\ \A k \in 0..ScanRetries : i \notin Above(r, k)'
    BY <2>1, <1>1 DEF ResultTokens
  <2>. QED
    BY <2>1, <2>2 DEF ResultTokens, Quiet
<1>. QED
  BY <1>2, <1>3, <1>4, <1>5, StillIsQuiet

(* The outcome of a request is handled, or its loss is recorded.            *)
LEMMA ResultInner ==
  ASSUME IInv, NEW h \in ResultHandlers, res[h].pc = "received",
         res' = [res EXCEPT ![h].pc = "ack"],
         UNCHANGED <<req, cxscan, msgs, runner, tmo, scans, published, disturb>>,
         NEW x \in {"over", "dispatch", "signature"},
         \/ dropped' = dropped
         \/ dropped' = [dropped EXCEPT ![ResultMsg(h).scan] = @ \cup {x}],
         \/ outcomes' = [outcomes EXCEPT ![ResultMsg(h).scan] = @ + 1]
         \/ outcomes' = outcomes /\ dropped' = [dropped EXCEPT ![ResultMsg(h).scan] = @ \cup {x}]
  PROVE  IInv'
<1>0. SInv /\ TypeOK /\ Budgets
  BY DEF IInv, SInv
<1>1. PICK r0 \in Requests, i \in MsgIds : r0 = ResultMsg(h).scan /\ i = res[h].id
  BY <1>0, ResultFacts
<1>2. /\ dropped' \in [Requests -> SUBSET {"signature", "suppressed", "unpublished", "over", "dispatch"}]
      /\ \A r \in Requests : dropped'[r] = {} => dropped[r] = {}
      /\ dropped' # dropped => dropped'[r0] # {}
      /\ outcomes' = outcomes => dropped'[r0] # {}
  <2>1. /\ dropped \in [Requests -> SUBSET {"signature", "suppressed", "unpublished", "over", "dispatch"}]
        /\ outcomes \in [Requests -> Nat]
    BY <1>0, TypeParts
  <2>2. CASE dropped' = dropped
    <3>1. outcomes' = [outcomes EXCEPT ![r0] = @ + 1] \/ dropped' = [dropped EXCEPT ![r0] = @ \cup {x}]
      BY <1>1, <2>2
    <3>2. outcomes' # outcomes \/ dropped' = [dropped EXCEPT ![r0] = @ \cup {x}]
      <4>1. CASE outcomes' = [outcomes EXCEPT ![r0] = @ + 1]
        <5>1. outcomes'[r0] = outcomes[r0] + 1 /\ outcomes[r0] \in Nat
          BY <2>1, <4>1
        <5>. QED
          BY <5>1
      <4>. QED
        BY <3>1, <4>1
    <3>. QED
      BY <2>1, <2>2, <3>2
  <2>3. CASE dropped' = [dropped EXCEPT ![r0] = @ \cup {x}]
    BY <2>1, <2>3
  <2>. QED
    BY <1>1, <2>2, <2>3
<1>3. /\ outcomes' \in [Requests -> Nat]
      /\ \A r \in Requests \ {r0} : outcomes'[r] = outcomes[r]
      /\ outcomes' = outcomes \/ outcomes'[r0] = outcomes[r0] + 1
      /\ outcomes[r0] \in Nat
  <2>1. outcomes \in [Requests -> Nat]
    BY <1>0, TypeParts
  <2>2. outcomes' = [outcomes EXCEPT ![r0] = @ + 1] \/ outcomes' = outcomes
    BY <1>1
  <2>. QED
    BY <2>1, <2>2
<1>4. TypeOK'
  <2>1. res' \in [ResultHandlers -> HandlerRec]
    BY <1>0, HandlerAcks
  <2>. QED
    BY <1>0, <1>2, <1>3, <2>1, TypeParts, TypePartsNext
<1>5. /\ SInv' /\ i \in MsgIds
      /\ \A j \in MsgIds : j # i => Same(j)
      /\ \A r \in Requests :
           /\ i \in Pending(r) <=> ResultMsg(h).scan = r
           /\ i \notin Pending(r)' /\ Quiet(i, r)
      /\ \A r \in Requests, u \in Runners : GhostQuiet(u, r)
  <2>1. runner' = runner /\ tmo' = tmo /\ msgs' = msgs
    OBVIOUS
  <2>. QED
    BY <1>0, <1>1, <1>4, <2>1, ResultDone
<1>6. \A r \in Requests, j \in MsgIds : Quiet(j, r)
  BY <1>5, SameIsQuiet
<1>7. Budgets'
  <2>0. UNCHANGED <<req, disturb, scans, published>>
    OBVIOUS
  <2>1. ASSUME NEW r \in Requests
        PROVE  /\ ScanFits(r) /\ \A k \in 0..ScanRetries : RetryFits(r, k)
               /\ outcomes'[r] = outcomes[r] => PendingFits(r)
    BY <1>5, <1>6, <2>0, QuietFits
  <2>2. CASE outcomes' = outcomes
    BY <1>0, <1>4, <2>1, <2>2, Accounts
  <2>3. CASE outcomes'[r0] = outcomes[r0] + 1
    <3>1. Due(r0)' + disturb'[r0] = Due(r0) + disturb[r0]
      BY DEF Due
    <3>2. /\ Pending(r0)' \subseteq Pending(r0)
          /\ Ghosts(r0, Active)' \subseteq Ghosts(r0, Active)
      BY <1>5, <1>6, QuietRequest
    <3>3. i \in Pending(r0) /\ Pending(r0)' \subseteq Pending(r0) \ {i}
      BY <1>1, <1>5, <3>2
    <3>4. PendingFits(r0)
      BY <2>3, <3>1, <3>2, <3>3 DEF PendingFits, Fits
    <3>. QED
      BY <1>0, <1>3, <1>4, <2>1, <3>4, Accounts
  <2>. QED
    BY <1>3, <2>2, <2>3
<1>8. DelegationSurvives'
  <2>1. outcomes'[r0] # 0 \/ dropped'[r0] # {}
    BY <1>2, <1>3
  <2>2. ASSUME NEW r \in Requests, r # r0, NEW j \in Pending(r)
        PROVE  j \in Pending(r)'
    BY <2>2, <1>1, <1>5, SameIsQuiet DEF Pending
  <2>3. UNCHANGED req /\ DelegationSurvives
    BY DEF IInv
  <2>. QED
    BY <1>2, <1>3, <2>1, <2>2, <2>3, SurviveStep
<1>. QED
  BY <1>5, <1>7, <1>8 DEF IInv

(* A result is delivered to a result handler.                               *)
LEMMA ResultReceiveStep ==
  ASSUME IInv, NEW h \in ResultHandlers, NEW i \in MsgIds, ResultReceive(h, i)
  PROVE  IInv'
<1>. DEFINE v == [pc |-> "received", id |-> i]
<1>0. /\ SInv /\ TypeOK /\ res[h].pc = "idle" /\ msgs[i].queue = ResolverComplete /\ ~msgs[i].held
      /\ msgs' = Deliver(msgs, i) /\ res' = [res EXCEPT ![h] = v]
      /\ UNCHANGED <<req, cxscan, runner, tmo, scans, published, outcomes, disturb, dropped>>
  BY DEF IInv, SInv, ResultReceive, Ready
<1>1. msgs \in Pool /\ res \in [ResultHandlers -> HandlerRec]
  BY <1>0, TypeParts
<1>2. msgs[i] \in Message
  BY <1>0, <1>1, UsedIsMessage, QueueFacts
<1>3. /\ msgs' \in Pool /\ msgs'[i].held /\ msgs'[i].queue = ResolverComplete
      /\ msgs'[i].scan = msgs[i].scan /\ msgs'[i].text = msgs[i].text /\ msgs'[i].ttl = msgs[i].ttl
      /\ \A j \in MsgIds \ {i} : msgs'[j] = msgs[j]
  BY <1>0, <1>1, <1>2, DeliverFacts
<1>4. msgs[i].text \in Results /\ TextOK(msgs'[i])
  BY <1>0, <1>3, QueueFacts DEF SInv, TextsOK, TextOK
<1>5. /\ v \in HandlerRec /\ v.pc = "received" /\ v.id = i
      /\ res' \in [ResultHandlers -> HandlerRec] /\ res'[h] = v
  BY <1>0, <1>1 DEF HandlerRec
<1>. HIDE DEF v
<1>6. TypeOK'
  BY <1>0, <1>3, <1>5, TypeParts, TypePartsNext
<1>7. /\ Structure'
      /\ \A j \in MsgIds \ {i} : Same(j)
  <2>. DEFINE X == {i}
  <2>1. /\ X \in SUBSET MsgIds /\ \A j \in MsgIds \ X : msgs'[j] = msgs[j]
        /\ \A j \in X : /\ ~msgs[j].held \/ (res[h].pc # "idle" /\ j = res[h].id)
                        /\ TextOK(msgs'[j])
        /\ v.pc # "idle" =>
             /\ v.id \in X \/ (res[h].pc # "idle" /\ v.id = res[h].id)
             /\ msgs'[v.id].queue = ResolverComplete /\ msgs'[v.id].held
        /\ runner' = runner /\ tmo' = tmo
    BY <1>0, <1>3, <1>4, <1>5
  <2>2. MsgIds \ {i} = MsgIds \ X
    OBVIOUS
  <2>. HIDE DEF X
  <2>3. /\ Structure'
        /\ \A j \in MsgIds \ X : (res[h].pc # "idle" => j # res[h].id) => Same(j)
    BY <1>0, <1>5, <2>1, ResultMoves
  <2>. QED
    BY <1>0, <2>2, <2>3
<1>8. SInv' /\ TokensOK /\ TokensOK'
  BY <1>0, <1>6, <1>7, Tokens, TokensNext DEF SInv, Structure
<1>9. ASSUME NEW r \in Requests
      PROVE  Quiet(i, r) /\ (i \in Pending(r) => i \in Pending(r)')
  <2>1. ReadyTokens(i, r) /\ ResultTokens(h, r)'
    BY <1>0, <1>5, <1>8 DEF TokensOK
  <2>2. ResultMsg(h)' = msgs'[i] /\ res'[h].id = i /\ res'[h].pc = "received"
    BY <1>5 DEF ResultMsg
  <2>. QED
    BY <2>1, <2>2, <1>3, <1>4 DEF ReadyTokens, ResultTokens, Quiet, Asks, Results
<1>10. /\ \A r \in Requests, j \in MsgIds : Quiet(j, r)
       /\ \A r \in Requests : \A j \in Pending(r) : j \in Pending(r)'
  <2>1. \A r \in Requests : Pending(r) \subseteq MsgIds
    BY DEF Pending
  <2>. QED
    BY <1>7, <1>9, <2>1, SameIsQuiet
<1>11. \A r \in Requests, u \in Runners : GhostQuiet(u, r)
  BY <1>0, StillIsQuiet
<1>12. Budgets'
  BY <1>0, <1>6, <1>10, <1>11, QuietStep DEF IInv
<1>13. DelegationSurvives'
  BY <1>0, <1>10, SurviveStep DEF IInv
<1>. QED
  BY <1>8, <1>12, <1>13 DEF IInv

(* A result handler lets go of its message.                                 *)
LEMMA ResultReleases ==
  ASSUME SInv, TypeOK', NEW h \in ResultHandlers, res[h].pc # "idle",
         res' = [res EXCEPT ![h] = HIdle], runner' = runner, tmo' = tmo,
         NEW i, i = res[h].id,
         \A j \in MsgIds \ {i} : msgs'[j] = msgs[j], ~msgs'[i].held, TextOK(msgs'[i])
  PROVE  /\ SInv' /\ i \in MsgIds
         /\ \A j \in MsgIds \ {i} : Same(j)
         /\ \A r \in Requests : ResultTokens(h, r) /\ ReadyTokens(i, r)'
         /\ \A r \in Requests, u \in Runners : GhostQuiet(u, r)
<1>1. i \in MsgIds
  BY ResultFacts
<1>2. /\ Structure'
      /\ \A j \in MsgIds \ {i} : Same(j)
  <2>. DEFINE X == {i}
  <2>1. /\ X \in SUBSET MsgIds /\ \A j \in MsgIds \ X : msgs'[j] = msgs[j]
        /\ \A j \in X : /\ ~msgs[j].held \/ (res[h].pc # "idle" /\ j = res[h].id)
                        /\ TextOK(msgs'[j])
        /\ MsgIds \ {i} = MsgIds \ X /\ i \in X
    BY <1>1
  <2>. HIDE DEF X
  <2>2. /\ HIdle \in HandlerRec
        /\ HIdle.pc # "idle" =>
             /\ HIdle.id \in X \/ (res[h].pc # "idle" /\ HIdle.id = res[h].id)
             /\ msgs'[HIdle.id].queue = ResolverComplete /\ msgs'[HIdle.id].held
    BY IdleFacts
  <2>3. /\ Structure'
        /\ \A j \in MsgIds \ X : (res[h].pc # "idle" => j # res[h].id) => Same(j)
    BY <2>1, <2>2, ResultMoves
  <2>. QED
    BY <2>1, <2>3
<1>3. SInv' /\ TokensOK /\ TokensOK'
  BY <1>2, Tokens, TokensNext DEF SInv, Structure
<1>4. \A r \in Requests : ResultTokens(h, r) /\ ReadyTokens(i, r)'
  BY <1>1, <1>3 DEF TokensOK
<1>. QED
  BY <1>1, <1>2, <1>3, <1>4, StillIsQuiet

(* A result that was handled is acknowledged.                               *)
LEMMA ResultAckStep ==
  ASSUME IInv, NEW h \in ResultHandlers, ResultAck(h)
  PROVE  IInv'
<1>0. /\ SInv /\ TypeOK /\ res[h].pc = "ack" /\ res' = [res EXCEPT ![h] = HIdle]
      /\ msgs' = Ack(msgs, res[h].id)
      /\ UNCHANGED <<req, cxscan, runner, tmo, scans, published, outcomes, disturb, dropped>>
  BY DEF IInv, SInv, ResultAck
<1>1. msgs \in Pool /\ res \in [ResultHandlers -> HandlerRec]
  BY <1>0, TypeParts
<1>2. PICK i \in MsgIds : i = res[h].id
  BY <1>0, ResultFacts
<1>3. msgs' \in Pool /\ msgs'[i] = NoMsg /\ \A j \in MsgIds \ {i} : msgs'[j] = msgs[j]
  BY <1>0, <1>1, <1>2, AckFacts
<1>4. TypeOK'
  <2>1. res' \in [ResultHandlers -> HandlerRec]
    BY <1>0, <1>1, IdleFacts
  <2>. QED
    BY <1>0, <1>3, <2>1, TypeParts, TypePartsNext
<1>5. /\ SInv' /\ \A j \in MsgIds \ {i} : Same(j)
      /\ \A r \in Requests : ResultTokens(h, r) /\ ReadyTokens(i, r)'
      /\ \A r \in Requests, u \in Runners : GhostQuiet(u, r)
  <2>1. /\ res[h].pc # "idle" /\ runner' = runner /\ tmo' = tmo
        /\ ~msgs'[i].held /\ TextOK(msgs'[i])
    BY <1>0, <1>3, NoMsgFacts
  <2>. QED
    BY <1>0, <1>2, <1>3, <1>4, <2>1, ResultReleases
<1>6. ASSUME NEW r \in Requests
      PROVE  Quiet(i, r) /\ i \notin Pending(r)
  BY <1>0, <1>2, <1>3, <1>5, NoMsgFacts DEF ResultTokens, ReadyTokens, Quiet
<1>7. /\ \A r \in Requests, j \in MsgIds : Quiet(j, r)
      /\ \A r \in Requests : \A j \in Pending(r) : j \in Pending(r)'
  <2>1. \A r \in Requests : Pending(r) \subseteq MsgIds
    BY DEF Pending
  <2>. QED
    BY <2>1, <1>5, <1>6, SameIsQuiet
<1>8. Budgets'
  BY <1>0, <1>4, <1>5, <1>7, QuietStep DEF IInv
<1>9. DelegationSurvives'
  BY <1>0, <1>7, SurviveStep DEF IInv
<1>. QED
  BY <1>5, <1>8, <1>9 DEF IInv

(* A result handler dies: its result is delivered again.                    *)
LEMMA ResultCrashStep ==
  ASSUME IInv, NEW h \in ResultHandlers, ResultCrash(h)
  PROVE  IInv'
<1>0. /\ SInv /\ TypeOK /\ res[h].pc # "idle" /\ res' = [res EXCEPT ![h] = HIdle]
      /\ msgs' = Requeue(msgs, res[h].id)
      /\ disturb' = [disturb EXCEPT ![ResultMsg(h).scan] = @ + 1]
      /\ UNCHANGED <<req, cxscan, runner, tmo, scans, published, outcomes, dropped>>
  BY DEF IInv, SInv, ResultCrash
<1>1. /\ msgs \in Pool /\ res \in [ResultHandlers -> HandlerRec] /\ disturb \in [Requests -> Nat]
  BY <1>0, TypeParts
<1>2. PICK r0 \in Requests, i \in MsgIds : r0 = ResultMsg(h).scan /\ i = res[h].id
  BY <1>0, ResultFacts
<1>3. /\ msgs[i] \in Message /\ msgs[i] = ResultMsg(h) /\ msgs[i].scan = r0
      /\ TextOK(msgs[i]) /\ msgs[i].text # "rejected"
  BY <1>0, <1>2, ResultFacts DEF Results
<1>4. /\ msgs' \in Pool /\ ~msgs'[i].held /\ TextOK(msgs'[i])
      /\ msgs'[i].scan = r0 /\ msgs'[i].text = msgs[i].text /\ msgs'[i].ttl = msgs[i].ttl
      /\ \A j \in MsgIds \ {i} : msgs'[j] = msgs[j]
  <2>1. msgs' = Requeue(msgs, i)
    BY <1>0, <1>2
  <2>. QED
    BY <1>1, <1>3, <2>1, RequeueFacts DEF TextOK
<1>5. /\ disturb' \in [Requests -> Nat] /\ disturb'[r0] = disturb[r0] + 1
      /\ \A r \in Requests \ {r0} : disturb'[r] = disturb[r]
  BY <1>0, <1>1, <1>2
<1>6. TypeOK'
  <2>1. res' \in [ResultHandlers -> HandlerRec]
    BY <1>0, <1>1, IdleFacts
  <2>. QED
    BY <1>0, <1>4, <1>5, <2>1, TypeParts, TypePartsNext
<1>7. /\ SInv' /\ \A j \in MsgIds \ {i} : Same(j)
      /\ \A r \in Requests : ResultTokens(h, r) /\ ReadyTokens(i, r)'
      /\ \A r \in Requests, u \in Runners : GhostQuiet(u, r)
  <2>1. runner' = runner /\ tmo' = tmo
    BY <1>0
  <2>. QED
    BY <1>0, <1>2, <1>4, <1>6, <2>1, ResultReleases
<1>8. ASSUME NEW r \in Requests
      PROVE  (r # r0 => Quiet(i, r)) /\ (i \in Pending(r) => i \in Pending(r)')
  <2>1. r # r0 => i \notin Pending(r)' /\ i \notin Unscanned(r)' /\ \A k \in 0..ScanRetries : i \notin Above(r, k)'
    BY <1>4, <1>7 DEF ReadyTokens
  <2>2. i \in Pending(r) => i \in Pending(r)'
    BY <1>2, <1>3, <1>4, <1>7 DEF ResultTokens, ReadyTokens
  <2>. QED
    BY <2>1, <2>2 DEF Quiet
<1>9. /\ \A r \in Requests, j \in MsgIds : (j # i \/ r # r0) => Quiet(j, r)
      /\ \A r \in Requests : \A j \in Pending(r) : j \in Pending(r)'
  <2>1. \A r \in Requests : Pending(r) \subseteq MsgIds
    BY DEF Pending
  <2>. QED
    BY <2>1, <1>7, <1>8, SameIsQuiet
<1>10. Budgets'
  <2>1. UNCHANGED <<req, outcomes, scans, published>> /\ Budgets
    BY <1>0 DEF IInv
  <2>. QED
    BY <1>0, <1>5, <1>6, <1>7, <1>9, <2>1, DisturbMessage
<1>11. DelegationSurvives'
  BY <1>0, <1>9, SurviveStep DEF IInv
<1>. QED
  BY <1>7, <1>10, <1>11 DEF IInv
-----------------------------------------------------------------------------
(***************************************************************************)
(* The steps of the server and of the broker.                               *)
(***************************************************************************)

(* A step that touches no message and no handler, and delegates nothing.    *)
LEMMA ServerInner ==
  ASSUME IInv, TypeOK', UNCHANGED <<msgs, runner, tmo, res, scans, published, outcomes, dropped, disturb>>,
         \A r \in Requests : req'[r] = "delegated" <=> req[r] = "delegated"
  PROVE  IInv'
<1>0. SInv /\ TypeOK /\ Budgets
  BY DEF IInv, SInv
<1>1. /\ Structure' /\ \A j \in MsgIds : Same(j)
  <2>. DEFINE X == {}
  <2>1. /\ X \in SUBSET MsgIds /\ \A j \in MsgIds \ X : msgs'[j] = msgs[j]
        /\ \A j \in X : ~msgs[j].held /\ TextOK(msgs'[j])
        /\ MsgIds \ X = MsgIds /\ runner' = runner /\ tmo' = tmo /\ res' = res
    OBVIOUS
  <2>. HIDE DEF X
  <2>2. Structure' /\ \A j \in MsgIds \ X : Same(j)
    BY <1>0, <2>1, PoolMoves
  <2>. QED
    BY <2>1, <2>2
<1>2. SInv'
  BY <1>1 DEF SInv, Structure
<1>3. /\ \A r \in Requests, j \in MsgIds : Quiet(j, r)
      /\ \A r \in Requests : \A j \in Pending(r) : j \in Pending(r)'
  <2>1. \A r \in Requests : Pending(r) \subseteq MsgIds
    BY DEF Pending
  <2>. QED
    BY <2>1, <1>1, SameIsQuiet
<1>4. \A r \in Requests, w \in Runners : GhostQuiet(w, r)
  BY StillIsQuiet
<1>5. Budgets'
  <2>1. ASSUME NEW r \in Requests
        PROVE  PendingFits(r) /\ ScanFits(r) /\ \A k \in 0..ScanRetries : RetryFits(r, k)
    <3>1. /\ Pending(r)' \subseteq Pending(r) /\ Unscanned(r)' \subseteq Unscanned(r)
          /\ \A k \in 0..ScanRetries : Above(r, k)' \subseteq Above(r, k)
          /\ Ghosts(r, Active)' \subseteq Ghosts(r, Active) /\ Ghosts(r, Early)' \subseteq Ghosts(r, Early)
      BY <1>3, <1>4, QuietRequest
    <3>2. Due(r)' + disturb'[r] = Due(r) + disturb[r]
      BY DEF Due
    <3>. QED
      BY <3>1, <3>2 DEF PendingFits, ScanFits, RetryFits, Fits
  <2>. QED
    BY <1>0, <2>1, Accounts
<1>6. DelegationSurvives'
  BY <1>3, SurviveStep DEF IInv
<1>. QED
  BY <1>2, <1>5, <1>6 DEF IInv

(* The server scans without an agent, or gives up.                          *)
LEMMA RequestNotDelegatedStep ==
  ASSUME IInv, NEW r0 \in Requests, RequestNotDelegated(r0)
  PROVE  IInv'
<1>1. TypeOK
  BY DEF IInv, SInv
<1>2. req \in [Requests -> {"none", "delegated", "local", "failed"}]
  BY <1>1, TypeParts
<1>3. PICK x \in {"local", "failed"} : req' = [req EXCEPT ![r0] = x]
  BY DEF RequestNotDelegated
<1>4. /\ req' \in [Requests -> {"none", "delegated", "local", "failed"}]
      /\ \A r \in Requests : req'[r] = "delegated" <=> req[r] = "delegated"
  BY <1>2, <1>3 DEF RequestNotDelegated
<1>5. UNCHANGED <<cxscan, msgs, runner, tmo, res, scans, published, outcomes, dropped, disturb>>
  BY DEF RequestNotDelegated
<1>6. TypeOK'
  BY <1>1, <1>4, <1>5, TypeParts, TypePartsNext
<1>. QED
  BY <1>4, <1>5, <1>6, ServerInner

(* A scan ends in CxOne.                                                    *)
LEMMA ScanEndsStep ==
  ASSUME IInv, NEW r0 \in Requests, ScanEnds(r0)
  PROVE  IInv'
<1>1. TypeOK
  BY DEF IInv, SInv
<1>2. UNCHANGED <<req, msgs, runner, tmo, res, scans, published, outcomes, dropped, disturb>>
  BY DEF ScanEnds
<1>3. cxscan' \in [Requests -> {"none", "executing", "ended"}]
  <2>1. cxscan \in [Requests -> {"none", "executing", "ended"}]
    BY <1>1, TypeParts
  <2>. QED
    BY <2>1 DEF ScanEnds
<1>4. TypeOK'
  BY <1>1, <1>2, <1>3, TypeParts, TypePartsNext
<1>. QED
  BY <1>2, <1>4, ServerInner

(* A request that no agent took is dead-lettered.                           *)
LEMMA RequestExpiresStep ==
  ASSUME IInv, NEW i \in MsgIds, RequestExpires(i)
  PROVE  IInv'
<1>0. /\ SInv /\ TypeOK /\ Budgets /\ msgs[i].queue = ReqQueue /\ ~msgs[i].held
      /\ msgs' = Dead(msgs, i, "expired")
      /\ UNCHANGED <<req, cxscan, runner, tmo, res, scans, published, outcomes, dropped, disturb>>
  BY DEF IInv, SInv, RequestExpires, Ready, Dead
<1>1. msgs \in Pool
  BY <1>0, TypeParts
<1>2. msgs[i] \in Message /\ msgs[i].text = "request"
  BY <1>0, <1>1, UsedIsMessage, QueueFacts DEF SInv, TextsOK, TextOK
<1>3. /\ msgs' \in Pool /\ ~msgs'[i].held /\ msgs'[i].queue = ResolverTimeout
      /\ msgs'[i].scan = msgs[i].scan /\ msgs'[i].text = "expired" /\ msgs'[i].ttl = msgs[i].ttl
      /\ \A j \in MsgIds \ {i} : msgs'[j] = msgs[j]
  BY <1>0, <1>1, <1>2, DeadLetterFacts
<1>4. TypeOK'
  BY <1>0, <1>3, TypeParts, TypePartsNext
<1>5. /\ Structure' /\ \A j \in MsgIds \ {i} : Same(j)
  <2>. DEFINE X == {i}
  <2>1. TextOK(msgs'[i])
    BY <1>3, QueueFacts DEF TextOK
  <2>2. /\ X \in SUBSET MsgIds /\ \A j \in MsgIds \ X : msgs'[j] = msgs[j]
        /\ \A j \in X : ~msgs[j].held /\ TextOK(msgs'[j])
        /\ MsgIds \ X = MsgIds \ {i} /\ runner' = runner /\ tmo' = tmo /\ res' = res
    BY <1>0, <1>3, <2>1
  <2>. HIDE DEF X
  <2>3. Structure' /\ \A j \in MsgIds \ X : Same(j)
    BY <1>0, <2>2, PoolMoves
  <2>. QED
    BY <2>2, <2>3
<1>6. SInv'
  BY <1>4, <1>5 DEF SInv, Structure
<1>7. ASSUME NEW r \in Requests
      PROVE  Quiet(i, r) /\ (i \in Pending(r) => i \in Pending(r)')
  <2>1. ReadyTokens(i, r) /\ ReadyTokens(i, r)'
    BY <1>0, <1>3, <1>6, Tokens, TokensNext DEF TokensOK
  <2>. QED
    BY <1>2, <1>3, <2>1 DEF ReadyTokens, Quiet, Asks
<1>8. /\ \A r \in Requests, j \in MsgIds : Quiet(j, r)
      /\ \A r \in Requests : \A j \in Pending(r) : j \in Pending(r)'
  <2>1. \A r \in Requests : Pending(r) \subseteq MsgIds
    BY DEF Pending
  <2>. QED
    BY <2>1, <1>5, <1>7, SameIsQuiet
<1>9. Budgets'
  <2>1. \A r \in Requests, w \in Runners : GhostQuiet(w, r)
    BY <1>0, StillIsQuiet
  <2>. QED
    BY <1>0, <1>4, <1>8, <2>1, QuietStep
<1>10. DelegationSurvives'
  BY <1>0, <1>8, SurviveStep DEF IInv
<1>. QED
  BY <1>6, <1>9, <1>10 DEF IInv

(* The server delegates a request: from here on it may have one outcome.    *)
LEMMA RequestScanStep ==
  ASSUME IInv, NEW r0 \in Requests, RequestScan(r0)
  PROVE  IInv'
<1>. DEFINE m == Msg(ReqQueue, r0, ScanRetries, "request")
<1>0. /\ SInv /\ TypeOK /\ Budgets /\ req[r0] = "none" /\ Free(msgs) # {}
      /\ msgs' = Publish(msgs, m) /\ req' = [req EXCEPT ![r0] = "delegated"]
      /\ published' = [published EXCEPT ![r0][ScanRetries] = @ + 1]
      /\ UNCHANGED <<cxscan, runner, tmo, res, scans, outcomes, dropped, disturb>>
  BY DEF IInv, SInv, RequestScan
<1>1. ScanRetries \in 0..ScanRetries /\ ScanRetries \in Nat
  BY ResolverAssumption
<1>2. /\ m \in Message /\ ~m.held /\ m.queue = ReqQueue /\ m.scan = r0
      /\ m.text = "request" /\ m.ttl = ScanRetries
  BY <1>1, MsgFacts DEF Asks
<1>. HIDE DEF m
<1>3. PICK n \in MsgIds : /\ msgs[n] = NoMsg /\ msgs' \in Pool /\ msgs'[n] = m
                          /\ \A j \in MsgIds \ {n} : msgs'[j] = msgs[j]
  <2>1. msgs \in Pool
    BY <1>0, TypeParts
  <2>. QED
    BY <1>0, <1>2, <2>1, PublishFacts
<1>4. /\ published' \in [Requests -> [0..ScanRetries -> Nat]]
      /\ published'[r0][ScanRetries] = published[r0][ScanRetries] + 1
      /\ \A k \in 0..ScanRetries : k # ScanRetries => published'[r0][k] = published[r0][k]
      /\ \A r \in Requests \ {r0} : published'[r] = published[r]
  <2>1. published \in [Requests -> [0..ScanRetries -> Nat]]
    BY <1>0, TypeParts
  <2>. QED
    BY <1>0, <1>1, <2>1, PublishedOnce
<1>5. /\ req' \in [Requests -> {"none", "delegated", "local", "failed"}]
      /\ req'[r0] = "delegated" /\ \A r \in Requests \ {r0} : req'[r] = req[r]
  <2>1. req \in [Requests -> {"none", "delegated", "local", "failed"}]
    BY <1>0, TypeParts
  <2>. QED
    BY <1>0, <2>1
<1>6. TypeOK'
  BY <1>0, <1>3, <1>4, <1>5, TypeParts, TypePartsNext
<1>7. /\ Structure' /\ \A j \in MsgIds \ {n} : Same(j)
  <2>. DEFINE X == {n}
  <2>1. TextOK(m)
    BY <1>2, QueueFacts DEF TextOK
  <2>2. /\ X \in SUBSET MsgIds /\ \A j \in MsgIds \ X : msgs'[j] = msgs[j]
        /\ \A j \in X : ~msgs[j].held /\ TextOK(msgs'[j])
        /\ MsgIds \ X = MsgIds \ {n} /\ runner' = runner /\ tmo' = tmo /\ res' = res
    BY <1>0, <1>3, <2>1, NoMsgFacts
  <2>. HIDE DEF X
  <2>3. Structure' /\ \A j \in MsgIds \ X : Same(j)
    BY <1>0, <2>2, PoolMoves
  <2>. QED
    BY <2>2, <2>3
<1>8. SInv'
  BY <1>6, <1>7 DEF SInv, Structure
<1>9. ASSUME NEW r \in Requests
      PROVE  /\ n \in Pending(r)' <=> r = r0
             /\ n \in Unscanned(r)' <=> r = r0
             /\ \A k \in 0..ScanRetries : n \in Above(r, k)' <=> r = r0 /\ ScanRetries > k
             /\ n \notin Pending(r)
  <2>1. ReadyTokens(n, r) /\ ReadyTokens(n, r)'
    BY <1>0, <1>2, <1>3, <1>8, Tokens, TokensNext, NoMsgFacts DEF TokensOK
  <2>. QED
    BY <1>2, <1>3, <2>1, NoMsgFacts DEF ReadyTokens, Asks
<1>10. /\ \A r \in Requests, j \in MsgIds : (j # n \/ r # r0) => Quiet(j, r)
       /\ \A r \in Requests, w \in Runners : GhostQuiet(w, r)
  <2>1. \A r \in Requests : r # r0 => Quiet(n, r)
    BY <1>9 DEF Quiet
  <2>2. \A r \in Requests, w \in Runners : GhostQuiet(w, r)
    BY <1>0, StillIsQuiet
  <2>. QED
    BY <2>1, <2>2, <1>7, SameIsQuiet
<1>11. Budgets'
  <2>1. ASSUME NEW r \in Requests, r # r0
        PROVE  PendingFits(r) /\ ScanFits(r) /\ \A k \in 0..ScanRetries : RetryFits(r, k)
    BY <2>1, <1>0, <1>4, <1>5, <1>10, QuietFits
  <2>2. Due(r0)' + disturb'[r0] = Due(r0) + disturb[r0] + 1
    <3>1. disturb[r0] \in Nat /\ disturb'[r0] = disturb[r0]
      BY <1>0, CountFacts
    <3>. QED
      BY <1>0, <1>5, <3>1 DEF Due
  <2>3. /\ Pending(r0)' \subseteq Pending(r0) \cup {n} /\ Unscanned(r0)' \subseteq Unscanned(r0) \cup {n}
        /\ \A k \in 0..ScanRetries : Above(r0, k)' \subseteq Above(r0, k) \cup {n}
        /\ Ghosts(r0, Active)' \subseteq Ghosts(r0, Active) /\ Ghosts(r0, Early)' \subseteq Ghosts(r0, Early)
    BY <1>10, CountedRange DEF Quiet, GhostQuiet
  <2>4. PendingFits(r0) /\ ScanFits(r0)
    BY <1>0, <2>2, <2>3 DEF PendingFits, ScanFits, Fits
  <2>5. ASSUME NEW k \in 0..ScanRetries
        PROVE  RetryFits(r0, k)
    <3>1. CASE k = ScanRetries
      <4>1. Above(r0, k)' \subseteq Above(r0, k)
        BY <1>1, <1>9, <2>3, <3>1
      <4>. QED
        BY <1>4, <2>2, <3>1, <4>1 DEF RetryFits, Fits
    <3>2. CASE k # ScanRetries
      BY <1>4, <2>2, <2>3, <3>2 DEF RetryFits, Fits
    <3>. QED
      BY <3>1, <3>2
  <2>. QED
    BY <1>0, <1>6, <2>1, <2>4, <2>5, Accounts
<1>12. DelegationSurvives'
  <2>1. Pending(r0)' # {}
    BY <1>9
  <2>2. ASSUME NEW r \in Requests, r # r0, NEW j \in Pending(r)
        PROVE  j \in Pending(r)'
    BY <2>2, <1>7, <1>9, SameIsQuiet DEF Pending
  <2>. QED
    BY <1>0, <1>5, <2>1, <2>2, SurviveStep DEF IInv
<1>. QED
  BY <1>8, <1>11, <1>12 DEF IInv
-----------------------------------------------------------------------------
(***************************************************************************)
(* The invariant, step by step.                                             *)
(***************************************************************************)

(* Nothing is delegated, pending or counted at the start.                   *)
LEMMA InvInit == Init => IInv
<1>. SUFFICES ASSUME Init PROVE IInv
  OBVIOUS
<1>1. TypeOK
  <2>1. /\ msgs \in Pool /\ runner \in [Runners -> RunRec]
        /\ tmo \in [TimeoutHandlers -> HandlerRec] /\ res \in [ResultHandlers -> HandlerRec]
    BY IdleFacts DEF Init, Pool
  <2>2. /\ req \in [Requests -> {"none", "delegated", "local", "failed"}]
        /\ cxscan \in [Requests -> {"none", "executing", "ended"}]
        /\ scans \in [Requests -> Nat] /\ outcomes \in [Requests -> Nat] /\ disturb \in [Requests -> Nat]
        /\ published \in [Requests -> [0..ScanRetries -> Nat]]
        /\ dropped \in [Requests -> SUBSET {"signature", "suppressed", "unpublished", "over", "dispatch"}]
    BY DEF Init
  <2>. QED
    BY <2>1, <2>2, TypeParts
<1>2. /\ \A w \in Runners : ~Busy(w) /\ ~Holds(w) /\ ~runner[w].ghost
      /\ \A t \in TimeoutHandlers : tmo[t].pc = "idle"
      /\ \A h \in ResultHandlers : res[h].pc = "idle"
      /\ \A i \in MsgIds : msgs[i] = NoMsg
  BY DEF Init, Busy, Holds, RunIdle, HIdle
<1>3. SInv
  BY <1>1, <1>2, NoMsgFacts DEF SInv, HandlersHold, Exclusive, TextsOK
<1>4. DelegationSurvives
  BY DEF Init, DelegationSurvives
<1>5. Budgets
  <2>1. SUFFICES ASSUME NEW r \in Requests
                 PROVE  PendingBudget(r) /\ ScanBudget(r) /\ \A k \in 0..ScanRetries : RetryBudget(r, k)
    BY DEF Budgets
  <2>2. /\ Pending(r) = {} /\ Unscanned(r) = {} /\ \A k : Above(r, k) = {}
        /\ Ghosts(r, Active) = {} /\ Ghosts(r, Early) = {}
    BY <1>2, NoMsgFacts DEF Pending, Unscanned, Above, Ghosts
  <2>3. /\ outcomes[r] = 0 /\ scans[r] = 0 /\ disturb[r] = 0 /\ Due(r) = 0
        /\ \A k \in 0..ScanRetries : published[r][k] = 0
    BY DEF Init, Due
  <2>4. Cardinality({}) = 0
    BY FS_EmptySet
  <2>. QED
    BY <2>2, <2>3, <2>4 DEF PendingBudget, ScanBudget, RetryBudget
<1>. QED
  BY <1>3, <1>4, <1>5 DEF IInv

(* The steps of a runner from its delivery to its acknowledgement.          *)
LEMMA RunStepStep ==
  ASSUME IInv, NEW w \in Runners, RunStep(w)
  PROVE  IInv'
<1>0. SInv /\ TypeOK
  BY DEF IInv, SInv
<1>1. ASSUME NEW p \in RunPCs, RunGoes(w, p), runner[w].pc \in Active,
             p \notin {"ack", "nack"}, p \in Early => runner[w].pc \in Early
      PROVE  IInv'
  <2>1. /\ runner' = [runner EXCEPT ![w].pc = p] /\ dropped' = dropped
        /\ UNCHANGED <<req, cxscan, msgs, tmo, res, scans, published, outcomes, disturb>>
    BY <1>1 DEF RunGoes, RunnerOnly
  <2>. QED
    BY <1>1, <2>1, RunnerInner
<1>2. ASSUME NEW p \in {"ack", "nack"}, runner' = [runner EXCEPT ![w].pc = p], runner[w].pc \in Active,
             NEW x \in {"signature", "suppressed", "unpublished"},
             dropped' = [dropped EXCEPT ![runner[w].req] = @ \cup {x}],
             RunnerOnly, msgs' = msgs
      PROVE  IInv'
  <2>1. /\ p \in RunPCs /\ p \notin Early
        /\ UNCHANGED <<req, cxscan, msgs, tmo, res, scans, published, outcomes, disturb>>
    BY <1>2 DEF RunPCs, Early, RunnerOnly
  <2>. QED
    BY <1>2, <2>1, RunnerInner
<1>3. ASSUME RunRaises(w), runner[w].pc \in Active
      PROVE  IInv'
  <2>1. CASE RunGoes(w, "failing")
    BY <1>1, <1>3, <2>1 DEF RunPCs, Early
  <2>2. CASE /\ runner' = [runner EXCEPT ![w].pc = "ack"]
             /\ dropped' = [dropped EXCEPT ![runner[w].req] = @ \cup {"suppressed"}]
             /\ RunnerOnly /\ UNCHANGED msgs
    BY <1>2, <1>3, <2>2
  <2>. QED
    BY <1>3, <2>1, <2>2 DEF RunRaises
<1>4. CASE RunEnter(w)
  BY <1>1, <1>4 DEF RunEnter, RunPCs, Active, Early
<1>5. CASE RunEnterFails(w)
  BY <1>1, <1>5 DEF RunEnterFails, RunPCs, Active, Early
<1>6. CASE RunBadSignature(w)
  BY <1>2, <1>6 DEF RunBadSignature, Active, Early
<1>8. CASE RunFails(w)
  BY <1>3, <1>8 DEF RunFails, Active, Early
<1>9. CASE RunPublishRaises(w)
  <2>1. CASE runner[w].pc = "scanned" /\ RunRaises(w)
    BY <1>3, <2>1 DEF Active, Late
  <2>2. CASE runner[w].pc = "failing" /\ RunGoes(w, "stalled")
    BY <1>1, <2>2 DEF RunPCs, Active, Late, Early
  <2>. QED
    BY <1>9, <2>1, <2>2 DEF RunPublishRaises
<1>. DEFINE last == IF runner[w].pc = "failing" THEN "nack" ELSE "ack"
<1>10. ASSUME runner' = [runner EXCEPT ![w].pc = IF @ = "failing" THEN "nack" ELSE "ack"]
       PROVE  last \in {"ack", "nack"} /\ runner' = [runner EXCEPT ![w].pc = last]
  <2>1. runner \in [Runners -> RunRec]
    BY <1>0, TypeParts
  <2>. QED
    BY <1>10, <2>1
<1>. HIDE DEF last
<1>11. CASE RunPublishRefused(w)
  <2>1. /\ runner[w].pc \in Active /\ msgs' = msgs /\ RunnerOnly
        /\ runner' = [runner EXCEPT ![w].pc = IF @ = "failing" THEN "nack" ELSE "ack"]
        /\ dropped' = [dropped EXCEPT ![runner[w].req] = @ \cup {"unpublished"}]
    BY <1>11 DEF RunPublishRefused, Active, Late
  <2>2. last \in {"ack", "nack"} /\ runner' = [runner EXCEPT ![w].pc = last]
    BY <1>10, <2>1
  <2>. QED
    BY <1>2, <2>1, <2>2
<1>12. ASSUME runner[w].pc \in Late, Free(msgs) # {}, NEW x \in Results, NEW p \in {"ack", "nack"},
              msgs' = Publish(msgs, Msg(ResolverComplete, runner[w].req, 0, x)),
              runner' = [runner EXCEPT ![w].pc = p], RunnerOnly, dropped' = dropped
       PROVE  IInv'
  <2>. DEFINE m == Msg(ResolverComplete, runner[w].req, 0, x)
  <2>1. runner[w].req \in Requests
    BY <1>0, <1>12 DEF SInv, HandlersHold, Busy, Late
  <2>2. 0 \in 0..ScanRetries
    BY ResolverAssumption
  <2>3. /\ m \in Message /\ ~m.held /\ m.queue = ResolverComplete /\ m.scan = runner[w].req /\ m.text = x
    BY <2>1, <2>2, MsgFacts
  <2>4. msgs' = Publish(msgs, m)
    BY <1>12
  <2>. HIDE DEF m
  <2>5. UNCHANGED <<req, cxscan, tmo, res, scans, published, outcomes, disturb, dropped>>
    BY <1>12 DEF RunnerOnly
  <2>. QED
    BY <1>12, <2>3, <2>4, <2>5, RunnerAnswers
<1>13. CASE RunPublish(w)
  <2>. DEFINE x == IF runner[w].rc = 0 THEN "done" ELSE "soft"
  <2>1. /\ runner[w].pc \in Late /\ Free(msgs) # {} /\ RunnerOnly /\ dropped' = dropped
        /\ msgs' = Publish(msgs, Msg(ResolverComplete, runner[w].req, 0, x))
        /\ runner' = [runner EXCEPT ![w].pc = "ack"] /\ x \in Results
    BY <1>13 DEF RunPublish, Late, Results
  <2>. HIDE DEF x
  <2>. QED
    BY <1>12, <2>1
<1>14. CASE RunFailureResponse(w)
  <2>1. /\ runner[w].pc \in Late /\ Free(msgs) # {} /\ RunnerOnly /\ dropped' = dropped
        /\ msgs' = Publish(msgs, Msg(ResolverComplete, runner[w].req, 0, "hard"))
        /\ runner' = [runner EXCEPT ![w].pc = "nack"] /\ "hard" \in Results
    BY <1>14 DEF RunFailureResponse, Late, Results
  <2>. QED
    BY <1>12, <2>1
<1>15. CASE RunScan(w)
  BY <1>15, RunScanStep
<1>16. CASE RunCleanupFails(w)
  BY <1>16, RunCleanupStep
<1>17. CASE RunAck(w)
  BY <1>17, RunAckStep
<1>. QED
  BY <1>4, <1>5, <1>6, <1>8, <1>9, <1>11, <1>13, <1>14, <1>15, <1>16, <1>17 DEF RunStep

(* A runner dies, or its acknowledgement is late.                           *)
LEMMA RunFaultStep ==
  ASSUME IInv, NEW w \in Runners, RunCrash(w) \/ RunAckTimeout(w)
  PROVE  IInv'
<1>0. TypeOK
  BY DEF IInv, SInv
<1>1. runner \in [Runners -> RunRec] /\ runner[w] \in RunRec
  BY <1>0, TypeParts
<1>2. CASE RunCrash(w)
  <2>1. /\ Busy(w) /\ runner' = [runner EXCEPT ![w] = RunIdle]
        /\ msgs' = IF runner[w].ghost THEN msgs ELSE Requeue(msgs, runner[w].id)
        /\ disturb' = [disturb EXCEPT ![runner[w].req] = @ + 1]
        /\ UNCHANGED <<req, cxscan, tmo, res, scans, published, outcomes, dropped>>
    BY <1>2 DEF RunCrash, Busy
  <2>. QED
    BY <2>1, IdleFacts, RunnerDisturbed
<1>3. CASE RunAckTimeout(w)
  <2>1. /\ Busy(w) /\ ~runner[w].ghost
        /\ msgs' = IF runner[w].ghost THEN msgs ELSE Requeue(msgs, runner[w].id)
        /\ disturb' = [disturb EXCEPT ![runner[w].req] = @ + 1]
        /\ UNCHANGED <<req, cxscan, tmo, res, scans, published, outcomes, dropped>>
    BY <1>3 DEF RunAckTimeout, Busy
  <2>2. CASE runner[w].pc = "stalled"
    <3>1. runner' = [runner EXCEPT ![w] = RunIdle]
      BY <1>3, <2>2 DEF RunAckTimeout
    <3>. QED
      BY <2>1, <3>1, IdleFacts, RunnerDisturbed
  <2>3. CASE runner[w].pc # "stalled"
    <3>. DEFINE v == [runner[w] EXCEPT !.ghost = TRUE]
    <3>1. /\ v \in RunRec /\ v.ghost /\ v.pc = runner[w].pc /\ v.req = runner[w].req
      BY <1>1 DEF RunRec
    <3>2. runner' = [runner EXCEPT ![w] = v]
      BY <1>1, <1>3, <2>3 DEF RunAckTimeout
    <3>. HIDE DEF v
    <3>. QED
      BY <2>1, <3>1, <3>2, RunnerDisturbed
  <2>. QED
    BY <2>2, <2>3
<1>. QED
  BY <1>2, <1>3

(* The steps of a time-out handler.                                         *)
LEMMA TimeoutStepStep ==
  ASSUME IInv, NEW t \in TimeoutHandlers, TimeoutStep(t)
  PROVE  IInv'
<1>1. CASE TimeoutIgnore(t)
  BY <1>1, TimeoutInner DEF TimeoutIgnore
<1>2. CASE TimeoutFails(t)
  BY <1>2, TimeoutInner DEF TimeoutFails
<1>3. CASE TimeoutBadSignature(t)
  BY <1>3, TimeoutInner DEF TimeoutBadSignature
<1>4. CASE TimeoutResubmit(t)
  BY <1>4, TimeoutResubmitStep
<1>5. CASE TimeoutFailure(t)
  BY <1>5, TimeoutFailureStep
<1>6. CASE TimeoutAck(t)
  BY <1>6, TimeoutAckStep
<1>. QED
  BY <1>1, <1>2, <1>3, <1>4, <1>5, <1>6 DEF TimeoutStep

(* The steps of a result handler.                                           *)
LEMMA ResultStepStep ==
  ASSUME IInv, NEW h \in ResultHandlers, ResultStep(h)
  PROVE  IInv'
<1>1. CASE ResultHandle(h)
  BY <1>1, ResultInner DEF ResultHandle, ResultEnds
<1>2. CASE ResultScanOver(h)
  BY <1>2, ResultInner DEF ResultScanOver, ResultEnds
<1>3. CASE ResultFails(h)
  BY <1>3, ResultInner DEF ResultFails
<1>4. CASE ResultBadSignature(h)
  BY <1>4, ResultInner DEF ResultBadSignature
<1>5. CASE ResultAck(h)
  BY <1>5, ResultAckStep
<1>. QED
  BY <1>1, <1>2, <1>3, <1>4, <1>5 DEF ResultStep

(* Every step of the delegation keeps the invariant.                        *)
LEMMA InvNext == IInv /\ [Next]_vars => IInv'
<1>. SUFFICES ASSUME IInv, [Next]_vars PROVE IInv'
  OBVIOUS
<1>1. CASE \E r \in Requests : RequestScan(r) \/ RequestNotDelegated(r) \/ ScanEnds(r)
  BY <1>1, RequestScanStep, RequestNotDelegatedStep, ScanEndsStep
<1>2. CASE \E i \in MsgIds :
             \/ RequestExpires(i)
             \/ \E w \in Runners : RunReceive(w, i)
             \/ \E t \in TimeoutHandlers : TimeoutReceive(t, i)
             \/ \E h \in ResultHandlers : ResultReceive(h, i)
  BY <1>2, RequestExpiresStep, RunReceiveStep, TimeoutReceiveStep, ResultReceiveStep
<1>3. CASE \E w \in Runners : RunStep(w) \/ RunCrash(w) \/ RunAckTimeout(w)
  BY <1>3, RunStepStep, RunFaultStep
<1>4. CASE \E t \in TimeoutHandlers : TimeoutStep(t) \/ TimeoutCrash(t)
  BY <1>4, TimeoutStepStep, TimeoutCrashStep
<1>5. CASE \E h \in ResultHandlers : ResultStep(h) \/ ResultCrash(h)
  BY <1>5, ResultStepStep, ResultCrashStep
<1>6. CASE UNCHANGED vars
  <2>1. UNCHANGED <<req, cxscan, msgs, runner, tmo, res, scans, published, outcomes, dropped, disturb>>
    BY <1>6 DEF vars
  <2>2. TypeOK'
    BY <2>1, TypeParts, TypePartsNext DEF IInv, SInv
  <2>. QED
    BY <2>1, <2>2, ServerInner
<1>. QED
  BY <1>1, <1>2, <1>3, <1>4, <1>5, <1>6 DEF Next
-----------------------------------------------------------------------------
(* The inductive invariant of a delegation: every handler at work holds its *)
(* own message, of the queue it consumes, and what a request may still      *)
(* become is within what was asked for and disturbed.                       *)
THEOREM ResolverInvariant == Spec => []IInv
BY InvInit, InvNext, PTL DEF Spec

(* The messages, handlers and counters of a delegation have their types for *)
(* any number of requests, handlers and retries: x-remaining-retries stays  *)
(* within scan-retries and no message leaves the queues of the delegation.  *)
THEOREM ResolverTypes == Spec => []TypeOK
<1>1. IInv => TypeOK
  BY DEF IInv, SInv
<1>. QED
  BY <1>1, ResolverInvariant, PTL

(* However runners, time-outs and results interleave, and whoever dies, a   *)
(* request that was delegated is pending until it has its outcome or its    *)
(* loss is recorded.                                                        *)
THEOREM DelegationsSurvive == Spec => []DelegationSurvives
<1>1. IInv => DelegationSurvives
  BY DEF IInv
<1>. QED
  BY <1>1, ResolverInvariant, PTL

(* A request has one outcome and one scan, and at most one more of each for *)
(* each redelivery and each failed clean-up: the ghosts of late             *)
(* acknowledgements are accounted for.                                      *)
THEOREM OutcomesBounded == Spec => []OutcomeBound
<1>1. ASSUME IInv PROVE OutcomeBound
  <2>1. TypeOK /\ Budgets
    BY <1>1 DEF IInv, SInv
  <2>2. SUFFICES ASSUME NEW r \in Requests
                 PROVE  /\ Cardinality(Pending(r)) + outcomes[r] <= 1 + disturb[r]
                        /\ scans[r] <= 1 + disturb[r]
    BY DEF OutcomeBound
  <2>3. /\ Cardinality(Pending(r)) \in Nat /\ Cardinality(Ghosts(r, Active)) \in Nat
        /\ Cardinality(Unscanned(r)) \in Nat /\ Cardinality(Ghosts(r, Early)) \in Nat
        /\ outcomes[r] \in Nat /\ scans[r] \in Nat /\ disturb[r] \in Nat
    BY <2>1, CountFacts, FS_CardinalityType
  <2>4. /\ Cardinality(Pending(r)) + Cardinality(Ghosts(r, Active)) + outcomes[r] <= Due(r) + disturb[r]
        /\ Cardinality(Unscanned(r)) + Cardinality(Ghosts(r, Early)) + scans[r] <= Due(r) + disturb[r]
    BY <2>1 DEF Budgets, PendingBudget, ScanBudget
  <2>5. Due(r) \in {0, 1}
    BY DEF Due
  <2>. QED
    BY <2>3, <2>4, <2>5
<1>2. IInv => OutcomeBound
  BY <1>1
<1>. QED
  BY <1>2, ResolverInvariant, PTL

(* For any scan-retries: a request is published once with each number of    *)
(* retries left, and once more for each disturbance, so resubmission ends.  *)
THEOREM RetriesBounded == Spec => []RetryBound
<1>1. ASSUME IInv PROVE RetryBound
  <2>1. TypeOK /\ Budgets
    BY <1>1 DEF IInv, SInv
  <2>2. SUFFICES ASSUME NEW r \in Requests, NEW n \in 0..ScanRetries
                 PROVE  published[r][n] <= 1 + disturb[r]
    BY DEF RetryBound
  <2>3. /\ Cardinality(Above(r, n)) \in Nat /\ published[r][n] \in Nat /\ disturb[r] \in Nat
    BY <2>1, CountFacts, FS_CardinalityType
  <2>4. Cardinality(Above(r, n)) + published[r][n] <= Due(r) + disturb[r]
    BY <2>1 DEF Budgets, RetryBudget
  <2>5. Due(r) \in {0, 1}
    BY DEF Due
  <2>. QED
    BY <2>3, <2>4, <2>5
<1>2. IInv => RetryBound
  BY <1>1
<1>. QED
  BY <1>2, ResolverInvariant, PTL
=============================================================================

-------------------------- MODULE TaskManagerProofs --------------------------
(***************************************************************************)
(* Proofs about TaskManager, for any coroutines: the list of monitored      *)
(* futures is exactly the unfinished background work whenever the request   *)
(* thread is not inside in_background, a callback finds its future there,   *)
(* and a worker that exits gracefully loses nothing.                        *)
(***************************************************************************)
EXTENDS TaskManager, TLAPS

(* The steps of in_background, all under the lock.                          *)
InBackground == {"locked", "scheduled", "append", "deadlock"}

Held(t) == loop.pc # "run" /\ loop.task = t

(* Who owns the lock, and which steps it covers.                            *)
LockInv ==
  /\ lock = "web" <=> web.pc \in InBackground
  /\ lock = "loop" <=> loop.pc = "remove"

(* The coroutine the request thread is concerned with.  A future that ends  *)
(* before it is appended has its callback waiting for the lock.             *)
WebInv ==
  /\ web.pc \in InBackground => web.task \in Webhooks
  /\ web.pc = "locked" => task[web.task] = "new"
  /\ web.pc \in {"scheduled", "append", "deadlock"} => task[web.task] # "new"
  /\ web.pc \in {"locked", "scheduled", "deadlock"} => web.task \notin registered
  /\ web.pc = "append" => web.task \in registered /\ (task[web.task] = "done" => Held(web.task))
  /\ web.pc = "foreground" => web.task \in Kickoffs
  /\ \A t \in Kickoffs : task[t] \in {"queued", "running"} => web.pc = "foreground" /\ web.task = t

(* The coroutine whose callback the loop runs.                              *)
LoopInv == loop.pc # "run" => loop.task \in registered /\ task[loop.task] = "done"

(* A future has its callback from registration on; it is in the list from   *)
(* the append until its callback has removed it.                            *)
ListInv ==
  \A t \in Webhooks :
    /\ t \in registered => task[t] # "new"
    /\ task[t] # "new" => t \in registered \/ (web.task = t /\ web.pc \in {"scheduled", "deadlock"})
    /\ t \in monitored <=> /\ t \in registered
                           /\ ~(web.pc = "append" /\ web.task = t)
                           /\ task[t] # "done" \/ Held(t)

(* A worker exits with an empty list, from the request thread.              *)
ExitInv == worker = "exited" => web.pc = "exiting" /\ monitored = {}

IInv == TypeOK /\ LockInv /\ WebInv /\ LoopInv /\ ListInv /\ ExitInv

(* The invariant holds at the start.                                        *)
LEMMA InitIInv == Init => IInv
BY TaskAssumption DEF Init, IInv, TypeOK, LockInv, WebInv, LoopInv, ListInv, ExitInv, Running, WebIdle,
   InBackground, Held, Tasks

(* in_background: taking the lock, scheduling, registering, appending.      *)
LEMMA WebBackground ==
  ASSUME IInv,
         Schedule \/ AddDoneCallback \/ AddDoneCallbackLate \/ Append \/ \E t \in Tasks : Lock(t)
  PROVE  IInv'
<1>. USE TaskAssumption DEF IInv, TypeOK, LockInv, WebInv, LoopInv, ListInv, ExitInv, InBackground,
                            Held, Tasks
<1>1. CASE \E t \in Tasks : Lock(t)
  BY <1>1 DEF Lock
<1>2. CASE Schedule
  BY <1>2 DEF Schedule
<1>3. CASE AddDoneCallback
  BY <1>3 DEF AddDoneCallback
<1>4. CASE AddDoneCallbackLate
  BY <1>4 DEF AddDoneCallbackLate
<1>5. CASE Append
  <2>1. TypeOK' /\ LockInv' /\ LoopInv' /\ ExitInv'
    BY <1>5 DEF Append, WebIdle
  <2>2. WebInv'
    BY <1>5 DEF Append, WebIdle
  <2>3. ListInv'
    BY <1>5 DEF Append, WebIdle
  <2>. QED
    BY <2>1, <2>2, <2>3
<1>. HIDE DEF IInv
<1>. QED
  BY <1>1, <1>2, <1>3, <1>4, <1>5

(* in_foreground, the exit and the abort.                                   *)
LEMMA WebOther ==
  ASSUME IInv,
         \/ ForegroundResult \/ WaitForExit \/ BeginExit \/ WorkerTimeout
         \/ \E t \in Tasks : Foreground(t)
  PROVE  IInv'
<1>. USE TaskAssumption DEF IInv, TypeOK, LockInv, WebInv, LoopInv, ListInv, ExitInv, InBackground,
                            Held, Tasks
<1>1. CASE \E t \in Tasks : Foreground(t)
  BY <1>1 DEF Foreground
<1>2. CASE ForegroundResult
  BY <1>2 DEF ForegroundResult, WebIdle
<1>3. CASE WaitForExit
  BY <1>3 DEF WaitForExit, Drained
<1>4. CASE BeginExit
  BY <1>4 DEF BeginExit
<1>5. CASE WorkerTimeout
  BY <1>5 DEF WorkerTimeout
<1>. HIDE DEF IInv
<1>. QED
  BY <1>1, <1>2, <1>3, <1>4, <1>5

(* The event loop: coroutines start and end, callbacks run.                 *)
LEMMA LoopPreserves ==
  ASSUME IInv, LoopStep
  PROVE  IInv'
<1>. USE TaskAssumption DEF IInv, TypeOK, LockInv, WebInv, LoopInv, ListInv, ExitInv, InBackground,
                            Held, Tasks
<1>1. CASE CallbackLock
  BY <1>1 DEF CallbackLock
<1>2. CASE CallbackRemove
  BY <1>2 DEF CallbackRemove, Running
<1>3. ASSUME NEW t \in Tasks, TaskStarts(t)
      PROVE  IInv'
  BY <1>3 DEF TaskStarts, Ended
<1>4. ASSUME NEW t \in Tasks, TaskEnds(t)
      PROVE  IInv'
  BY <1>4 DEF TaskEnds, Ended
<1>. HIDE DEF IInv
<1>. QED
  BY <1>1, <1>2, <1>3, <1>4 DEF LoopStep

(* The inductive invariant of the worker.                                   *)
THEOREM WorkerInvariant == Spec => []IInv
<1>1. IInv /\ [Next]_vars => IInv'
  <2>1. SUFFICES ASSUME IInv, [Next]_vars
                 PROVE  IInv'
    OBVIOUS
  <2>2. CASE UNCHANGED vars
    BY <2>1, <2>2 DEF vars, IInv, TypeOK, LockInv, WebInv, LoopInv, ListInv, ExitInv, Held
  <2>3. CASE Next
    BY <2>1, <2>3, WebBackground, WebOther, LoopPreserves DEF Next, WebStep
  <2>. QED
    BY <2>1, <2>2, <2>3
<1>. QED
  BY InitIInv, <1>1, PTL DEF Spec

(* __callback finds its future in the list, and between requests the list   *)
(* is exactly the background work that has not ended or whose callback has  *)
(* not run, although coroutines end at any moment of in_background.         *)
THEOREM ListAlwaysExact == Spec => []MonitorInv
<1>1. IInv => MonitorInv
  <2>. SUFFICES ASSUME IInv
                PROVE  MonitorInv
    OBVIOUS
  <2>1. CallbackFindsFuture
    BY DEF IInv, TypeOK, LockInv, LoopInv, ListInv, InBackground, Held, CallbackFindsFuture
  <2>2. ListIsExact
    BY DEF IInv, TypeOK, LoopInv, ListInv, Held, ListIsExact, Tasks
  <2>. QED
    BY <2>1, <2>2 DEF IInv, MonitorInv
<1>. QED
  BY <1>1, WorkerInvariant, PTL

(* wait_for_exit returns only when every coroutine the worker has taken,    *)
(* in the background or the foreground, has ended.                          *)
THEOREM GracefulExit == Spec => []ExitLosesNothing
<1>1. IInv => ExitLosesNothing
  BY DEF IInv, TypeOK, WebInv, ListInv, ExitInv, ExitLosesNothing, Tasks
<1>. QED
  BY <1>1, WorkerInvariant, PTL
=============================================================================

----------------------------- MODULE TaskManager -----------------------------
(***************************************************************************)
(* One gunicorn worker: its request thread hands coroutines to an event     *)
(* loop in another thread and keeps the futures of the background ones in a *)
(* list, which wait_for_exit drains when the worker is recycled.            *)
(* (task_management/__init__.py, wsgi.py, docker/gunicorn.conf.py.)         *)
(***************************************************************************)
EXTENDS Naturals

CONSTANTS Webhooks,   \* coroutines given to in_background
          Kickoffs,   \* coroutines given to in_foreground
          Instant,    \* those that end without awaiting anything
          NoTask

Tasks == Webhooks \cup Kickoffs

ASSUME TaskAssumption ==
  Webhooks \cap Kickoffs = {} /\ Instant \subseteq Tasks /\ NoTask \notin Tasks

VARIABLES
  task,       \* progress of each coroutine
  registered, \* futures that have __callback as their done callback
  monitored,  \* TaskManager.__monitored
  lock,       \* owner of TaskManager.__monitor_lock
  web, loop,  \* the request thread and the thread of the event loop
  worker      \* the process

vars == <<task, registered, monitored, lock, web, loop, worker>>

(* Types: in particular only background futures are monitored.              *)
TypeOK ==
  /\ task \in [Tasks -> {"new", "queued", "running", "done"}]
  /\ registered \subseteq Webhooks /\ monitored \subseteq Webhooks
  /\ lock \in {"free", "web", "loop"}
  /\ web \in [pc : {"idle", "locked", "scheduled", "append", "deadlock", "foreground", "exiting"},
              task : Tasks \cup {NoTask}]
  /\ loop \in [pc : {"run", "callback", "remove"}, task : Tasks \cup {NoTask}]
  /\ worker \in {"up", "exited", "killed"}

Running == [pc |-> "run", task |-> NoTask]
WebIdle == [pc |-> "idle", task |-> NoTask]

Init ==
  /\ task = [t \in Tasks |-> "new"]
  /\ registered = {} /\ monitored = {} /\ lock = "free"
  /\ web = WebIdle /\ loop = Running /\ worker = "up"
-----------------------------------------------------------------------------
(***************************************************************************)
(* in_background, under the lock.                                           *)
(***************************************************************************)
Lock(t) ==
  /\ worker = "up" /\ web.pc = "idle" /\ t \in Webhooks /\ task[t] = "new"
  /\ lock = "free"
  /\ lock' = "web" /\ web' = [pc |-> "locked", task |-> t]
  /\ UNCHANGED <<task, registered, monitored, loop, worker>>

Schedule ==
  /\ worker = "up" /\ web.pc = "locked"
  /\ task' = [task EXCEPT ![web.task] = "queued"]
  /\ web' = [web EXCEPT !.pc = "scheduled"]
  /\ UNCHANGED <<registered, monitored, lock, loop, worker>>

AddDoneCallback_Unlocks ==
  /\ worker = "up" /\ web.pc = "scheduled" /\ task[web.task] # "done"
  /\ registered' = registered \cup {web.task}
  /\ lock' = "free" /\ web' = [web EXCEPT !.pc = "append"]
  /\ UNCHANGED <<task, monitored, loop, worker>>

AddDoneCallback ==
  /\ worker = "up" /\ web.pc = "scheduled" /\ task[web.task] # "done"
  /\ registered' = registered \cup {web.task}
  /\ web' = [web EXCEPT !.pc = "append"]
  /\ UNCHANGED <<task, monitored, lock, loop, worker>>

(* add_done_callback of a future that is done calls __callback at once, in  *)
(* the thread that holds the lock, which is not reentrant.                  *)
AddDoneCallbackLate ==
  /\ worker = "up" /\ web.pc = "scheduled" /\ task[web.task] = "done"
  /\ web' = [web EXCEPT !.pc = "deadlock"]
  /\ UNCHANGED <<task, registered, monitored, lock, loop, worker>>

Append ==
  /\ worker = "up" /\ web.pc = "append"
  /\ monitored' = monitored \cup {web.task}
  /\ lock' = "free" /\ web' = WebIdle
  /\ UNCHANGED <<task, registered, loop, worker>>

(***************************************************************************)
(* in_foreground: the request thread waits for the result.                  *)
(***************************************************************************)
Foreground(t) ==
  /\ worker = "up" /\ web.pc = "idle" /\ t \in Kickoffs /\ task[t] = "new"
  /\ task' = [task EXCEPT ![t] = "queued"]
  /\ web' = [pc |-> "foreground", task |-> t]
  /\ UNCHANGED <<registered, monitored, lock, loop, worker>>

ForegroundResult ==
  /\ worker = "up" /\ web.pc = "foreground" /\ task[web.task] = "done"
  /\ web' = WebIdle
  /\ UNCHANGED <<task, registered, monitored, lock, loop, worker>>
-----------------------------------------------------------------------------
(***************************************************************************)
(* The event loop (external) runs one step of one coroutine at a time; a    *)
(* coroutine that ends runs the done callbacks in this thread.              *)
(***************************************************************************)
Ended(t) ==
  /\ task' = [task EXCEPT ![t] = "done"]
  /\ loop' = IF t \in registered THEN [pc |-> "callback", task |-> t] ELSE loop

TaskStarts(t) ==
  /\ worker = "up" /\ loop.pc = "run" /\ task[t] = "queued"
  /\ IF t \in Instant THEN Ended(t) ELSE task' = [task EXCEPT ![t] = "running"] /\ UNCHANGED loop
  /\ UNCHANGED <<registered, monitored, lock, web, worker>>

TaskEnds(t) ==
  /\ worker = "up" /\ loop.pc = "run" /\ task[t] = "running"
  /\ Ended(t)
  /\ UNCHANGED <<registered, monitored, lock, web, worker>>

(***************************************************************************)
(* __callback, in the thread of the loop.                                   *)
(***************************************************************************)
CallbackLock ==
  /\ worker = "up" /\ loop.pc = "callback" /\ lock = "free"
  /\ lock' = "loop" /\ loop' = [loop EXCEPT !.pc = "remove"]
  /\ UNCHANGED <<task, registered, monitored, web, worker>>

CallbackRemove_KeepsLock ==
  /\ worker = "up" /\ loop.pc = "remove"
  /\ monitored' = monitored \ {loop.task}
  /\ loop' = Running
  /\ UNCHANGED <<task, registered, lock, web, worker>>

CallbackRemove ==
  /\ worker = "up" /\ loop.pc = "remove"
  /\ monitored' = monitored \ {loop.task}
  /\ lock' = "free" /\ loop' = Running
  /\ UNCHANGED <<task, registered, web, worker>>
-----------------------------------------------------------------------------
(***************************************************************************)
(* worker_exit, after max_requests or a signal, in the request thread; and  *)
(* gunicorn's (external) abort of a worker whose request thread has not     *)
(* been heard of for timeout seconds.                                       *)
(***************************************************************************)
BeginExit ==
  /\ worker = "up" /\ web.pc = "idle"
  /\ web' = [web EXCEPT !.pc = "exiting"]
  /\ UNCHANGED <<task, registered, monitored, lock, loop, worker>>

Drained_LockOnly == lock = "free"

Drained == lock = "free" /\ monitored = {}

WaitForExit ==
  /\ worker = "up" /\ web.pc = "exiting" /\ Drained
  /\ worker' = "exited"
  /\ UNCHANGED <<task, registered, monitored, lock, web, loop>>

WorkerTimeout ==
  /\ worker = "up" /\ web.pc \in {"foreground", "deadlock", "exiting"}
  /\ worker' = "killed"
  /\ UNCHANGED <<task, registered, monitored, lock, web, loop>>
-----------------------------------------------------------------------------
WebStep ==
  \/ Schedule \/ AddDoneCallback \/ AddDoneCallbackLate \/ Append \/ ForegroundResult \/ WaitForExit

LoopStep ==
  CallbackLock \/ CallbackRemove \/ \E t \in Tasks : TaskStarts(t) \/ TaskEnds(t)

Next ==
  \/ WebStep \/ LoopStep \/ BeginExit \/ WorkerTimeout
  \/ \E t \in Tasks : Lock(t) \/ Foreground(t)

Spec == Init /\ [][Next]_vars

(* Threads are scheduled, what coroutines await comes, and gunicorn aborts  *)
(* a worker that stays silent.  Nothing makes a request arrive or the       *)
(* worker exit.                                                             *)
FairSpec ==
  /\ Spec
  /\ WF_vars(WebStep) /\ WF_vars(LoopStep)
  /\ \A t \in Tasks : WF_vars(TaskEnds(t))
  /\ WF_vars(web.pc = "deadlock" /\ WorkerTimeout)
-----------------------------------------------------------------------------
(* __callback finds its future in the list (list.remove would raise): the   *)
(* lock of in_background covers the registration and the append, though the *)
(* coroutine may end at any moment in between.                              *)
CallbackFindsFuture == loop.pc = "remove" => loop.task \in monitored

(* Every webhook that was answered is in the list until it has ended and    *)
(* its callback has run, so a drained list means that all work is done, and *)
(* a future whose callback has run does not stay in it and block the exit.  *)
ListIsExact ==
  web.pc \in {"idle", "foreground", "exiting"} =>
    \A t \in Webhooks :
      t \in monitored <=> \/ task[t] \in {"queued", "running"}
                          \/ task[t] = "done" /\ loop.pc # "run" /\ loop.task = t

(* The monitored list as a whole: what later steps rely on, and the         *)
(* strengthening that makes the graceful exit safe.                         *)
MonitorInv == TypeOK /\ CallbackFindsFuture /\ ListIsExact

(* A worker that is recycled gracefully has ended every coroutine it took.  *)
ExitLosesNothing == worker = "exited" => \A t \in Tasks : task[t] \in {"new", "done"}

(* A coroutine taken is run to its end and the worker, told to exit, exits, *)
(* unless gunicorn aborts it: the lock is the only way to a deadlock and    *)
(* only the late registration causes one.                                   *)
WorkEnds ==
  /\ \A t \in Tasks : task[t] = "queued" ~> (task[t] = "done" /\ t \notin monitored) \/ worker = "killed"
  /\ web.pc = "exiting" ~> worker # "up"
=============================================================================

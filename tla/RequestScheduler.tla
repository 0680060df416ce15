-------------------------- MODULE RequestScheduler --------------------------
(***************************************************************************)
(* Admission of chat requests: RequestScheduler, ActiveRequestTracker and  *)
(* tracked_request of state_sched.py, the handlers' use of them, hot       *)
(* reload of the limits (server/config/reload.py) and the drain that       *)
(* AppState.shutdown performs (state.py, main.py).                         *)
(*                                                                         *)
(* Granularity.  Everything runs on one asyncio loop.  No critical section *)
(* of _lock suspends while it holds the lock (Condition.wait releases it), *)
(* so acquiring _lock never suspends either: a handler runs without        *)
(* interruption from one real await to the next, and each action below is  *)
(* such a run.  The awaits that matter are the body read before admission, *)
(* Condition.wait, the request body and the sleeps of the drain.           *)
(***************************************************************************)
EXTENDS Integers, FiniteSets

CONSTANTS Requests,       \* tasks that serve chat requests
          Streaming,      \* those that go through tracked_request; the rest
                          \* go through scheduler.submit
          Limits,         \* values of limits.max_concurrent, -1: unlimited
          QueueLimits,    \* values of limits.max_queue_size
          ReloadOnLoop    \* does apply_runtime_config run on the event loop?

ASSUME RequestsAssumption == IsFiniteSet(Requests) /\ Streaming \subseteq Requests
ASSUME LimitsAssumption == Limits \subseteq Int /\ QueueLimits \subseteq Nat
ASSUME ReloadAssumption == ReloadOnLoop \in BOOLEAN

VARIABLES
  pc,           \* where the task of each request is suspended
  active,       \* RequestScheduler._active
  pending,      \* RequestScheduler._pending
  tracked,      \* keys of ActiveRequestTracker._tasks
  limit,        \* CONFIG.max_concurrent
  queueLimit,   \* state.MAX_QUEUE_SIZE
  wakeQueued,   \* a wake_for_config task exists and has not run
  closing,      \* RequestScheduler._shutting_down
  phase         \* progress of AppState.shutdown and of main's clean-up

vars == <<pc, active, pending, tracked, limit, queueLimit, wakeQueued, closing, phase>>

(***************************************************************************)
(* idle       no task, or the handler has returned                         *)
(* reading    past the is_shutting_down check, awaiting the request body   *)
(* waiting    in Condition.wait, its future pending                        *)
(* notified   in Condition.wait, its future set by notify_all              *)
(* cancelled  in Condition.wait, CancelledError to be thrown at resumption *)
(* running    owns a slot                                                  *)
(* stopping   owns a slot, CancelledError thrown into the body             *)
(***************************************************************************)
PCs == {"idle", "reading", "waiting", "notified", "cancelled", "running", "stopping"}

Phases == {"serving", "requested", "draining", "idle", "forced", "stopped"}

At(S) == {r \in Requests : pc[r] \in S}
Holders == At({"running", "stopping"})
Inside == At({"waiting", "notified", "cancelled", "running", "stopping"})

HasRoom == limit = -1 \/ active < limit

TypeOK ==
  /\ pc \in [Requests -> PCs]
  /\ active \in Nat /\ pending \in Nat
  /\ tracked \subseteq Streaming
  /\ limit \in Limits /\ queueLimit \in QueueLimits
  /\ wakeQueued \in BOOLEAN /\ closing \in BOOLEAN
  /\ phase \in Phases

Init ==
  /\ pc = [r \in Requests |-> "idle"]
  /\ active = 0 /\ pending = 0 /\ tracked = {}
  /\ limit \in Limits /\ queueLimit \in QueueLimits
  /\ wakeQueued = FALSE /\ closing = FALSE
  /\ phase = "serving"

-----------------------------------------------------------------------------
(* max(0, n - 1), as both counters are decremented *)
Less(n) == IF n > 0 THEN n - 1 ELSE 0

(* Condition.notify_all: the future of every waiter is set. *)
NotifyAll(p) ==
  [r \in Requests |-> IF p[r] = "waiting" THEN "notified" ELSE p[r]]

(* Task.cancel() on each task of R. *)
Cancel(R) ==
  [r \in Requests |->
     CASE r \in R /\ pc[r] \in {"waiting", "notified"} -> "cancelled"
       [] r \in R /\ pc[r] = "running"                 -> "stopping"
       [] r \in R /\ pc[r] = "reading"                 -> "idle"
       [] OTHER                                        -> pc[r]]

-----------------------------------------------------------------------------
(* A chat handler passes its is_shutting_down check and reads the body. *)
Receive(r) ==
  /\ pc[r] = "idle" /\ phase = "serving"
  /\ pc' = [pc EXCEPT ![r] = "reading"]
  /\ UNCHANGED <<active, pending, tracked, limit, queueLimit, wakeQueued, closing, phase>>

(* The body is malformed or the model unknown: an error response. *)
Refuse(r) ==
  /\ pc[r] = "reading"
  /\ pc' = [pc EXCEPT ![r] = "idle"]
  /\ UNCHANGED <<active, pending, tracked, limit, queueLimit, wakeQueued, closing, phase>>

(* Fault: the reservation sits inside the try block whose handler gives it *)
(* back, so a refused request returns a place it never had.                *)
RejectGivesBack(r) ==
  /\ pc[r] = "reading"
  /\ closing \/ pending >= queueLimit
  /\ pc' = [pc EXCEPT ![r] = "idle"]
  /\ pending' = pending - 1
  /\ UNCHANGED <<active, tracked, limit, queueLimit, wakeQueued, closing, phase>>

(* _reserve_pending raises QueueFullError; a stream was registered just    *)
(* before and is unregistered by the same run of the task.                 *)
Reject(r) ==
  /\ pc[r] = "reading"
  /\ closing \/ pending >= queueLimit
  /\ pc' = [pc EXCEPT ![r] = "idle"]
  /\ UNCHANGED <<active, pending, tracked, limit, queueLimit, wakeQueued, closing, phase>>

(* Fault: the stream is registered only after acquire_slot returned. *)
AdmitRegistersLate(r) ==
  /\ pc[r] = "reading"
  /\ ~closing /\ pending < queueLimit
  /\ tracked' = IF r \in Streaming /\ HasRoom THEN tracked \cup {r} ELSE tracked
  /\ pending' = pending + 1
  /\ IF HasRoom
       THEN active' = active + 1 /\ pc' = [pc EXCEPT ![r] = "running"]
       ELSE active' = active /\ pc' = [pc EXCEPT ![r] = "waiting"]
  /\ UNCHANGED <<limit, queueLimit, wakeQueued, closing, phase>>

(* Fault: _reserve_pending does not look at _shutting_down again. *)
AdmitWhileClosing(r) ==
  /\ pc[r] = "reading"
  /\ pending < queueLimit
  /\ tracked' = IF r \in Streaming THEN tracked \cup {r} ELSE tracked
  /\ pending' = pending + 1
  /\ IF HasRoom
       THEN active' = active + 1 /\ pc' = [pc EXCEPT ![r] = "running"]
       ELSE active' = active /\ pc' = [pc EXCEPT ![r] = "waiting"]
  /\ UNCHANGED <<limit, queueLimit, wakeQueued, closing, phase>>

(* A stream is registered, the place in the queue reserved, and the slot   *)
(* taken at once or waited for.                                            *)
Admit(r) ==
  /\ pc[r] = "reading"
  /\ ~closing /\ pending < queueLimit
  /\ tracked' = IF r \in Streaming THEN tracked \cup {r} ELSE tracked
  /\ pending' = pending + 1
  /\ IF HasRoom
       THEN active' = active + 1 /\ pc' = [pc EXCEPT ![r] = "running"]
       ELSE active' = active /\ pc' = [pc EXCEPT ![r] = "waiting"]
  /\ UNCHANGED <<limit, queueLimit, wakeQueued, closing, phase>>

(* A notified waiter runs again and re-reads the limit. *)
Resume(r) ==
  /\ pc[r] = "notified"
  /\ IF HasRoom
       THEN active' = active + 1 /\ pc' = [pc EXCEPT ![r] = "running"]
       ELSE active' = active /\ pc' = [pc EXCEPT ![r] = "waiting"]
  /\ UNCHANGED <<pending, tracked, limit, queueLimit, wakeQueued, closing, phase>>

(* Fault: "except Exception" in acquire_slot lets CancelledError through   *)
(* without giving the reservation back.                                    *)
UnwindKeepsReservation(r) ==
  /\ pc[r] = "cancelled"
  /\ pc' = [pc EXCEPT ![r] = "idle"]
  /\ tracked' = tracked \ {r}
  /\ UNCHANGED <<active, pending, limit, queueLimit, wakeQueued, closing, phase>>

(* CancelledError leaves acquire_slot: only the reservation is undone. *)
Unwind(r) ==
  /\ pc[r] = "cancelled"
  /\ pc' = [pc EXCEPT ![r] = "idle"]
  /\ pending' = Less(pending)
  /\ tracked' = tracked \ {r}
  /\ UNCHANGED <<active, limit, queueLimit, wakeQueued, closing, phase>>

(* Fault: notify() in place of notify_all(). *)
FinishNotifiesOne(r) ==
  /\ pc[r] \in {"running", "stopping"}
  /\ active' = Less(active)
  /\ pending' = Less(pending)
  /\ IF At({"waiting"}) = {}
       THEN pc' = [pc EXCEPT ![r] = "idle"]
       ELSE \E w \in At({"waiting"}) :
              pc' = [pc EXCEPT ![r] = "idle", ![w] = "notified"]
  /\ tracked' = tracked \ {r}
  /\ UNCHANGED <<limit, queueLimit, wakeQueued, closing, phase>>

(* The request body ends, by return, exception or cancellation. *)
Finish(r) ==
  /\ pc[r] \in {"running", "stopping"}
  /\ active' = Less(active)
  /\ pending' = Less(pending)
  /\ pc' = NotifyAll([pc EXCEPT ![r] = "idle"])
  /\ tracked' = tracked \ {r}
  /\ UNCHANGED <<limit, queueLimit, wakeQueued, closing, phase>>

(* The task of one request is cancelled from outside. *)
CancelTask(r) ==
  /\ pc[r] \in {"reading", "waiting", "notified", "running"}
  /\ pc' = Cancel({r})
  /\ UNCHANGED <<active, pending, tracked, limit, queueLimit, wakeQueued, closing, phase>>

-----------------------------------------------------------------------------
(* Hot reload swaps CONFIG and rebinds MAX_QUEUE_SIZE.  apply_runtime_config *)
(* queues wake_for_config only if get_running_loop succeeds.               *)
ReloadLimits(l, q) ==
  /\ phase = "serving" /\ <<l, q>> # <<limit, queueLimit>>
  /\ limit' = l /\ queueLimit' = q
  /\ wakeQueued' = (wakeQueued \/ ReloadOnLoop)
  /\ UNCHANGED <<pc, active, pending, tracked, closing, phase>>

(* wake_for_config: notify_all under the condition's lock. *)
WakeForConfig ==
  /\ wakeQueued
  /\ wakeQueued' = FALSE
  /\ pc' = NotifyAll(pc)
  /\ UNCHANGED <<active, pending, tracked, limit, queueLimit, closing, phase>>

-----------------------------------------------------------------------------
(* A signal sets shutdown_event; the background tasks are being stopped. *)
RequestShutdown ==
  /\ phase = "serving"
  /\ phase' = "requested"
  /\ UNCHANGED <<pc, active, pending, tracked, limit, queueLimit, wakeQueued, closing>>

(* mark_shutting_down, then ActiveRequestTracker.cancel_all. *)
BeginDrain ==
  /\ phase = "requested"
  /\ phase' = "draining"
  /\ closing' = TRUE
  /\ pc' = Cancel(tracked)
  /\ tracked' = {}
  /\ UNCHANGED <<active, pending, limit, queueLimit, wakeQueued>>

(* wait_idle sees no pending request; the upstreams are shut down. *)
DrainedIdle ==
  /\ phase = "draining" /\ pending = 0
  /\ phase' = "idle"
  /\ UNCHANGED <<pc, active, pending, tracked, limit, queueLimit, wakeQueued, closing>>

(* wait_idle gives up; cancel_all once more, then the upstreams are shut   *)
(* down under whatever still runs.                                         *)
DrainTimeout ==
  /\ phase = "draining" /\ pending > 0
  /\ phase' = "forced"
  /\ pc' = Cancel(tracked)
  /\ tracked' = {}
  /\ UNCHANGED <<active, pending, limit, queueLimit, wakeQueued, closing>>

(* Fault: only the tasks of the tracker are cancelled. *)
CancelTrackedLeftover ==
  /\ phase \in {"requested", "draining", "idle", "forced"}
  /\ phase' = "stopped"
  /\ pc' = Cancel(tracked)
  /\ UNCHANGED <<active, pending, tracked, limit, queueLimit, wakeQueued, closing>>

(* The site is stopped and every task that is left is cancelled, after     *)
(* AppState.shutdown returned or exhausted shutdown.total_timeout.         *)
CancelLeftover ==
  /\ phase \in {"requested", "draining", "idle", "forced"}
  /\ phase' = "stopped"
  /\ pc' = Cancel(Requests)
  /\ UNCHANGED <<active, pending, tracked, limit, queueLimit, wakeQueued, closing>>

-----------------------------------------------------------------------------
RequestStep(r) ==
  \/ Receive(r) \/ Refuse(r) \/ Reject(r) \/ Admit(r) \/ Resume(r)
  \/ Unwind(r) \/ Finish(r) \/ CancelTask(r)

ShutdownStep == BeginDrain \/ DrainedIdle \/ DrainTimeout \/ CancelLeftover

Next ==
  \/ \E r \in Requests : RequestStep(r)
  \/ \E l \in Limits, q \in QueueLimits : ReloadLimits(l, q)
  \/ WakeForConfig
  \/ RequestShutdown
  \/ ShutdownStep

(* The loop runs every task that is ready, request bodies end (they are    *)
(* bounded by the request_total and idle timeouts), and shutdown, once     *)
(* requested, is carried on: its waits are all bounded by timeouts.        *)
Fairness ==
  /\ \A r \in Requests : WF_vars(Resume(r) \/ Unwind(r)) /\ WF_vars(Finish(r))
  /\ WF_vars(WakeForConfig)
  /\ WF_vars(ShutdownStep)

Spec == Init /\ [][Next]_vars /\ Fairness

-----------------------------------------------------------------------------
(* Both counters of the scheduler always equal the number of tasks they    *)
(* stand for: no cancellation, wherever it lands in acquire_slot or in the *)
(* body, leaks a slot or a place in the queue, and max(0, n - 1) never     *)
(* hides a double release.                                                 *)
SlotAccounting ==
  /\ active = Cardinality(Holders)
  /\ pending = Cardinality(Inside)

(* Some waiter sleeps although a slot is free. *)
Stranded == HasRoom /\ At({"waiting"}) # {}

Raised == limit' # limit /\ (limit' = -1 \/ limit' > limit)

(* Only a reload that raises the limit leaves a waiter asleep beside a     *)
(* free slot.  No order in which requests end, are cancelled, are woken in *)
(* vain because a newcomer was faster, or find the limit lowered, does;    *)
(* this is what the loop around Condition.wait and notify_all are for.     *)
OnlyReloadStrands ==
  [][Stranded' => Stranded \/ Raised]_vars

(* wake_for_config: "after a hot update, wake the coroutines that wait for *)
(* a slot so that they read the limit again".  A waiter that sleeps beside *)
(* a free slot is about to be woken.                                       *)
NoSleepBesideFreeSlot == Stranded => wakeQueued

(* Once the drain has begun, no stream goes on untouched: each one that is *)
(* still inside has had CancelledError delivered to its task, because      *)
(* tracked_request registers the task before it waits for a slot.          *)
DrainReachesStreams ==
  closing => Streaming \cap At({"waiting", "notified", "running"}) = {}

(* When wait_idle reports idle, the upstreams are shut down under nobody:  *)
(* no request that passed the is_shutting_down check before the signal     *)
(* can still be admitted afterwards.                                       *)
IdleVerdictStable == phase = "idle" => Inside = {}

(* A shutdown that was requested runs to its end and leaves no request     *)
(* task behind.                                                            *)
ShutdownEmpties ==
  phase = "requested" ~> phase = "stopped" /\ At({"idle"}) = Requests

(* The scheduler implements the slot pool, the liveness of Grant included. *)
Pool == INSTANCE SlotPool WITH
          holders <- Holders,
          waiters <- At({"waiting", "notified"}),
          closed  <- closing

ImplementsSlotPool == Pool!Spec
=============================================================================

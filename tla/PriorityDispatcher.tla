------------------------- MODULE PriorityDispatcher -------------------------
(***************************************************************************)
(* rpnx::experimental::priority_dispatcher: a pool of service threads that *)
(* execute submitted jobs, highest priority first.  All of its members are *)
(* guarded by one mutex, and every thread that waits (an idle service      *)
(* thread, a caller of cancel_all or finish_all, the destructor) waits on  *)
(* the same condition variable.                                            *)
(*                                                                         *)
(* A step is what a thread does between taking the mutex and releasing it  *)
(* (or waiting).  The mutex stays taken from one step to the next only     *)
(* where the code blocks or may fail while holding it: joining stopped     *)
(* threads, starting new ones, and the destructor's last joins.            *)
(* A condition variable is the set of threads parked on it: a wait whose   *)
(* predicate is false adds the thread, notify_all empties the set.         *)
(*                                                                         *)
(* The callers keep the contract of the header: submit, cancel_all_quick   *)
(* and the other kind of waiting call are not made while a cancel_all, a   *)
(* finish_all or the destructor is pending.                                *)
(***************************************************************************)
EXTENDS Integers, FiniteSets

CONSTANTS
    Jobs,                \* everything that is ever submitted, each at most once
    Clients,             \* the threads that call the dispatcher from outside
    Priority,            \* the priority each job is submitted with
    HardwareConcurrency, \* std::thread::hardware_concurrency()
    Counts,              \* the arguments of set_service_thread_count
    IdMax,               \* numeric_limits<size_t>::max(), scaled down
    MaxResizes,          \* bound: calls of set_service_thread_count
    StartsMayFail,       \* whether constructing a std::thread may throw
    Free,                \* the mutex is not held across steps
    NoJob                \* a service thread has taken no job

ThreadIds == 0 .. (IdMax - 1)

ASSUME DispatcherAssumption ==
    /\ IsFiniteSet(Jobs) /\ IsFiniteSet(Clients)
    /\ Priority \in [Jobs -> Int]
    /\ IdMax \in Nat /\ IdMax % 2 = 1
    /\ HardwareConcurrency \in 0 .. IdMax
    /\ Counts \subseteq Nat
    /\ MaxResizes \in Nat
    /\ StartsMayFail \in BOOLEAN
    /\ Clients \cap ThreadIds = {}
    /\ Free \notin Clients
    /\ NoJob \notin Jobs

VARIABLES
    mtx,            \* Free, or the client that keeps m_mtx across steps
    parked,         \* the threads waiting un-notified on m_cond
    m_queue, m_thread_objects, m_joinable_threads, m_reusable_ids,
    m_thread_min_id, m_async_executions, m_waiting_completion_routines,
    m_waiting_thread_abort, m_tc_running, m_tc_target,
    worker,         \* where each service thread is
    item,           \* the job each service thread has taken
    client,         \* where each client is in its call
    resizes,        \* calls of set_service_thread_count so far
    terminated,     \* std::terminate has been called
    submitted, runs, cleanups, outcome   \* history of the jobs

lockVars   == <<mtx, parked>>
threadVars == <<m_thread_objects, m_joinable_threads, m_reusable_ids,
                m_thread_min_id, m_tc_running, m_tc_target>>
workVars   == <<worker, item, m_async_executions>>
callVars   == <<client, m_waiting_completion_routines, m_waiting_thread_abort>>
jobVars    == <<m_queue, submitted, runs, cleanups, outcome>>
otherVars  == <<resizes, terminated>>
vars == <<lockVars, threadVars, workVars, callVars, jobVars, otherVars>>

WorkerStates == {"none", "service", "running", "completed",
                 "completed_with_exception", "relock", "returned", "exited"}

Cancelling == {"cancel_all", "cancel_waiting"}
Finishing  == {"finish_all", "finish_waiting"}
Aborting   == {"abort", "abort_waiting", "final_join"}
Closing    == {"destroy", "destroy_waiting"} \cup Aborting \cup {"destroyed"}
Resizing   == {"joining", "starting"}
ClientStates == {"idle"} \cup Cancelling \cup Finishing \cup Closing \cup Resizing

\* The states inside the wait of cancel_all and of finish_all.
Waiting == {"cancel_waiting", "finish_waiting", "destroy_waiting"}

\* The threads between taking a job and counting it as done.
Executing == {t \in ThreadIds : worker[t] \in {"running", "completed",
                                     "completed_with_exception", "relock"}}

Outcomes == {"none", "completed", "completed_with_exception", "cancelled"}

InCall(S) == \E c \in Clients : client[c] \in S

-----------------------------------------------------------------------------
(* The constructor, run to its end: one service thread per processor.      *)

Init ==
    /\ mtx = Free
    /\ parked = {}
    /\ m_queue = {}
    /\ m_thread_objects = 0 .. (HardwareConcurrency - 1)
    /\ m_joinable_threads = {}
    /\ m_reusable_ids = {}
    /\ m_thread_min_id = HardwareConcurrency
    /\ m_async_executions = 0
    /\ m_waiting_completion_routines = 0
    /\ m_waiting_thread_abort = 0
    /\ m_tc_running = HardwareConcurrency
    /\ m_tc_target = HardwareConcurrency
    /\ worker = [t \in ThreadIds |->
                    IF t < HardwareConcurrency THEN "service" ELSE "none"]
    /\ item = [t \in ThreadIds |-> NoJob]
    /\ client = [c \in Clients |-> "idle"]
    /\ resizes = 0
    /\ terminated = FALSE
    /\ submitted = {}
    /\ runs = [j \in Jobs |-> 0]
    /\ cleanups = [j \in Jobs |-> 0]
    /\ outcome = [j \in Jobs |-> "none"]

-----------------------------------------------------------------------------
(* The predicates of the four waits on m_cond.                             *)

ServiceWakesForJobs == m_queue # {}
ServiceWakes == m_tc_running > m_tc_target \/ m_queue # {}
CancelWakes  == m_queue # {} \/ m_async_executions = 0
FinishWakesEarly == m_queue = {}
FinishWakes == m_async_executions = 0 /\ m_queue = {}
AbortWakes   == m_tc_running = 0

NotifyNobody == UNCHANGED parked
NotifyAll    == parked' = {}

\* priority_queue::top(): some queued job that none precedes.
IsTop(j) == /\ j \in m_queue
            /\ \A k \in m_queue : ~(Priority[j] < Priority[k])

\* Calls m_cleanup with the outcome o for each job of S.
CleanUp(S, o) ==
    /\ cleanups' = [j \in Jobs |-> IF j \in S THEN cleanups[j] + 1 ELSE cleanups[j]]
    /\ outcome'  = [j \in Jobs |-> IF j \in S THEN o ELSE outcome[j]]

\* Waiting callers are notified only if there are any and n, the number of
\* jobs executing, is down to 0.
NotifyCompletionNever(n) == UNCHANGED parked
NotifyCompletion(n) ==
    parked' = IF n = 0 /\ m_waiting_completion_routines # 0 THEN {} ELSE parked

-----------------------------------------------------------------------------
(* submit, from a client or from inside a job.                             *)

MaySubmit == ~InCall(Cancelling \cup Finishing \cup Closing)

Enqueue(j) ==
    /\ mtx = Free
    /\ MaySubmit
    /\ j \notin submitted
    /\ m_queue' = m_queue \cup {j}
    /\ submitted' = submitted \cup {j}
    /\ NotifyAll
    /\ UNCHANGED <<mtx, threadVars, workVars, callVars, runs, cleanups,
                   outcome, otherVars>>

Submit(c, j) == client[c] = "idle" /\ Enqueue(j)

\* m_exec and m_cleanup run without the mutex and may submit more.
JobSubmit(t, j) == t \in Executing /\ Enqueue(j)

-----------------------------------------------------------------------------
(* The calls that wait.  A call first exists, then takes the mutex: the     *)
(* header's rules are about the whole call.                                *)

Call(c, kind, conflicting) ==
    /\ client[c] = "idle"
    /\ ~InCall(conflicting)
    /\ client' = [client EXCEPT ![c] = kind]
    /\ UNCHANGED <<lockVars, threadVars, workVars, m_waiting_completion_routines,
                   m_waiting_thread_abort, jobVars, otherVars>>

CallCancelAll(c) == Call(c, "cancel_all", Finishing \cup Closing)
CallFinishAll(c) == Call(c, "finish_all", Cancelling \cup Closing)
CallDestroy(c)   == Call(c, "destroy", ClientStates \ {"idle"})

\* Where a waiting call is before its wait, in it, and after it returned.
WaitOf(s) == CASE s \in Cancelling -> "cancel_waiting"
               [] s \in Finishing  -> "finish_waiting"
               [] OTHER            -> "destroy_waiting"
ReturnOf(s) == IF s \in {"destroy", "destroy_waiting"} THEN "abort" ELSE "idle"

\* scoped_increment on m_waiting_completion_routines: a caller counts itself
\* from before its wait until it returns, so the others are what remains.
OtherWaitersUnreleased(c) == m_waiting_completion_routines
OtherWaitersUncounted(c)  == m_waiting_completion_routines - 1
OtherWaiters(c) == IF client[c] \in Waiting
                   THEN m_waiting_completion_routines - 1
                   ELSE m_waiting_completion_routines

EnterWait(c) ==
    /\ client' = [client EXCEPT ![c] = WaitOf(client[c])]
    /\ m_waiting_completion_routines' = OtherWaiters(c) + 1
    /\ parked' = parked \cup {c}

LeaveWait(c) ==
    /\ client' = [client EXCEPT ![c] = ReturnOf(client[c])]
    /\ m_waiting_completion_routines' = OtherWaiters(c)
    /\ UNCHANGED parked

\* Also the first part of the public destructor.  Everything queued is cleaned
\* up as cancelled; the caller returns when no job is executing and otherwise
\* waits for the next notification.
CancelAll(c) ==
    /\ client[c] \in Cancelling \cup {"destroy", "destroy_waiting"}
    /\ mtx = Free /\ c \notin parked
    /\ CleanUp(m_queue, "cancelled")
    /\ m_queue' = {}
    /\ IF m_async_executions = 0 THEN LeaveWait(c) ELSE EnterWait(c)
    /\ UNCHANGED <<mtx, threadVars, workVars, m_waiting_thread_abort,
                   submitted, runs, otherVars>>

FinishAll(c) ==
    /\ client[c] \in Finishing
    /\ mtx = Free /\ c \notin parked
    /\ IF FinishWakes THEN LeaveWait(c) ELSE EnterWait(c)
    /\ UNCHANGED <<mtx, threadVars, workVars, m_waiting_thread_abort, jobVars,
                   otherVars>>

-----------------------------------------------------------------------------
(* cancel_all_quick                                                        *)

CancelAllQuick(c) ==
    /\ client[c] = "idle"
    /\ MaySubmit
    /\ mtx = Free
    /\ CleanUp(m_queue, "cancelled")
    /\ m_queue' = {}
    /\ NotifyCompletion(m_async_executions)
    /\ UNCHANGED <<mtx, threadVars, workVars, callVars, submitted, runs,
                   otherVars>>

-----------------------------------------------------------------------------
(* set_service_thread_count: joins the threads that have stopped, stores   *)
(* the target, then wakes the surplus threads or starts the missing ones,  *)
(* all with the mutex held.                                                *)

CallSetServiceThreadCount(c) ==
    /\ client[c] = "idle"
    /\ ~InCall(Closing)
    /\ mtx = Free
    /\ resizes < MaxResizes
    /\ resizes' = resizes + 1
    /\ mtx' = c
    /\ client' = [client EXCEPT ![c] = "joining"]
    /\ UNCHANGED <<parked, threadVars, workVars,
                   m_waiting_completion_routines, m_waiting_thread_abort,
                   jobVars, terminated>>

RecyclableNever(id) == id > IdMax
\* Only ids in the upper half of the range are used again.
Recyclable(id) == id > IdMax \div 2

\* One round of join_stopped_threads; join blocks until the thread has ended.
JoinStopped(c, t) ==
    /\ client[c] = "joining"
    /\ t \in m_joinable_threads
    /\ worker[t] = "exited"
    /\ worker' = [worker EXCEPT ![t] = "none"]
    /\ m_joinable_threads' = m_joinable_threads \ {t}
    /\ m_thread_objects' = m_thread_objects \ {t}
    /\ m_reusable_ids' = IF Recyclable(t) THEN m_reusable_ids \cup {t}
                                          ELSE m_reusable_ids
    /\ UNCHANGED <<lockVars, m_thread_min_id, m_tc_running, m_tc_target, item,
                   m_async_executions, callVars, jobVars, otherVars>>

SetTarget(c, n) ==
    /\ client[c] = "joining"
    /\ m_joinable_threads = {}
    /\ m_tc_target' = n
    /\ \/ /\ m_tc_running > n
          /\ NotifyAll
          /\ mtx' = Free
          /\ client' = [client EXCEPT ![c] = "idle"]
       \/ /\ m_tc_running <= n
          /\ client' = [client EXCEPT ![c] = "starting"]
          /\ UNCHANGED lockVars
    /\ UNCHANGED <<m_thread_objects, m_joinable_threads, m_reusable_ids,
                   m_thread_min_id, m_tc_running, workVars,
                   m_waiting_completion_routines, m_waiting_thread_abort,
                   jobVars, otherVars>>

\* alloc_thread_id: a recycled id if there is one, else the next fresh one.
AvailableIds ==
    IF m_reusable_ids # {} THEN m_reusable_ids
    ELSE IF m_thread_min_id # IdMax THEN {m_thread_min_id} ELSE {}

AllocThreadIdTwice(id) ==
    /\ id \in AvailableIds
    /\ UNCHANGED m_reusable_ids
    /\ m_thread_min_id' = IF m_reusable_ids = {} THEN m_thread_min_id + 1
                                                 ELSE m_thread_min_id
AllocThreadId(id) ==
    /\ id \in AvailableIds
    /\ m_reusable_ids' = m_reusable_ids \ {id}
    /\ m_thread_min_id' = IF m_reusable_ids = {} THEN m_thread_min_id + 1
                                                 ELSE m_thread_min_id

\* Assigning a new std::thread over one that was not joined terminates.
StartThread(c, id) ==
    /\ client[c] = "starting"
    /\ m_tc_running < m_tc_target
    /\ AllocThreadId(id)
    /\ m_tc_running' = m_tc_running + 1
    /\ m_thread_objects' = m_thread_objects \cup {id}
    /\ terminated' = (id \in m_thread_objects)
    /\ worker' = [worker EXCEPT ![id] = "service"]
    /\ UNCHANGED <<lockVars, m_joinable_threads, m_tc_target, item,
                   m_async_executions, callVars, jobVars, resizes>>

\* The constructor of std::thread throws: the exception leaves
\* set_service_thread_count, and the id is gone.
StartThrows(c, id) ==
    /\ StartsMayFail
    /\ client[c] = "starting"
    /\ m_tc_running < m_tc_target
    /\ AllocThreadId(id)
    /\ mtx' = Free
    /\ client' = [client EXCEPT ![c] = "idle"]
    /\ UNCHANGED <<parked, m_thread_objects, m_joinable_threads, m_tc_running,
                   m_tc_target, workVars, m_waiting_completion_routines,
                   m_waiting_thread_abort, jobVars, otherVars>>

IdsExhausted(c) ==
    /\ client[c] = "starting"
    /\ m_tc_running < m_tc_target
    /\ AvailableIds = {}
    /\ terminated' = TRUE
    /\ UNCHANGED <<lockVars, threadVars, workVars, callVars, jobVars, resizes>>

Started(c) ==
    /\ client[c] = "starting"
    /\ ~(m_tc_running < m_tc_target)
    /\ mtx' = Free
    /\ client' = [client EXCEPT ![c] = "idle"]
    /\ UNCHANGED <<parked, threadVars, workVars,
                   m_waiting_completion_routines, m_waiting_thread_abort,
                   jobVars, otherVars>>

-----------------------------------------------------------------------------
(* ~priority_dispatcher_impl: sends every service thread home and joins it. *)

\* The wait for the pool to empty; others is who else stays parked.
AbortWait(c, others) ==
    IF AbortWakes
    THEN /\ mtx' = c
         /\ client' = [client EXCEPT ![c] = "final_join"]
         /\ parked' = others
    ELSE /\ client' = [client EXCEPT ![c] = "abort_waiting"]
         /\ parked' = others \cup {c}
         /\ UNCHANGED mtx

Abort(c) ==
    /\ client[c] = "abort"
    /\ mtx = Free
    /\ m_waiting_thread_abort' = m_waiting_thread_abort + 1
    /\ m_tc_target' = 0
    /\ AbortWait(c, {})
    /\ UNCHANGED <<m_thread_objects, m_joinable_threads, m_reusable_ids,
                   m_thread_min_id, m_tc_running, workVars,
                   m_waiting_completion_routines, jobVars, otherVars>>

AbortResumes(c) ==
    /\ client[c] = "abort_waiting"
    /\ mtx = Free /\ c \notin parked
    /\ AbortWait(c, parked)
    /\ UNCHANGED <<threadVars, workVars, m_waiting_completion_routines,
                   m_waiting_thread_abort, jobVars, otherVars>>

AllEndedUnchecked == TRUE
AllEnded == \A t \in m_thread_objects : worker[t] = "exited"

FinalJoin(c) ==
    /\ client[c] = "final_join"
    /\ AllEnded
    /\ mtx' = Free
    /\ client' = [client EXCEPT ![c] = "destroyed"]
    /\ m_waiting_thread_abort' = m_waiting_thread_abort - 1
    /\ UNCHANGED <<parked, threadVars, workVars,
                   m_waiting_completion_routines, jobVars, otherVars>>

-----------------------------------------------------------------------------
(* service_thread                                                          *)

AtService(t) == worker[t] = "service" /\ t \notin parked /\ mtx = Free

ServicePark(t) ==
    /\ AtService(t)
    /\ ~ServiceWakes
    /\ parked' = parked \cup {t}
    /\ UNCHANGED <<mtx, threadVars, workVars, callVars, jobVars, otherVars>>

NotifyAbortNever == UNCHANGED parked
NotifyAbort == parked' = IF m_waiting_thread_abort # 0 THEN {} ELSE parked

\* There are more threads than wanted: this one leaves, queued jobs or not.
ServiceStop(t) ==
    /\ AtService(t)
    /\ m_tc_running > m_tc_target
    /\ m_tc_running' = m_tc_running - 1
    /\ m_joinable_threads' = m_joinable_threads \cup {t}
    /\ NotifyAbort
    /\ worker' = [worker EXCEPT ![t] = "returned"]
    /\ UNCHANGED <<mtx, m_thread_objects, m_reusable_ids, m_thread_min_id,
                   m_tc_target, item, m_async_executions, callVars, jobVars,
                   otherVars>>

PopForgotten(j) == UNCHANGED m_queue
Pop(j) == m_queue' = m_queue \ {j}

ServiceTake(t, j) ==
    /\ AtService(t)
    /\ ~(m_tc_running > m_tc_target)
    /\ IsTop(j)
    /\ Pop(j)
    /\ m_async_executions' = m_async_executions + 1
    /\ item' = [item EXCEPT ![t] = j]
    /\ runs' = [runs EXCEPT ![j] = @ + 1]
    /\ worker' = [worker EXCEPT ![t] = "running"]
    /\ UNCHANGED <<lockVars, threadVars, callVars, submitted, cleanups,
                   outcome, otherVars>>

\* m_exec returns, or throws.
ExecReturns(t, o) ==
    /\ worker[t] = "running"
    /\ worker' = [worker EXCEPT ![t] = o]
    /\ UNCHANGED <<lockVars, threadVars, item, m_async_executions, callVars,
                   jobVars, otherVars>>

\* m_cleanup, without the mutex.
RunCleanup(t) ==
    /\ worker[t] \in {"completed", "completed_with_exception"}
    /\ CleanUp({item[t]}, worker[t])
    /\ worker' = [worker EXCEPT ![t] = "relock"]
    /\ UNCHANGED <<lockVars, threadVars, item, m_async_executions, callVars,
                   m_queue, submitted, runs, otherVars>>

Relock(t) ==
    /\ worker[t] = "relock"
    /\ mtx = Free
    /\ m_async_executions' = m_async_executions - 1
    /\ item' = [item EXCEPT ![t] = NoJob]
    /\ worker' = [worker EXCEPT ![t] = "service"]
    /\ NotifyCompletion(m_async_executions - 1)
    /\ UNCHANGED <<mtx, threadVars, callVars, jobVars, otherVars>>

\* The thread ends after service_thread has returned.
ThreadExit(t) ==
    /\ worker[t] = "returned"
    /\ worker' = [worker EXCEPT ![t] = "exited"]
    /\ UNCHANGED <<lockVars, threadVars, item, m_async_executions, callVars,
                   jobVars, otherVars>>

\* A wait on a condition variable may end without a notification.
SpuriousWakeup(a) ==
    /\ a \in parked
    /\ parked' = parked \ {a}
    /\ UNCHANGED <<mtx, threadVars, workVars, callVars, jobVars, otherVars>>

-----------------------------------------------------------------------------
ServiceThread(t) ==
    \/ ServicePark(t) \/ ServiceStop(t)
    \/ \E j \in Jobs : ServiceTake(t, j)
    \/ \E o \in {"completed", "completed_with_exception"} : ExecReturns(t, o)
    \/ RunCleanup(t) \/ Relock(t) \/ ThreadExit(t)

\* A client goes on with the call it has made.
ClientContinues(c) ==
    \/ CancelAll(c) \/ FinishAll(c)
    \/ \E t \in ThreadIds : JoinStopped(c, t)
    \/ \E n \in Counts : SetTarget(c, n)
    \/ \E id \in ThreadIds : StartThread(c, id) \/ StartThrows(c, id)
    \/ IdsExhausted(c) \/ Started(c)
    \/ Abort(c) \/ AbortResumes(c) \/ FinalJoin(c)

ClientCalls(c) ==
    \/ \E j \in Jobs : Submit(c, j)
    \/ CallCancelAll(c) \/ CallFinishAll(c) \/ CancelAllQuick(c)
    \/ CallSetServiceThreadCount(c) \/ CallDestroy(c)

Stopped == /\ terminated \/ InCall({"destroyed"})
           /\ UNCHANGED vars

Next ==
    \/ /\ ~terminated
       /\ \/ \E c \in Clients : ClientCalls(c) \/ ClientContinues(c)
          \/ \E t \in ThreadIds : \/ ServiceThread(t)
                                  \/ \E j \in Jobs : JobSubmit(t, j)
          \/ \E a \in parked : SpuriousWakeup(a)
    \/ Stopped

Spec == Init /\ [][Next]_vars

\* Every thread is scheduled: it goes on with a call or a job it has begun
\* whenever it can.  No client has to make a call, and nothing relies on a
\* spurious wakeup.
FairSpec ==
    /\ Spec
    /\ \A c \in Clients : WF_vars(~terminated /\ ClientContinues(c))
    /\ \A t \in ThreadIds : WF_vars(~terminated /\ ServiceThread(t))

=============================================================================

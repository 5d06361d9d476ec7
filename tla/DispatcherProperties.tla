------------------------ MODULE DispatcherProperties ------------------------
(* What a correct priority_dispatcher keeps, and the contract it implements. *)
EXTENDS PriorityDispatcher

(* Every member has its type; no counter goes below zero.                   *)
TypeOK ==
    /\ mtx \in Clients \cup {Free}
    /\ parked \subseteq ThreadIds \cup Clients
    /\ m_queue \subseteq Jobs
    /\ m_thread_objects \subseteq ThreadIds
    /\ m_joinable_threads \subseteq ThreadIds
    /\ m_reusable_ids \subseteq ThreadIds
    /\ m_thread_min_id \in 0 .. IdMax
    /\ m_async_executions \in Nat
    /\ m_waiting_completion_routines \in Nat
    /\ m_waiting_thread_abort \in Nat
    /\ m_tc_running \in Nat
    /\ m_tc_target \in Nat
    /\ worker \in [ThreadIds -> WorkerStates]
    /\ item \in [ThreadIds -> Jobs \cup {NoJob}]
    /\ client \in [Clients -> ClientStates]
    /\ resizes \in Nat
    /\ terminated \in BOOLEAN
    /\ submitted \subseteq Jobs
    /\ runs \in [Jobs -> Nat]
    /\ cleanups \in [Jobs -> Nat]
    /\ outcome \in [Jobs -> Outcomes]

Serving     == {t \in ThreadIds : worker[t] = "service"} \cup Executing
WaitingClients == {c \in Clients : client[c] \in Waiting}
AbortingClients == {c \in Clients : client[c] \in {"abort_waiting", "final_join"}}

(* The four counters that the waits and the assertions of submit and       *)
(* cancel_all_quick depend on say how many threads are really executing,   *)
(* serving, waiting and aborting, whichever calls overlap.                 *)
CountersExact ==
    /\ m_async_executions = Cardinality(Executing)
    /\ m_tc_running = Cardinality(Serving)
    /\ m_waiting_completion_routines = Cardinality(WaitingClients)
    /\ m_waiting_thread_abort = Cardinality(AbortingClients)

(* A thread stays parked only while its predicate is false: every step     *)
(* that makes it true notifies.  The conditions under which the code skips *)
(* notify_all (no executions left, somebody waiting) must not skip one too *)
(* many.                                                                   *)
NoLostWakeup ==
    /\ \A t \in ThreadIds \cap parked : ~ServiceWakes
    /\ \A c \in Clients \cap parked :
          \/ client[c] \in {"cancel_waiting", "destroy_waiting"} /\ ~CancelWakes
          \/ client[c] = "finish_waiting" /\ ~FinishWakes
          \/ client[c] = "abort_waiting" /\ ~AbortWakes

(* Every job is in exactly one phase of its life: not submitted, queued,   *)
(* held by exactly one service thread that has not cleaned it up, or       *)
(* cleaned up.  So its cleanup runs once, it runs at most once, and a      *)
(* cancelled job has never run.                                            *)
Busy == {"running", "completed", "completed_with_exception"}
Holders(j) == {t \in ThreadIds : worker[t] \in Busy /\ item[t] = j}

InLife(j, isSubmitted, isQueued, ran, cleaned) ==
    /\ (j \in submitted) = isSubmitted
    /\ (j \in m_queue) = isQueued
    /\ runs[j] = ran
    /\ cleanups[j] = cleaned

JobOwnership ==
    /\ \A t \in ThreadIds : worker[t] \in Busy => item[t] \in Jobs
    /\ \A j \in Jobs :
          \/ /\ InLife(j, FALSE, FALSE, 0, 0)
             /\ Holders(j) = {} /\ outcome[j] = "none"
          \/ /\ InLife(j, TRUE, TRUE, 0, 0)
             /\ Holders(j) = {} /\ outcome[j] = "none"
          \/ /\ InLife(j, TRUE, FALSE, 1, 0)
             /\ \E t \in ThreadIds : Holders(j) = {t}
             /\ outcome[j] = "none"
          \/ /\ InLife(j, TRUE, FALSE, IF outcome[j] = "cancelled" THEN 0 ELSE 1, 1)
             /\ Holders(j) = {} /\ outcome[j] # "none"

(* The std::thread objects are those of the threads that live or wait to   *)
(* be joined, the joinable ones are those that have left the service loop, *)
(* and no free id is also in use.  Overwriting or destroying a std::thread *)
(* that was not joined would end the program.                              *)
ThreadsOwned ==
    /\ m_thread_objects = {t \in ThreadIds : worker[t] # "none"}
    /\ m_joinable_threads = {t \in ThreadIds : worker[t] \in {"returned", "exited"}}
    /\ m_reusable_ids \cap m_thread_objects = {}
    /\ \A t \in m_thread_objects \cup m_reusable_ids : t < m_thread_min_id

(* When the destructor has returned, no thread can touch the mutex or the  *)
(* condition variable any more: every service thread has ended, nobody is  *)
(* parked and every job has been cleaned up.                               *)
NothingAfterDestruction ==
    InCall({"destroyed"}) =>
        /\ \A t \in ThreadIds : worker[t] \in {"none", "exited"}
        /\ parked = {} /\ mtx = Free
        /\ \A j \in submitted : cleanups[j] = 1

(* alloc_thread_id says it gives up only if max/2 threads are allocated    *)
(* at the same time.                                                       *)
TerminateOnlyWhenIdsHeld ==
    terminated => Cardinality(m_thread_objects) >= IdMax \div 2

(* The calls of clients exclude each other as the header demands, and the  *)
(* mutex is held across steps exactly by the client that is in such a step. *)
CallsExclude ==
    /\ \A c, d \in Clients : client[c] \in Cancelling => client[d] \notin Finishing
    /\ \A c, d \in Clients : client[c] \in Closing /\ c # d => client[d] = "idle"
    /\ \A c \in Clients : client[c] \in Resizing \cup {"final_join"} <=> mtx = c
    /\ \A t \in ThreadIds \cap parked : worker[t] = "service"

(* From the moment the destructor's cancel_all has returned nothing is     *)
(* queued or executing; it joins when no thread serves any more.           *)
Closed ==
    \A c \in Clients :
       /\ client[c] \in Aborting \cup {"destroyed"} => m_queue = {} /\ Executing = {}
       /\ client[c] \in {"final_join", "destroyed"} => Serving = {}
       /\ client[c] = "destroyed" =>
             \A t \in ThreadIds : worker[t] \in {"none", "exited"}

(* What is preserved by every step; the invariants above follow from it.   *)
IInv == TypeOK /\ ThreadsOwned /\ CountersExact /\ CallsExclude
        /\ NoLostWakeup /\ JobOwnership /\ Closed

(* While nobody destroys the pool, a queued job is cleaned up in the end.  *)
JobServed ==
    \A j \in Jobs : (j \in m_queue) ~> (cleanups[j] = 1)

(* cancel_all, finish_all, set_service_thread_count and the destructor     *)
(* return.                                                                 *)
CallsReturn ==
    \A c \in Clients : (client[c] # "idle") ~> (client[c] \in {"idle", "destroyed"})

(* A reduced pool gets down to its target.                                 *)
PoolShrinks == (m_tc_running > m_tc_target) ~> (m_tc_running <= m_tc_target)

(* The dispatcher keeps the contract of its header.                        *)
status == [j \in Jobs |->
             IF j \notin submitted THEN "new"
             ELSE IF j \in m_queue THEN "pending"
             ELSE IF outcome[j] = "none" THEN "active" ELSE outcome[j]]

call == [c \in Clients |->
           CASE client[c] \in Cancelling -> "cancel_all"
             [] client[c] \in Finishing  -> "finish_all"
             [] client[c] \in Closing \ {"destroyed"} -> "destroy"
             [] client[c] = "destroyed" -> "destroyed"
             [] OTHER -> "idle"]

Contract == INSTANCE DispatcherContract WITH status <- status, call <- call
KeepsContract == Contract!Spec

=============================================================================

-------------------------- MODULE DispatcherProofs --------------------------
(***************************************************************************)
(* The invariants of priority_dispatcher proved for every number of jobs,  *)
(* clients, threads, ids and resizes.  IInv is inductive; each of its      *)
(* conjuncts is shown to be preserved in a lemma of its own.  Last, that   *)
(* the pool implements the contract of its header.                         *)
(***************************************************************************)
EXTENDS DispatcherProperties, FiniteSetTheorems, TLAPS

(* The service threads, and so every set of them, are finitely many.       *)
LEMMA ThreadsFinite ==
    ASSUME NEW S \in SUBSET ThreadIds
    PROVE  IsFiniteSet(S)
<1>1. IsFiniteSet(0 .. (IdMax - 1))
  BY FS_Interval, DispatcherAssumption
<1> QED  BY <1>1, FS_Subset DEF ThreadIds

(* A finite set with a member has a positive cardinality.                  *)
LEMMA Positive ==
    ASSUME NEW S, IsFiniteSet(S), NEW x \in S
    PROVE  Cardinality(S) \in Nat /\ Cardinality(S) > 0
BY FS_CardinalityType, FS_EmptySet

(* Adding a new member to a finite set, or removing one, is counted by one. *)
LEMMA CountAdded ==
    ASSUME NEW S, IsFiniteSet(S), NEW T, NEW x, x \notin S, T = S \cup {x}
    PROVE  Cardinality(T) = Cardinality(S) + 1
BY FS_AddElement

(* The same for a member that leaves.                                      *)
LEMMA CountRemoved ==
    ASSUME NEW S, IsFiniteSet(S), NEW T, NEW x \in S, T = S \ {x}
    PROVE  Cardinality(T) = Cardinality(S) - 1
BY FS_RemoveElement

-----------------------------------------------------------------------------
(* The initial state.                                                      *)
LEMMA InitIInv == Init => IInv
<1> SUFFICES ASSUME Init PROVE IInv
  OBVIOUS
<1> USE DispatcherAssumption
<1>1. TypeOK
  <2>1. m_thread_objects \subseteq ThreadIds /\ m_thread_min_id \in 0 .. IdMax
        /\ m_tc_running \in Nat /\ m_tc_target \in Nat
    BY DEF Init, ThreadIds
  <2>2. worker \in [ThreadIds -> WorkerStates] /\ client \in [Clients -> ClientStates]
        /\ item \in [ThreadIds -> Jobs \cup {NoJob}]
    BY DEF Init, WorkerStates, ClientStates
  <2>3. runs \in [Jobs -> Nat] /\ cleanups \in [Jobs -> Nat] /\ outcome \in [Jobs -> Outcomes]
    BY DEF Init, Outcomes
  <2> QED  BY <2>1, <2>2, <2>3 DEF Init, TypeOK
<1>2. ThreadsOwned
  <2>1. \A t \in ThreadIds : /\ worker[t] # "none" <=> t \in 0 .. (HardwareConcurrency - 1)
                             /\ worker[t] \notin {"returned", "exited"}
    BY DEF Init, ThreadIds
  <2>2. 0 .. (HardwareConcurrency - 1) \subseteq ThreadIds
    BY DEF ThreadIds
  <2>3. m_thread_objects = {t \in ThreadIds : worker[t] # "none"}
    BY <2>1, <2>2 DEF Init
  <2>4. m_joinable_threads = {t \in ThreadIds : worker[t] \in {"returned", "exited"}}
    BY <2>1 DEF Init
  <2> QED  BY <2>3, <2>4 DEF Init, ThreadsOwned
<1>3. CountersExact
  <2>1. Executing = {} /\ WaitingClients = {} /\ AbortingClients = {}
    BY DEF Init, Executing, WaitingClients, AbortingClients, Waiting
  <2>2. Serving = 0 .. (HardwareConcurrency - 1)
    BY <2>1 DEF Init, Serving, ThreadIds
  <2>3. Cardinality(Serving) = HardwareConcurrency
    BY <2>2, FS_Interval
  <2> QED  BY <2>1, <2>3, FS_EmptySet DEF Init, CountersExact
<1>4. CallsExclude
  BY DEF Init, CallsExclude, Cancelling, Finishing, Closing, Resizing, Aborting
<1>5. NoLostWakeup
  BY DEF Init, NoLostWakeup
<1>6. JobOwnership
  BY DEF Init, JobOwnership, Busy, Holders, InLife
<1>7. Closed
  BY DEF Init, Closed, Aborting
<1> QED  BY <1>1, <1>2, <1>3, <1>4, <1>5, <1>6, <1>7 DEF IInv

-----------------------------------------------------------------------------
(* Counters that a step decrements are positive before it.                 *)
LEMMA CountersPositive ==
    ASSUME TypeOK, CountersExact
    PROVE  /\ \A t \in Executing : m_async_executions > 0
           /\ \A t \in Serving : m_tc_running > 0
           /\ \A c \in WaitingClients : m_waiting_completion_routines > 0
           /\ \A c \in AbortingClients : m_waiting_thread_abort > 0
<1>1. Executing \subseteq ThreadIds /\ Serving \subseteq ThreadIds
  BY DEF Executing, Serving
<1>2. IsFiniteSet(WaitingClients) /\ IsFiniteSet(AbortingClients)
  BY FS_Subset, DispatcherAssumption DEF WaitingClients, AbortingClients
<1> QED  BY <1>1, <1>2, ThreadsFinite, Positive DEF CountersExact
-----------------------------------------------------------------------------
(* ThreadsOwned: the std::thread objects and the ids.                      *)

(* An id is handed out only while no thread object has it.                 *)
LEMMA NewIdUnused ==
    ASSUME TypeOK, ThreadsOwned, NEW id \in ThreadIds, AllocThreadId(id)
    PROVE  /\ id \notin m_thread_objects
           /\ id \notin m_reusable_ids'
           /\ \A t \in m_thread_objects \cup m_reusable_ids' \cup {id} : t < m_thread_min_id'
           /\ m_reusable_ids' \subseteq m_reusable_ids
<1>1. m_thread_min_id \in Nat
  BY DispatcherAssumption DEF TypeOK
<1>2. m_thread_objects \subseteq Nat /\ m_reusable_ids \subseteq Nat
  BY DispatcherAssumption DEF TypeOK, ThreadIds
<1>3. CASE m_reusable_ids # {}
  BY <1>1, <1>2, <1>3 DEF AllocThreadId, AvailableIds, ThreadsOwned
<1>4. CASE m_reusable_ids = {}
  BY <1>1, <1>2, <1>4 DEF AllocThreadId, AvailableIds, ThreadsOwned
<1> QED  BY <1>3, <1>4

(* Every step keeps the std::thread objects, the joinable list and the    *)
(* free ids in agreement with the threads there are.                       *)
LEMMA ThreadsOwnedStep ==
    ASSUME IInv, [Next]_vars
    PROVE  ThreadsOwned'
<1> DEFINE idVars == <<m_thread_objects, m_joinable_threads, m_reusable_ids, m_thread_min_id>>
<1> USE DEF IInv
<1>1. ASSUME UNCHANGED <<idVars, worker>>
      PROVE  ThreadsOwned'
  BY <1>1 DEF ThreadsOwned
<1>2. ASSUME NEW t \in ThreadIds, UNCHANGED idVars,
             NEW a \in {"service"} \cup Busy \cup {"relock"}, worker[t] \in {"service"} \cup Busy \cup {"relock"},
             worker' = [worker EXCEPT ![t] = a]
      PROVE  ThreadsOwned'
  BY <1>2 DEF ThreadsOwned, TypeOK, Busy
<1>3. ASSUME NEW t \in ThreadIds, ThreadExit(t)
      PROVE  ThreadsOwned'
  BY <1>3 DEF ThreadExit, ThreadsOwned, TypeOK, threadVars
<1>4. ASSUME NEW t \in ThreadIds, ServiceStop(t)
      PROVE  ThreadsOwned'
  BY <1>4 DEF ServiceStop, AtService, ThreadsOwned, TypeOK
<1>5. ASSUME NEW c \in Clients, NEW t \in ThreadIds, JoinStopped(c, t)
      PROVE  ThreadsOwned'
  BY <1>5 DEF JoinStopped, ThreadsOwned, TypeOK
<1>7. ASSUME NEW c \in Clients, NEW id \in ThreadIds, StartThread(c, id)
      PROVE  ThreadsOwned'
  <2>1. AllocThreadId(id)
    BY <1>7 DEF StartThread
  <2> QED  BY <1>7, <2>1, NewIdUnused DEF StartThread, ThreadsOwned, TypeOK
<1>8. ASSUME NEW c \in Clients, NEW id \in ThreadIds, StartThrows(c, id)
      PROVE  ThreadsOwned'
  <2>1. AllocThreadId(id)
    BY <1>8 DEF StartThrows
  <2> QED  BY <1>8, <2>1, NewIdUnused DEF StartThrows, ThreadsOwned, TypeOK, workVars
<1>9. ASSUME NEW t \in ThreadIds, ServiceThread(t)
      PROVE  ThreadsOwned'
  <2>1. CASE ServicePark(t)
    BY <1>1, <2>1 DEF ServicePark, threadVars, workVars
  <2>2. ASSUME NEW j \in Jobs, ServiceTake(t, j)
        PROVE  ThreadsOwned'
    BY <1>2, <2>2 DEF ServiceTake, AtService, Busy, threadVars
  <2>3. ASSUME NEW o \in {"completed", "completed_with_exception"}, ExecReturns(t, o)
        PROVE  ThreadsOwned'
    BY <1>2, <2>3 DEF ExecReturns, Busy, threadVars
  <2>4. CASE RunCleanup(t)
    BY <1>2, <2>4 DEF RunCleanup, Busy, threadVars
  <2>5. CASE Relock(t)
    BY <1>2, <2>5 DEF Relock, threadVars
  <2> QED  BY <1>3, <1>4, <1>9, <2>1, <2>2, <2>3, <2>4, <2>5 DEF ServiceThread
<1>10. ASSUME NEW c \in Clients, ClientCalls(c)
       PROVE  ThreadsOwned'
  BY <1>1, <1>10 DEF ClientCalls, Submit, Enqueue, CallCancelAll, CallFinishAll, CallDestroy, Call,
         CancelAllQuick, CallSetServiceThreadCount, threadVars, workVars
<1>11. ASSUME NEW c \in Clients, ClientContinues(c)
       PROVE  ThreadsOwned'
  <2>1. CASE CancelAll(c) \/ FinishAll(c) \/ IdsExhausted(c) \/ Started(c) \/ Abort(c)
             \/ AbortResumes(c) \/ FinalJoin(c) \/ \E n \in Counts : SetTarget(c, n)
    BY <1>1, <2>1 DEF CancelAll, FinishAll, IdsExhausted, Started, Abort, AbortResumes,
           FinalJoin, SetTarget, threadVars, workVars
  <2> QED  BY <1>5, <1>7, <1>8, <1>11, <2>1 DEF ClientContinues
<1>12. ASSUME NEW t \in ThreadIds, NEW j \in Jobs, JobSubmit(t, j)
       PROVE  ThreadsOwned'
  BY <1>1, <1>12 DEF JobSubmit, Enqueue, threadVars, workVars
<1>13. ASSUME NEW a \in parked, SpuriousWakeup(a)
       PROVE  ThreadsOwned'
  BY <1>1, <1>13 DEF SpuriousWakeup, threadVars, workVars
<1>14. CASE UNCHANGED vars
  BY <1>1, <1>14 DEF vars, threadVars, workVars
<1> QED  BY <1>9, <1>10, <1>11, <1>12, <1>13, <1>14 DEF Next, Stopped

-----------------------------------------------------------------------------
(* CountersExact: m_async_executions and m_tc_running count the service    *)
(* threads that execute and that serve.                                    *)

WorkerCounts == m_async_executions = Cardinality(Executing) /\ m_tc_running = Cardinality(Serving)

(* m_async_executions and m_tc_running keep counting the service threads.  *)
LEMMA WorkerCountsStep ==
    ASSUME IInv, [Next]_vars
    PROVE  WorkerCounts'
<1> USE DEF WorkerCounts
<1>0. /\ TypeOK /\ ThreadsOwned
      /\ m_async_executions = Cardinality(Executing) /\ m_tc_running = Cardinality(Serving)
      /\ IsFiniteSet(Executing) /\ IsFiniteSet(Serving)
  BY ThreadsFinite DEF IInv, CountersExact, Executing, Serving
<1>1. ASSUME UNCHANGED <<worker, m_async_executions, m_tc_running>>
      PROVE  WorkerCounts'
  BY <1>0, <1>1 DEF Executing, Serving
<1>2. ASSUME NEW t \in ThreadIds, ServiceStop(t)
      PROVE  WorkerCounts'
  <2>1. t \in Serving /\ Serving' = Serving \ {t} /\ Executing' = Executing
    BY <1>0, <1>2 DEF ServiceStop, AtService, Executing, Serving, TypeOK
  <2> QED  BY <1>0, <1>2, <2>1, CountRemoved DEF ServiceStop
<1>3. ASSUME NEW t \in ThreadIds, NEW j \in Jobs, ServiceTake(t, j)
      PROVE  WorkerCounts'
  <2>1. t \notin Executing /\ Executing' = Executing \cup {t} /\ Serving' = Serving
    BY <1>0, <1>3 DEF ServiceTake, AtService, Executing, Serving, TypeOK
  <2> QED  BY <1>0, <1>3, <2>1, CountAdded DEF ServiceTake, threadVars
<1>4. ASSUME NEW t \in ThreadIds, Relock(t)
      PROVE  WorkerCounts'
  <2>1. t \in Executing /\ Executing' = Executing \ {t} /\ Serving' = Serving
    BY <1>0, <1>4 DEF Relock, Executing, Serving, TypeOK
  <2> QED  BY <1>0, <1>4, <2>1, CountRemoved DEF Relock, threadVars
<1>5. ASSUME NEW t \in ThreadIds,
             \/ \E o \in {"completed", "completed_with_exception"} : ExecReturns(t, o)
             \/ RunCleanup(t) \/ ThreadExit(t)
      PROVE  WorkerCounts'
  <2>1. Executing' = Executing /\ Serving' = Serving
    BY <1>0, <1>5 DEF ExecReturns, RunCleanup, ThreadExit, Executing, Serving, TypeOK
  <2> QED  BY <1>0, <1>5, <2>1 DEF ExecReturns, RunCleanup, ThreadExit, threadVars
<1>6. ASSUME NEW c \in Clients, NEW t \in ThreadIds, JoinStopped(c, t)
      PROVE  WorkerCounts'
  <2>1. Executing' = Executing /\ Serving' = Serving
    BY <1>0, <1>6 DEF JoinStopped, Executing, Serving, TypeOK
  <2> QED  BY <1>0, <1>6, <2>1 DEF JoinStopped
<1>7. ASSUME NEW c \in Clients, NEW id \in ThreadIds, StartThread(c, id)
      PROVE  WorkerCounts'
  <2>1. worker[id] = "none"
    BY <1>0, <1>7, NewIdUnused DEF StartThread, ThreadsOwned
  <2>2. id \notin Serving /\ Serving' = Serving \cup {id} /\ Executing' = Executing
    BY <1>0, <1>7, <2>1 DEF StartThread, Executing, Serving, TypeOK
  <2> QED  BY <1>0, <1>7, <2>2, CountAdded DEF StartThread
<1>8. ASSUME NEW t \in ThreadIds, ServiceThread(t)
      PROVE  WorkerCounts'
  BY <1>1, <1>2, <1>3, <1>4, <1>5, <1>8 DEF ServiceThread, ServicePark, threadVars, workVars
<1>9. ASSUME NEW c \in Clients, ClientCalls(c)
      PROVE  WorkerCounts'
  BY <1>1, <1>9 DEF ClientCalls, Submit, Enqueue, CallCancelAll, CallFinishAll, CallDestroy, Call,
         CancelAllQuick, CallSetServiceThreadCount, threadVars, workVars
<1>10. ASSUME NEW c \in Clients, ClientContinues(c)
       PROVE  WorkerCounts'
  <2>1. CASE CancelAll(c) \/ FinishAll(c) \/ IdsExhausted(c) \/ Started(c) \/ Abort(c)
             \/ AbortResumes(c) \/ FinalJoin(c) \/ (\E n \in Counts : SetTarget(c, n))
             \/ (\E id \in ThreadIds : StartThrows(c, id))
    BY <1>1, <2>1 DEF CancelAll, FinishAll, IdsExhausted, Started, Abort, AbortResumes,
           FinalJoin, SetTarget, StartThrows, threadVars, workVars
  <2> QED  BY <1>6, <1>7, <1>10, <2>1 DEF ClientContinues
<1>11. ASSUME \/ \E t \in ThreadIds, j \in Jobs : JobSubmit(t, j)
              \/ \E a \in parked : SpuriousWakeup(a)
              \/ UNCHANGED vars
       PROVE  WorkerCounts'
  BY <1>1, <1>11 DEF JobSubmit, Enqueue, SpuriousWakeup, vars, threadVars, workVars
<1> QED  BY <1>8, <1>9, <1>10, <1>11 DEF Next, Stopped

-----------------------------------------------------------------------------
(* CountersExact: m_waiting_completion_routines and m_waiting_thread_abort *)
(* count the clients in the waits.                                         *)

CallCounts == /\ m_waiting_completion_routines = Cardinality(WaitingClients)
              /\ m_waiting_thread_abort = Cardinality(AbortingClients)

(* The counters of waiting and of aborting callers keep counting them.     *)
LEMMA CallCountsStep ==
    ASSUME IInv, [Next]_vars
    PROVE  CallCounts'
<1> USE DEF CallCounts
<1>0. /\ client \in [Clients -> ClientStates]
      /\ m_waiting_completion_routines \in Nat /\ m_waiting_thread_abort \in Nat
      /\ m_waiting_completion_routines = Cardinality(WaitingClients)
      /\ m_waiting_thread_abort = Cardinality(AbortingClients)
      /\ IsFiniteSet(WaitingClients) /\ IsFiniteSet(AbortingClients)
  BY DispatcherAssumption, FS_Subset DEF IInv, TypeOK, CountersExact, WaitingClients, AbortingClients
<1>1. ASSUME UNCHANGED callVars
      PROVE  CallCounts'
  BY <1>0, <1>1 DEF callVars, WaitingClients, AbortingClients
<1>2. ASSUME NEW c \in Clients, NEW s \in ClientStates \ (Waiting \cup {"abort_waiting", "final_join"}),
             client[c] \notin Waiting \cup {"abort_waiting", "final_join"},
             client' = [client EXCEPT ![c] = s],
             UNCHANGED <<m_waiting_completion_routines, m_waiting_thread_abort>>
      PROVE  CallCounts'
  <2>1. WaitingClients' = WaitingClients /\ AbortingClients' = AbortingClients
    BY <1>0, <1>2 DEF WaitingClients, AbortingClients
  <2> QED  BY <1>0, <1>2, <2>1
<1>3. ASSUME NEW c \in Clients, client[c] \in Cancelling \cup Finishing \cup {"destroy", "destroy_waiting"},
             EnterWait(c), UNCHANGED m_waiting_thread_abort
      PROVE  CallCounts'
  <2>1. WaitOf(client[c]) \in Waiting
    BY DEF WaitOf, Waiting
  <2>2. AbortingClients' = AbortingClients
    BY <1>0, <1>3, <2>1 DEF EnterWait, AbortingClients, Waiting, Cancelling, Finishing
  <2>3. CASE client[c] \in Waiting
    <3>1. WaitingClients' = WaitingClients
      BY <1>0, <1>3, <2>1, <2>3 DEF EnterWait, WaitingClients
    <3> QED  BY <1>0, <1>3, <2>2, <2>3, <3>1 DEF EnterWait, OtherWaiters
  <2>4. CASE client[c] \notin Waiting
    <3>1. c \notin WaitingClients /\ WaitingClients' = WaitingClients \cup {c}
      BY <1>0, <1>3, <2>1, <2>4 DEF EnterWait, WaitingClients
    <3> QED  BY <1>0, <1>3, <2>2, <2>4, <3>1, CountAdded DEF EnterWait, OtherWaiters
  <2> QED  BY <2>3, <2>4
<1>4. ASSUME NEW c \in Clients, client[c] \in Cancelling \cup Finishing \cup {"destroy", "destroy_waiting"},
             LeaveWait(c), UNCHANGED m_waiting_thread_abort
      PROVE  CallCounts'
  <2>1. ReturnOf(client[c]) \in {"idle", "abort"}
    BY DEF ReturnOf
  <2>2. AbortingClients' = AbortingClients
    BY <1>0, <1>4, <2>1 DEF LeaveWait, AbortingClients, Cancelling, Finishing
  <2>3. CASE client[c] \notin Waiting
    <3>1. WaitingClients' = WaitingClients
      BY <1>0, <1>4, <2>1, <2>3 DEF LeaveWait, WaitingClients, Waiting
    <3> QED  BY <1>0, <1>4, <2>2, <2>3, <3>1 DEF LeaveWait, OtherWaiters
  <2>4. CASE client[c] \in Waiting
    <3>1. c \in WaitingClients /\ WaitingClients' = WaitingClients \ {c}
      BY <1>0, <1>4, <2>1, <2>4 DEF LeaveWait, WaitingClients, Waiting
    <3> QED  BY <1>0, <1>4, <2>2, <2>4, <3>1, CountRemoved DEF LeaveWait, OtherWaiters
  <2> QED  BY <2>3, <2>4
<1>5. ASSUME NEW c \in Clients, Abort(c) \/ AbortResumes(c)
      PROVE  CallCounts'
  <2>1. PICK s \in {"abort_waiting", "final_join"} : client' = [client EXCEPT ![c] = s]
    BY <1>5 DEF Abort, AbortResumes, AbortWait
  <2>2. client[c] \in {"abort", "abort_waiting"}
    BY <1>5 DEF Abort, AbortResumes
  <2>3. WaitingClients' = WaitingClients
    BY <1>0, <2>1, <2>2 DEF WaitingClients, Waiting
  <2>4. AbortingClients' = AbortingClients \cup {c}
    BY <1>0, <2>1, <2>2 DEF AbortingClients
  <2>5. c \in AbortingClients <=> client[c] = "abort_waiting"
    BY <2>2 DEF AbortingClients
  <2>6. CASE Abort(c)
    BY <1>0, <2>3, <2>4, <2>5, <2>6, CountAdded DEF Abort
  <2>7. CASE AbortResumes(c)
    <3>1. AbortingClients' = AbortingClients
      BY <2>4, <2>5, <2>7 DEF AbortResumes
    <3> QED  BY <1>0, <2>3, <2>7, <3>1 DEF AbortResumes
  <2> QED  BY <1>5, <2>6, <2>7
<1>6. ASSUME NEW c \in Clients, FinalJoin(c)
      PROVE  CallCounts'
  <2>1. WaitingClients' = WaitingClients
    BY <1>0, <1>6 DEF FinalJoin, WaitingClients, Waiting
  <2>2. c \in AbortingClients /\ AbortingClients' = AbortingClients \ {c}
    BY <1>0, <1>6 DEF FinalJoin, AbortingClients
  <2> QED  BY <1>0, <1>6, <2>1, <2>2, CountRemoved DEF FinalJoin
<1>7. ASSUME NEW c \in Clients, ClientCalls(c)
      PROVE  CallCounts'
  <2>1. CASE CallCancelAll(c) \/ CallFinishAll(c) \/ CallDestroy(c) \/ CallSetServiceThreadCount(c)
    BY <1>2, <2>1 DEF CallCancelAll, CallFinishAll, CallDestroy, CallSetServiceThreadCount, Call,
           ClientStates, Cancelling, Finishing, Closing, Resizing, Waiting
  <2> QED  BY <1>1, <1>7, <2>1 DEF ClientCalls, Submit, Enqueue, CancelAllQuick
<1>8. ASSUME NEW c \in Clients, ClientContinues(c)
      PROVE  CallCounts'
  <2>1. CASE CancelAll(c) \/ FinishAll(c)
    BY <1>3, <1>4, <2>1 DEF CancelAll, FinishAll
  <2>2. CASE \/ Started(c) \/ \E n \in Counts : SetTarget(c, n)
             \/ \E id \in ThreadIds : StartThrows(c, id)
    BY <1>1, <1>2, <2>2 DEF Started, SetTarget, StartThrows, ClientStates, Resizing, Waiting, callVars
  <2>3. CASE \/ IdsExhausted(c) \/ \E t \in ThreadIds : JoinStopped(c, t) \/ StartThread(c, t)
    BY <1>1, <2>3 DEF IdsExhausted, JoinStopped, StartThread
  <2> QED  BY <1>5, <1>6, <1>8, <2>1, <2>2, <2>3 DEF ClientContinues
<1>9. ASSUME \/ \E t \in ThreadIds : ServiceThread(t)
             \/ \E t \in ThreadIds, j \in Jobs : JobSubmit(t, j)
             \/ \E a \in parked : SpuriousWakeup(a)
             \/ UNCHANGED vars
      PROVE  CallCounts'
  BY <1>1, <1>9 DEF ServiceThread, ServicePark, ServiceStop, ServiceTake, ExecReturns, RunCleanup,
         Relock, ThreadExit, JobSubmit, Enqueue, SpuriousWakeup, vars
<1> QED  BY <1>7, <1>8, <1>9 DEF Next, Stopped

-----------------------------------------------------------------------------
(* TypeOK: the counters stay natural numbers because each is positive      *)
(* where it is decremented.                                                *)

(* Every step keeps every member in its type.                              *)
LEMMA TypeStep ==
    ASSUME IInv, [Next]_vars
    PROVE  TypeOK'
<1> USE DEF lockVars, threadVars, workVars, callVars, jobVars, otherVars
<1>0. TypeOK /\ ThreadsOwned /\ CountersExact /\ JobOwnership
  BY DEF IInv
<1>1. ASSUME NEW j \in Jobs, Enqueue(j)
      PROVE  TypeOK'
  BY <1>0, <1>1 DEF Enqueue, NotifyAll, TypeOK
<1>2. ASSUME NEW S, NEW o \in Outcomes, CleanUp(S, o)
      PROVE  cleanups' \in [Jobs -> Nat] /\ outcome' \in [Jobs -> Outcomes]
  BY <1>0, <1>2 DEF CleanUp, TypeOK
<1>3. ASSUME NEW c \in Clients, ClientCalls(c)
      PROVE  TypeOK'
  <2>1. CASE CallCancelAll(c) \/ CallFinishAll(c) \/ CallDestroy(c) \/ CallSetServiceThreadCount(c)
    BY <1>0, <2>1 DEF CallCancelAll, CallFinishAll, CallDestroy, CallSetServiceThreadCount, Call,
           TypeOK, ClientStates, Cancelling, Finishing, Closing, Resizing
  <2>2. CASE CancelAllQuick(c)
    <3>1. parked' \subseteq parked
      BY <2>2 DEF CancelAllQuick, NotifyCompletion
    <3>2. cleanups' \in [Jobs -> Nat] /\ outcome' \in [Jobs -> Outcomes]
      BY <1>2, <2>2 DEF CancelAllQuick, Outcomes
    <3> QED  BY <1>0, <2>2, <3>1, <3>2 DEF CancelAllQuick, TypeOK
  <2> QED  BY <1>1, <1>3, <2>1, <2>2 DEF ClientCalls, Submit
<1>4. ASSUME NEW c \in Clients, client[c] \in Cancelling \cup Finishing \cup {"destroy", "destroy_waiting"},
             EnterWait(c) \/ LeaveWait(c)
      PROVE  /\ client' \in [Clients -> ClientStates]
             /\ m_waiting_completion_routines' \in Nat
             /\ parked' \subseteq ThreadIds \cup Clients
  <2>1. OtherWaiters(c) \in Nat
    BY <1>0, CountersPositive DEF OtherWaiters, TypeOK, WaitingClients
  <2>2. WaitOf(client[c]) \in ClientStates /\ ReturnOf(client[c]) \in ClientStates
    BY DEF WaitOf, ReturnOf, ClientStates, Cancelling, Finishing, Closing, Aborting
  <2> QED  BY <1>0, <1>4, <2>1, <2>2 DEF EnterWait, LeaveWait, TypeOK
<1>5. ASSUME NEW c \in Clients, CancelAll(c)
      PROVE  TypeOK'
  <2>1. cleanups' \in [Jobs -> Nat] /\ outcome' \in [Jobs -> Outcomes]
    BY <1>2, <1>5 DEF CancelAll, Outcomes
  <2>2. /\ client' \in [Clients -> ClientStates]
        /\ m_waiting_completion_routines' \in Nat
        /\ parked' \subseteq ThreadIds \cup Clients
    BY <1>4, <1>5 DEF CancelAll
  <2> QED  BY <1>0, <1>5, <2>1, <2>2 DEF CancelAll, TypeOK
<1>6. ASSUME NEW c \in Clients, FinishAll(c)
      PROVE  TypeOK'
  <2>1. /\ client' \in [Clients -> ClientStates]
        /\ m_waiting_completion_routines' \in Nat
        /\ parked' \subseteq ThreadIds \cup Clients
    BY <1>4, <1>6 DEF FinishAll
  <2> QED  BY <1>0, <1>6, <2>1 DEF FinishAll, TypeOK
<1>7. ASSUME NEW c \in Clients, NEW t \in ThreadIds, JoinStopped(c, t)
      PROVE  TypeOK'
  BY <1>0, <1>7 DEF JoinStopped, TypeOK, WorkerStates
<1>8. ASSUME NEW c \in Clients, NEW n \in Counts, SetTarget(c, n)
      PROVE  TypeOK'
  <2>1. n \in Nat
    BY DispatcherAssumption
  <2> QED  BY <1>0, <1>8, <2>1 DEF SetTarget, NotifyAll, TypeOK, ClientStates, Resizing
<1>9. ASSUME NEW id \in ThreadIds, AllocThreadId(id)
      PROVE  m_reusable_ids' \subseteq ThreadIds /\ m_thread_min_id' \in 0 .. IdMax
  BY <1>0, <1>9, DispatcherAssumption DEF AllocThreadId, AvailableIds, TypeOK
<1>10. ASSUME NEW c \in Clients, NEW id \in ThreadIds, StartThread(c, id)
       PROVE  TypeOK'
  <2>1. m_reusable_ids' \subseteq ThreadIds /\ m_thread_min_id' \in 0 .. IdMax
    BY <1>9, <1>10 DEF StartThread
  <2> QED  BY <1>0, <1>10, <2>1 DEF StartThread, TypeOK, WorkerStates
<1>11. ASSUME NEW c \in Clients, NEW id \in ThreadIds, StartThrows(c, id)
       PROVE  TypeOK'
  <2>1. m_reusable_ids' \subseteq ThreadIds /\ m_thread_min_id' \in 0 .. IdMax
    BY <1>9, <1>11 DEF StartThrows
  <2> QED  BY <1>0, <1>11, <2>1 DEF StartThrows, TypeOK, ClientStates
<1>12. ASSUME NEW c \in Clients, IdsExhausted(c) \/ Started(c)
       PROVE  TypeOK'
  BY <1>0, <1>12 DEF IdsExhausted, Started, TypeOK, ClientStates
<1>13. ASSUME NEW c \in Clients, Abort(c) \/ AbortResumes(c)
       PROVE  TypeOK'
  BY <1>0, <1>13 DEF Abort, AbortResumes, AbortWait, TypeOK, ClientStates, Closing, Aborting
<1>14. ASSUME NEW c \in Clients, FinalJoin(c)
       PROVE  TypeOK'
  <2>1. m_waiting_thread_abort - 1 \in Nat
    BY <1>0, <1>14, CountersPositive DEF FinalJoin, TypeOK, AbortingClients
  <2> QED  BY <1>0, <1>14, <2>1 DEF FinalJoin, TypeOK, ClientStates, Closing
<1>15. ASSUME NEW c \in Clients, ClientContinues(c)
       PROVE  TypeOK'
  BY <1>5, <1>6, <1>7, <1>8, <1>10, <1>11, <1>12, <1>13, <1>14, <1>15 DEF ClientContinues
<1>16. ASSUME NEW t \in ThreadIds, ServicePark(t) \/ ThreadExit(t)
       PROVE  TypeOK'
  BY <1>0, <1>16 DEF ServicePark, ThreadExit, TypeOK, WorkerStates
<1>17. ASSUME NEW t \in ThreadIds, ServiceStop(t)
       PROVE  TypeOK'
  <2>1. m_tc_running - 1 \in Nat
    BY <1>0, <1>17, CountersPositive DEF ServiceStop, AtService, TypeOK, Serving
  <2> QED  BY <1>0, <1>17, <2>1 DEF ServiceStop, NotifyAbort, TypeOK, WorkerStates
<1>18. ASSUME NEW t \in ThreadIds, NEW j \in Jobs, ServiceTake(t, j)
       PROVE  TypeOK'
  BY <1>0, <1>18 DEF ServiceTake, Pop, TypeOK, WorkerStates
<1>19. ASSUME NEW t \in ThreadIds, NEW o \in {"completed", "completed_with_exception"}, ExecReturns(t, o)
       PROVE  TypeOK'
  BY <1>0, <1>19 DEF ExecReturns, TypeOK, WorkerStates
<1>20. ASSUME NEW t \in ThreadIds, RunCleanup(t)
       PROVE  TypeOK'
  <2>1. cleanups' \in [Jobs -> Nat] /\ outcome' \in [Jobs -> Outcomes]
    BY <1>2, <1>20 DEF RunCleanup, Outcomes
  <2> QED  BY <1>0, <1>20, <2>1 DEF RunCleanup, TypeOK, WorkerStates
<1>21. ASSUME NEW t \in ThreadIds, Relock(t)
       PROVE  TypeOK'
  <2>1. m_async_executions - 1 \in Nat
    BY <1>0, <1>21, CountersPositive DEF Relock, TypeOK, Executing
  <2> QED  BY <1>0, <1>21, <2>1 DEF Relock, NotifyCompletion, TypeOK, WorkerStates
<1>22. ASSUME NEW t \in ThreadIds, ServiceThread(t)
       PROVE  TypeOK'
  BY <1>16, <1>17, <1>18, <1>19, <1>20, <1>21, <1>22 DEF ServiceThread
<1>23. ASSUME NEW a \in parked, SpuriousWakeup(a)
       PROVE  TypeOK'
  BY <1>0, <1>23 DEF SpuriousWakeup, TypeOK
<1>24. CASE UNCHANGED vars
  BY <1>0, <1>24 DEF vars, TypeOK
<1> QED  BY <1>1, <1>3, <1>15, <1>22, <1>23, <1>24 DEF Next, Stopped, JobSubmit

-----------------------------------------------------------------------------
(* CallsExclude: who may be in which call together, who holds the mutex.   *)

(* Every step keeps conflicting calls apart and the mutex with its holder. *)
LEMMA CallsExcludeStep ==
    ASSUME IInv, [Next]_vars
    PROVE  CallsExclude'
<1> USE DEF lockVars, threadVars, workVars, callVars, jobVars, otherVars
<1>0. TypeOK /\ ThreadsOwned /\ CallsExclude /\ Free \notin Clients /\ Clients \cap ThreadIds = {}
  BY DispatcherAssumption DEF IInv
<1>1. ASSUME UNCHANGED <<mtx, client, worker>>, parked' \subseteq parked
      PROVE  CallsExclude'
  BY <1>0, <1>1 DEF CallsExclude
<1>2. ASSUME UNCHANGED <<mtx, client>>, parked' \subseteq parked, NEW t \in ThreadIds, t \notin parked,
             NEW a \in WorkerStates, worker' = [worker EXCEPT ![t] = a]
      PROVE  CallsExclude'
  BY <1>0, <1>2 DEF CallsExclude, TypeOK
<1>3. ASSUME NEW c \in Clients, CallCancelAll(c) \/ CallFinishAll(c) \/ CallSetServiceThreadCount(c)
      PROVE  CallsExclude'
  BY <1>0, <1>3 DEF CallCancelAll, CallFinishAll, CallSetServiceThreadCount, Call, InCall,
         CallsExclude, TypeOK, Cancelling, Finishing, Closing, Aborting, Resizing
<1>4. ASSUME NEW c \in Clients, CallDestroy(c)
      PROVE  CallsExclude'
  <2>1. \A d \in Clients : client[d] = "idle"
    BY <1>0, <1>4 DEF CallDestroy, Call, InCall, TypeOK
  <2> QED  BY <1>0, <1>4, <2>1 DEF CallDestroy, Call, CallsExclude, TypeOK,
             Cancelling, Finishing, Closing, Aborting, Resizing
<1>5. ASSUME NEW c \in Clients, NEW s \in ClientStates,
             client' = [client EXCEPT ![c] = s],
             s \in Cancelling => client[c] \in Cancelling,
             s \in Finishing => client[c] \in Finishing,
             s \in Closing => client[c] \in Closing,
             client[c] \in Closing => s \in Closing,
             mtx' = IF s \in Resizing \cup {"final_join"} THEN c ELSE Free,
             mtx \in {Free, c},
             s \notin Resizing \/ mtx = c,
             UNCHANGED worker, parked' \subseteq parked \cup {c}
      PROVE  CallsExclude'
  <2>1. client'[c] = s /\ \A d \in Clients : d # c => client'[d] = client[d]
    BY <1>0, <1>5 DEF TypeOK
  <2>2. \A d, e \in Clients : client'[d] \in Cancelling => client'[e] \notin Finishing
    BY <1>0, <1>5, <2>1 DEF CallsExclude
  <2>3. \A d, e \in Clients : client'[d] \in Closing /\ d # e => client'[e] = "idle"
    <3>1. "idle" \notin Closing
      BY DEF Closing, Aborting
    <3>2. ASSUME NEW d \in Clients, client[d] \in Closing, d # c
          PROVE  s = "idle"
      <4>1. client[c] = "idle"
        BY <1>0, <3>2 DEF CallsExclude
      <4>2. mtx # c
        BY <1>0, <4>1 DEF CallsExclude, Resizing
      <4> QED  BY <1>5, <3>1, <4>1, <4>2
             DEF ClientStates, Cancelling, Finishing, Closing, Aborting, Resizing
    <3> QED  BY <1>0, <1>5, <2>1, <3>2 DEF CallsExclude
  <2>4. \A d \in Clients : client'[d] \in Resizing \cup {"final_join"} <=> mtx' = d
    BY <1>0, <1>5, <2>1 DEF CallsExclude
  <2>5. \A t \in ThreadIds \cap parked' : worker'[t] = "service"
    BY <1>0, <1>5 DEF CallsExclude
  <2> QED  BY <2>2, <2>3, <2>4, <2>5 DEF CallsExclude
<1>6. ASSUME NEW c \in Clients, client[c] \in Cancelling \cup Finishing \cup {"destroy", "destroy_waiting"},
             mtx = Free, UNCHANGED <<mtx, worker>>, EnterWait(c) \/ LeaveWait(c)
      PROVE  CallsExclude'
  <2>1. CASE EnterWait(c)
    BY <1>5, <1>6, <2>1 DEF EnterWait, WaitOf, ClientStates, Cancelling, Finishing, Closing, Aborting, Resizing
  <2>2. CASE LeaveWait(c)
    BY <1>5, <1>6, <2>2 DEF LeaveWait, ReturnOf, ClientStates, Cancelling, Finishing, Closing, Aborting, Resizing
  <2> QED  BY <1>6, <2>1, <2>2
<1>7. ASSUME NEW c \in Clients, CancelAll(c) \/ FinishAll(c)
      PROVE  CallsExclude'
  BY <1>6, <1>7 DEF CancelAll, FinishAll
<1>8. ASSUME NEW c \in Clients, client[c] \in Resizing,
             \/ Started(c) \/ \E n \in Counts : SetTarget(c, n)
             \/ \E id \in ThreadIds : StartThrows(c, id)
      PROVE  CallsExclude'
  <2>1. mtx = c
    BY <1>0, <1>8 DEF CallsExclude
  <2>2. PICK s \in {"idle", "starting"} : /\ client' = [client EXCEPT ![c] = s]
                                          /\ mtx' = IF s = "starting" THEN c ELSE Free
    BY <1>8, <2>1 DEF Started, SetTarget, StartThrows
  <2>3. UNCHANGED worker /\ parked' \subseteq parked
    BY <1>8 DEF Started, SetTarget, StartThrows, NotifyAll
  <2> QED  BY <1>5, <1>8, <2>1, <2>2, <2>3
           DEF ClientStates, Cancelling, Finishing, Closing, Aborting, Resizing
<1>9. ASSUME NEW c \in Clients, Abort(c) \/ AbortResumes(c)
      PROVE  CallsExclude'
  <2>1. PICK s \in {"abort_waiting", "final_join"} : /\ client' = [client EXCEPT ![c] = s]
                                                      /\ mtx' = IF s = "final_join" THEN c ELSE Free
    BY <1>9 DEF Abort, AbortResumes, AbortWait
  <2>2. UNCHANGED worker /\ parked' \subseteq parked \cup {c} /\ mtx = Free /\ client[c] \in {"abort", "abort_waiting"}
    BY <1>9 DEF Abort, AbortResumes, AbortWait
  <2> QED  BY <1>5, <2>1, <2>2 DEF ClientStates, Cancelling, Finishing, Closing, Aborting, Resizing
<1>10. ASSUME NEW c \in Clients, FinalJoin(c)
       PROVE  CallsExclude'
  <2>1. mtx = c
    BY <1>0, <1>10 DEF FinalJoin, CallsExclude
  <2> QED  BY <1>5, <1>10, <2>1 DEF FinalJoin, ClientStates, Cancelling, Finishing, Closing, Aborting, Resizing
<1>11. ASSUME NEW c \in Clients, NEW t \in ThreadIds, JoinStopped(c, t)
       PROVE  CallsExclude'
  <2>1. t \notin parked
    BY <1>0, <1>11 DEF JoinStopped, CallsExclude
  <2> QED  BY <1>2, <1>11, <2>1 DEF JoinStopped, WorkerStates
<1>12. ASSUME NEW c \in Clients, NEW id \in ThreadIds, StartThread(c, id)
       PROVE  CallsExclude'
  BY <1>0, <1>12 DEF StartThread, CallsExclude, TypeOK
<1>13. ASSUME NEW c \in Clients, ClientContinues(c)
       PROVE  CallsExclude'
  <2>1. client[c] \in Resizing \/ ~(Started(c) \/ (\E n \in Counts : SetTarget(c, n))
                                    \/ \E id \in ThreadIds : StartThrows(c, id))
    BY DEF Started, SetTarget, StartThrows, Resizing
  <2>2. CASE IdsExhausted(c)
    BY <1>1, <2>2 DEF IdsExhausted
  <2> QED  BY <1>7, <1>8, <1>9, <1>10, <1>11, <1>12, <1>13, <2>1, <2>2 DEF ClientContinues
<1>14. ASSUME NEW t \in ThreadIds, ServicePark(t)
       PROVE  CallsExclude'
  BY <1>0, <1>14 DEF ServicePark, AtService, CallsExclude
<1>15. ASSUME NEW t \in ThreadIds, ServiceThread(t), ~ServicePark(t)
       PROVE  CallsExclude'
  <2>1. t \notin parked
    BY <1>0, <1>15 DEF ServiceThread, ServiceStop, ServiceTake, AtService, ExecReturns, RunCleanup,
           Relock, ThreadExit, CallsExclude
  <2>2. UNCHANGED <<mtx, client>> /\ parked' \subseteq parked
    BY <1>15 DEF ServiceThread, ServiceStop, ServiceTake, ExecReturns, RunCleanup, Relock, ThreadExit,
           NotifyAbort, NotifyCompletion
  <2>3. PICK a \in WorkerStates : worker' = [worker EXCEPT ![t] = a]
    BY <1>15 DEF ServiceThread, ServiceStop, ServiceTake, ExecReturns, RunCleanup, Relock, ThreadExit,
           WorkerStates
  <2> QED  BY <1>2, <2>1, <2>2, <2>3
<1>16. ASSUME \/ \E j \in Jobs : Enqueue(j)
              \/ \E c \in Clients : CancelAllQuick(c)
              \/ \E a \in parked : SpuriousWakeup(a)
              \/ UNCHANGED vars
       PROVE  CallsExclude'
  BY <1>1, <1>16 DEF Enqueue, CancelAllQuick, SpuriousWakeup, NotifyAll, NotifyCompletion, vars
<1> QED  BY <1>3, <1>4, <1>13, <1>14, <1>15, <1>16 DEF Next, Stopped, ClientCalls, Submit, JobSubmit

-----------------------------------------------------------------------------
(* NoLostWakeup: a step that could make the predicate of a parked thread   *)
(* true notifies, or nobody waits for that predicate.                      *)

(* No step leaves a parked thread behind whose predicate it has made true. *)
LEMMA NoLostWakeupStep ==
    ASSUME IInv, [Next]_vars
    PROVE  NoLostWakeup'
<1> USE DEF lockVars, threadVars, workVars, callVars, jobVars, otherVars
<1>0. /\ TypeOK /\ CountersExact /\ CallsExclude /\ NoLostWakeup
      /\ Clients \cap ThreadIds = {}
  BY DispatcherAssumption DEF IInv
<1> DEFINE waitVars == <<m_tc_running, m_tc_target, m_queue, m_async_executions>>
<1>1. ASSUME parked' = {}
      PROVE  NoLostWakeup'
  BY <1>1 DEF NoLostWakeup
<1>2. ASSUME UNCHANGED <<waitVars, client>>, parked' \subseteq parked
      PROVE  NoLostWakeup'
  BY <1>0, <1>2 DEF NoLostWakeup, ServiceWakes, CancelWakes, FinishWakes, AbortWakes
<1>3. ASSUME UNCHANGED waitVars, NEW c \in Clients, c \notin parked, NEW s,
             client' = [client EXCEPT ![c] = s], parked' \subseteq parked
      PROVE  NoLostWakeup'
  BY <1>0, <1>3 DEF NoLostWakeup, ServiceWakes, CancelWakes, FinishWakes, AbortWakes, TypeOK
<1>4. ASSUME NEW c \in Clients, c \in parked
      PROVE  client[c] \in Waiting \cup {"abort_waiting"}
  BY <1>0, <1>4 DEF NoLostWakeup, Waiting
<1>5. ASSUME NEW c \in Clients, ClientCalls(c)
      PROVE  NoLostWakeup'
  <2>1. CASE CallCancelAll(c) \/ CallFinishAll(c) \/ CallDestroy(c) \/ CallSetServiceThreadCount(c)
    BY <1>3, <1>4, <2>1 DEF CallCancelAll, CallFinishAll, CallDestroy, CallSetServiceThreadCount, Call, Waiting
  <2>2. CASE CancelAllQuick(c)
    <3>1. /\ parked' \subseteq parked /\ m_queue' = {}
          /\ UNCHANGED <<client, m_tc_running, m_tc_target, m_async_executions>>
      BY <2>2 DEF CancelAllQuick, NotifyCompletion
    <3>2. \A d \in Clients : client[d] \notin Waiting
      BY <2>2 DEF CancelAllQuick, MaySubmit, InCall, Waiting, Cancelling, Finishing, Closing
    <3> QED  BY <1>0, <3>1, <3>2 DEF NoLostWakeup, ServiceWakes, AbortWakes, Waiting
  <2>3. ASSUME NEW j \in Jobs, Submit(c, j)
        PROVE  NoLostWakeup'
    BY <1>1, <2>3 DEF Submit, Enqueue, NotifyAll
  <2> QED  BY <1>5, <2>1, <2>2, <2>3 DEF ClientCalls
<1>6. ASSUME NEW c \in Clients, CancelAll(c)
      PROVE  NoLostWakeup'
  <2>1. /\ m_queue' = {} /\ UNCHANGED <<m_tc_running, m_tc_target, m_async_executions>>
        /\ c \notin parked
    BY <1>6 DEF CancelAll
  <2>2. \A d \in Clients : client[d] # "finish_waiting"
    BY <1>0, <1>6 DEF CancelAll, CallsExclude, Cancelling, Finishing, Closing
  <2>3. \A d \in Clients : d # c => client'[d] = client[d]
    BY <1>0, <1>6 DEF CancelAll, EnterWait, LeaveWait, TypeOK
  <2>4. CASE m_async_executions = 0
    <3>1. UNCHANGED parked
      BY <1>6, <2>4 DEF CancelAll, LeaveWait
    <3> QED  BY <1>0, <2>1, <2>2, <2>3, <3>1 DEF NoLostWakeup, ServiceWakes, CancelWakes, AbortWakes
  <2>5. CASE m_async_executions # 0
    <3>1. parked' = parked \cup {c} /\ client'[c] \in {"cancel_waiting", "destroy_waiting"}
      BY <1>0, <1>6, <2>5 DEF CancelAll, EnterWait, WaitOf, TypeOK, Cancelling, Finishing
    <3> QED  BY <1>0, <2>1, <2>2, <2>3, <2>5, <3>1 DEF NoLostWakeup, ServiceWakes, CancelWakes, AbortWakes
  <2> QED  BY <2>4, <2>5
<1>7. ASSUME NEW c \in Clients, FinishAll(c)
      PROVE  NoLostWakeup'
  <2>1. CASE FinishWakes
    BY <1>3, <1>7, <2>1 DEF FinishAll, LeaveWait
  <2>2. CASE ~FinishWakes
    <3>1. /\ parked' = parked \cup {c} /\ client' = [client EXCEPT ![c] = "finish_waiting"]
          /\ UNCHANGED waitVars
      BY <1>7, <2>2 DEF FinishAll, EnterWait, WaitOf, Cancelling, Finishing
    <3> QED  BY <1>0, <2>2, <3>1
             DEF NoLostWakeup, ServiceWakes, CancelWakes, FinishWakes, AbortWakes, TypeOK
  <2> QED  BY <2>1, <2>2
<1>8. ASSUME NEW c \in Clients, NEW n \in Counts, SetTarget(c, n)
      PROVE  NoLostWakeup'
  <2>1. c \notin parked
    BY <1>4, <1>8 DEF SetTarget, Waiting
  <2>2. CASE m_tc_running > n
    BY <1>0, <1>1, <1>8, <2>2, DispatcherAssumption DEF SetTarget, NotifyAll, TypeOK
  <2>3. CASE ~(m_tc_running > n)
    <3>1. UNCHANGED parked /\ client' = [client EXCEPT ![c] = "starting"]
      BY <1>8, <2>3 DEF SetTarget
    <3> QED  BY <1>0, <1>8, <2>1, <2>3, <3>1
             DEF SetTarget, NoLostWakeup, ServiceWakes, CancelWakes, FinishWakes, AbortWakes, TypeOK
  <2> QED  BY <2>2, <2>3
<1>9. ASSUME NEW c \in Clients, NEW id \in ThreadIds, StartThread(c, id)
      PROVE  NoLostWakeup'
  BY <1>0, <1>9 DEF StartThread, NoLostWakeup, ServiceWakes, CancelWakes, FinishWakes, AbortWakes, TypeOK
<1>10. ASSUME NEW c \in Clients, Started(c) \/ FinalJoin(c) \/ \E id \in ThreadIds : StartThrows(c, id)
       PROVE  NoLostWakeup'
  <2>1. c \notin parked
    BY <1>4, <1>10 DEF Started, StartThrows, FinalJoin, Waiting
  <2> QED  BY <1>3, <1>10, <2>1 DEF Started, StartThrows, FinalJoin
<1>11. ASSUME NEW c \in Clients, Abort(c) \/ AbortResumes(c)
       PROVE  NoLostWakeup'
  <2>1. /\ c \notin parked
        /\ UNCHANGED <<m_queue, m_async_executions, m_tc_running>>
    BY <1>4, <1>11 DEF Abort, AbortResumes, Waiting
  <2>2. CASE Abort(c)
    BY <1>0, <2>1, <2>2 DEF Abort, AbortWait, NoLostWakeup, AbortWakes, TypeOK
  <2>3. CASE AbortResumes(c)
    BY <1>0, <2>1, <2>3 DEF AbortResumes, AbortWait, NoLostWakeup, ServiceWakes, CancelWakes,
           FinishWakes, AbortWakes, TypeOK
  <2> QED  BY <1>11, <2>2, <2>3
<1>12. ASSUME NEW c \in Clients, ClientContinues(c)
       PROVE  NoLostWakeup'
  <2>1. CASE IdsExhausted(c) \/ \E t \in ThreadIds : JoinStopped(c, t)
    BY <1>2, <2>1 DEF IdsExhausted, JoinStopped
  <2> QED  BY <1>6, <1>7, <1>8, <1>9, <1>10, <1>11, <1>12, <2>1 DEF ClientContinues
<1>13. ASSUME NEW t \in ThreadIds, ServicePark(t)
       PROVE  NoLostWakeup'
  BY <1>0, <1>13 DEF ServicePark, NoLostWakeup, ServiceWakes, CancelWakes, FinishWakes, AbortWakes
<1>14. ASSUME NEW t \in ThreadIds, ServiceStop(t)
       PROVE  NoLostWakeup'
  <2>1. CASE m_waiting_thread_abort # 0
    BY <1>1, <1>14, <2>1 DEF ServiceStop, NotifyAbort
  <2>2. CASE m_waiting_thread_abort = 0
    <3>1. \A c \in Clients : client[c] # "abort_waiting"
      BY <1>0, <2>2, CountersPositive DEF AbortingClients
    <3>2. UNCHANGED <<parked, client, m_queue, m_async_executions, m_tc_target>> /\ m_tc_running' < m_tc_running
      BY <1>0, <1>14, <2>2 DEF ServiceStop, NotifyAbort, TypeOK
    <3> QED  BY <1>0, <1>14, <3>1, <3>2
             DEF ServiceStop, NoLostWakeup, ServiceWakes, CancelWakes, FinishWakes, TypeOK
  <2> QED  BY <2>1, <2>2
<1>15. ASSUME NEW t \in ThreadIds, NEW j \in Jobs, ServiceTake(t, j)
       PROVE  NoLostWakeup'
  <2>1. m_queue # {} /\ m_async_executions' > 0
    BY <1>0, <1>15 DEF ServiceTake, IsTop, TypeOK
  <2> QED  BY <1>0, <1>15, <2>1
           DEF ServiceTake, Pop, NoLostWakeup, ServiceWakes, CancelWakes, FinishWakes, AbortWakes
<1>16. ASSUME NEW t \in ThreadIds, Relock(t)
       PROVE  NoLostWakeup'
  <2>1. CASE m_async_executions - 1 = 0 /\ m_waiting_completion_routines # 0
    BY <1>1, <1>16, <2>1 DEF Relock, NotifyCompletion
  <2>2. CASE m_async_executions - 1 = 0 /\ m_waiting_completion_routines = 0
    <3>1. \A c \in Clients : client[c] \notin Waiting
      BY <1>0, <2>2, CountersPositive DEF WaitingClients
    <3> QED  BY <1>0, <1>16, <2>2, <3>1 DEF Relock, NotifyCompletion, NoLostWakeup, ServiceWakes, AbortWakes, Waiting
  <2>3. CASE m_async_executions - 1 # 0
    BY <1>0, <1>16, <2>3 DEF Relock, NotifyCompletion, NoLostWakeup, ServiceWakes, CancelWakes, FinishWakes, AbortWakes
  <2> QED  BY <2>1, <2>2, <2>3
<1>17. ASSUME NEW t \in ThreadIds, ServiceThread(t)
       PROVE  NoLostWakeup'
  <2>1. CASE RunCleanup(t) \/ ThreadExit(t) \/ \E o \in {"completed", "completed_with_exception"} : ExecReturns(t, o)
    BY <1>2, <2>1 DEF RunCleanup, ThreadExit, ExecReturns
  <2> QED  BY <1>13, <1>14, <1>15, <1>16, <1>17, <2>1 DEF ServiceThread
<1>18. ASSUME \/ \E t \in ThreadIds, j \in Jobs : JobSubmit(t, j)
              \/ \E a \in parked : SpuriousWakeup(a)
              \/ UNCHANGED vars
       PROVE  NoLostWakeup'
  BY <1>1, <1>2, <1>18 DEF JobSubmit, Enqueue, NotifyAll, SpuriousWakeup, vars
<1> QED  BY <1>5, <1>12, <1>17, <1>18 DEF Next, Stopped

-----------------------------------------------------------------------------
(* JobOwnership: every job moves through the phases of its life in order.  *)

Life(j) ==
    \/ InLife(j, FALSE, FALSE, 0, 0) /\ Holders(j) = {} /\ outcome[j] = "none"
    \/ InLife(j, TRUE, TRUE, 0, 0) /\ Holders(j) = {} /\ outcome[j] = "none"
    \/ /\ InLife(j, TRUE, FALSE, 1, 0)
       /\ \E t \in ThreadIds : Holders(j) = {t}
       /\ outcome[j] = "none"
    \/ /\ InLife(j, TRUE, FALSE, IF outcome[j] = "cancelled" THEN 0 ELSE 1, 1)
       /\ Holders(j) = {} /\ outcome[j] # "none"

BusyTyped == \A t \in ThreadIds : worker[t] \in Busy => item[t] \in Jobs

(* JobOwnership, job by job.                                               *)
LEMMA JobOwnershipIsLife == JobOwnership <=> BusyTyped /\ \A j \in Jobs : Life(j)
BY DEF JobOwnership, BusyTyped, Life

(* Every step moves each job at most to the next phase of its life.        *)
LEMMA JobOwnershipStep ==
    ASSUME IInv, [Next]_vars
    PROVE  JobOwnership'
<1> USE DEF lockVars, threadVars, workVars, callVars, jobVars, otherVars
<1>0. TypeOK /\ BusyTyped /\ (\A j \in Jobs : Life(j)) /\ ThreadsOwned
  BY JobOwnershipIsLife DEF IInv
<1>a. SUFFICES BusyTyped' /\ \A j \in Jobs : Life(j)'
  BY JobOwnershipIsLife DEF JobOwnership, BusyTyped, Life
<1> DEFINE Good == BusyTyped' /\ \A j \in Jobs : Life(j)'
<1>1. ASSUME UNCHANGED <<jobVars, worker, item>>
      PROVE  Good
  BY <1>0, <1>1 DEF BusyTyped, Life, InLife, Holders
<1>2. ASSUME UNCHANGED jobVars, NEW t \in ThreadIds, NEW a \in WorkerStates,
             worker' = [worker EXCEPT ![t] = a],
             \/ worker[t] \notin Busy /\ a \notin Busy /\ (\A u \in ThreadIds : u # t => item'[u] = item[u])
             \/ worker[t] \in Busy /\ a \in Busy /\ UNCHANGED item
      PROVE  Good
  <2>1. \A j \in Jobs : Holders(j)' = Holders(j)
    BY <1>0, <1>2 DEF Holders, TypeOK
  <2>2. BusyTyped'
    BY <1>0, <1>2 DEF BusyTyped, TypeOK
  <2> QED  BY <1>0, <1>2, <2>1, <2>2 DEF Life, InLife
<1>3. ASSUME NEW k \in Jobs, Enqueue(k)
      PROVE  Good
  <2>1. \A j \in Jobs : Holders(j)' = Holders(j)
    BY <1>3 DEF Enqueue, Holders
  <2>2. BusyTyped'
    BY <1>0, <1>3 DEF Enqueue, BusyTyped
  <2>3. \A j \in Jobs : Life(j)'
    BY <1>0, <1>3, <2>1 DEF Enqueue, Life, InLife
  <2> QED  BY <2>2, <2>3
<1>4. ASSUME CleanUp(m_queue, "cancelled"), m_queue' = {}, UNCHANGED <<worker, item, submitted, runs>>
      PROVE  Good
  <2>1. \A j \in Jobs : Holders(j)' = Holders(j)
    BY <1>4 DEF Holders
  <2>2. BusyTyped'
    BY <1>0, <1>4 DEF BusyTyped
  <2>3. ASSUME NEW j \in Jobs, j \in m_queue
        PROVE  Life(j)'
    <3>1. cleanups'[j] = cleanups[j] + 1 /\ outcome'[j] = "cancelled"
      BY <1>4, <2>3 DEF CleanUp
    <3>2. InLife(j, TRUE, TRUE, 0, 0) /\ Holders(j) = {}
      BY <1>0, <2>3 DEF Life, InLife
    <3> QED  BY <1>4, <2>1, <3>1, <3>2 DEF Life, InLife
  <2>4. ASSUME NEW j \in Jobs, j \notin m_queue
        PROVE  Life(j)'
    <3>1. cleanups'[j] = cleanups[j] /\ outcome'[j] = outcome[j]
      BY <1>4, <2>4 DEF CleanUp
    <3> QED  BY <1>0, <1>4, <2>1, <2>4, <3>1 DEF Life, InLife
  <2> QED  BY <2>2, <2>3, <2>4
<1>5. ASSUME NEW t \in ThreadIds, NEW k \in Jobs, ServiceTake(t, k)
      PROVE  Good
  <2>1. k \in m_queue /\ worker[t] = "service" /\ m_queue' = m_queue \ {k}
    BY <1>5 DEF ServiceTake, AtService, IsTop, Pop
  <2>2. /\ worker' = [worker EXCEPT ![t] = "running"] /\ item' = [item EXCEPT ![t] = k]
        /\ runs' = [runs EXCEPT ![k] = @ + 1] /\ UNCHANGED <<submitted, cleanups, outcome>>
    BY <1>5 DEF ServiceTake
  <2>3. InLife(k, TRUE, TRUE, 0, 0) /\ Holders(k) = {} /\ outcome[k] = "none"
    BY <1>0, <2>1 DEF Life, InLife
  <2>4. Holders(k)' = {t}
    BY <1>0, <2>2, <2>3 DEF Holders, TypeOK, Busy
  <2>5. \A j \in Jobs : j # k => Holders(j)' = Holders(j)
    BY <1>0, <2>1, <2>2 DEF Holders, TypeOK, Busy
  <2>6. BusyTyped'
    BY <1>0, <2>2 DEF BusyTyped, TypeOK
  <2>7. InLife(k, TRUE, FALSE, 1, 0)'
    BY <1>0, <2>1, <2>2, <2>3 DEF InLife, TypeOK
  <2>8. \A j \in Jobs : j # k => Life(j)'
    BY <1>0, <2>1, <2>2, <2>5 DEF Life, InLife, TypeOK
  <2> QED  BY <2>2, <2>3, <2>4, <2>6, <2>7, <2>8 DEF Life
<1>6. ASSUME NEW t \in ThreadIds, RunCleanup(t)
      PROVE  Good
  <2>0. PICK k \in Jobs : k = item[t]
    BY <1>0, <1>6 DEF RunCleanup, BusyTyped, Busy
  <2>1. worker[t] \in {"completed", "completed_with_exception"} /\ t \in Holders(k)
    BY <1>6, <2>0 DEF RunCleanup, Busy, Holders
  <2>2. InLife(k, TRUE, FALSE, 1, 0) /\ Holders(k) = {t}
    <3>1. Life(k) /\ Holders(k) # {}
      BY <1>0, <2>1
    <3>2. PICK u \in ThreadIds : InLife(k, TRUE, FALSE, 1, 0) /\ Holders(k) = {u}
      BY <3>1 DEF Life
    <3> QED  BY <2>1, <3>2
  <2>3. /\ worker' = [worker EXCEPT ![t] = "relock"]
        /\ UNCHANGED <<item, m_queue, submitted, runs>>
        /\ cleanups' = [j \in Jobs |-> IF j = k THEN cleanups[j] + 1 ELSE cleanups[j]]
        /\ outcome' = [j \in Jobs |-> IF j = k THEN worker[t] ELSE outcome[j]]
    BY <1>6, <2>0 DEF RunCleanup, CleanUp
  <2>4. \A j \in Jobs : Holders(j)' = Holders(j) \ {t}
    BY <1>0, <2>3 DEF Holders, TypeOK, Busy
  <2>5. BusyTyped'
    BY <1>0, <2>3 DEF BusyTyped, TypeOK, Busy
  <2>6. Holders(k)' = {} /\ InLife(k, TRUE, FALSE, 1, 1)' /\ outcome'[k] = worker[t]
    BY <2>1, <2>2, <2>3, <2>4 DEF InLife
  <2>7. Life(k)'
    <3>1. outcome'[k] # "none" /\ outcome'[k] # "cancelled"
      BY <2>1, <2>6
    <3> QED  BY <2>6, <3>1 DEF Life, InLife
  <2>8. ASSUME NEW j \in Jobs, j # k
        PROVE  Life(j)'
    <3>1. Holders(j)' = Holders(j)
      BY <2>0, <2>4, <2>8 DEF Holders
    <3> QED  BY <1>0, <2>3, <2>8, <3>1 DEF Life, InLife
  <2> QED  BY <2>5, <2>7, <2>8
<1>7. ASSUME NEW t \in ThreadIds, ServiceThread(t)
      PROVE  Good
  <2>1. CASE ServicePark(t)
    BY <1>1, <2>1 DEF ServicePark
  <2>2. CASE ServiceStop(t) \/ ThreadExit(t) \/ Relock(t)
    <3>1. PICK a \in {"returned", "exited", "service"} : worker' = [worker EXCEPT ![t] = a]
      BY <2>2 DEF ServiceStop, ThreadExit, Relock
    <3>2. UNCHANGED jobVars /\ worker[t] \notin Busy /\ \A u \in ThreadIds : u # t => item'[u] = item[u]
      BY <1>0, <2>2 DEF ServiceStop, AtService, ThreadExit, Relock, Busy, TypeOK
    <3> QED  BY <1>2, <3>1, <3>2 DEF Busy, WorkerStates
  <2>3. ASSUME NEW o \in {"completed", "completed_with_exception"}, ExecReturns(t, o)
        PROVE  Good
    BY <1>2, <2>3 DEF ExecReturns, Busy, WorkerStates
  <2> QED  BY <1>5, <1>6, <1>7, <2>1, <2>2, <2>3 DEF ServiceThread
<1>8. ASSUME NEW c \in Clients, ClientCalls(c)
      PROVE  Good
  <2>1. CASE CallCancelAll(c) \/ CallFinishAll(c) \/ CallDestroy(c) \/ CallSetServiceThreadCount(c)
    BY <1>1, <2>1 DEF CallCancelAll, CallFinishAll, CallDestroy, CallSetServiceThreadCount, Call
  <2>2. CASE CancelAllQuick(c)
    BY <1>4, <2>2 DEF CancelAllQuick
  <2> QED  BY <1>3, <1>8, <2>1, <2>2 DEF ClientCalls, Submit
<1>9. ASSUME NEW c \in Clients, ClientContinues(c)
      PROVE  Good
  <2>1. CASE CancelAll(c)
    BY <1>4, <2>1 DEF CancelAll
  <2>2. CASE FinishAll(c) \/ IdsExhausted(c) \/ Started(c) \/ Abort(c) \/ AbortResumes(c) \/ FinalJoin(c)
             \/ (\E n \in Counts : SetTarget(c, n)) \/ (\E id \in ThreadIds : StartThrows(c, id))
    BY <1>1, <2>2 DEF FinishAll, IdsExhausted, Started, Abort, AbortResumes, FinalJoin, SetTarget, StartThrows
  <2>3. ASSUME NEW t \in ThreadIds, JoinStopped(c, t)
        PROVE  Good
    BY <1>2, <2>3 DEF JoinStopped, Busy, WorkerStates
  <2>4. ASSUME NEW t \in ThreadIds, StartThread(c, t)
        PROVE  Good
    <3>1. worker[t] = "none"
      BY <1>0, <2>4, NewIdUnused DEF StartThread, ThreadsOwned
    <3> QED  BY <1>2, <2>4, <3>1 DEF StartThread, Busy, WorkerStates
  <2> QED  BY <1>9, <2>1, <2>2, <2>3, <2>4 DEF ClientContinues
<1>10. ASSUME (\E a \in parked : SpuriousWakeup(a)) \/ UNCHANGED vars
       PROVE  Good
  BY <1>1, <1>10 DEF SpuriousWakeup, vars
<1> QED  BY <1>3, <1>7, <1>8, <1>9, <1>10 DEF Next, Stopped, JobSubmit

-----------------------------------------------------------------------------
(* Closed: what the destructor has established stays.                      *)

(* No step brings work or threads back once the destructor excluded them.  *)
LEMMA ClosedStep ==
    ASSUME IInv, [Next]_vars
    PROVE  Closed'
<1> USE DEF lockVars, threadVars, workVars, callVars, jobVars, otherVars
<1>0. TypeOK /\ ThreadsOwned /\ CountersExact /\ CallsExclude /\ Closed
  BY DEF IInv
<1>1. ASSUME UNCHANGED <<client, m_queue, worker>>
      PROVE  Closed'
  BY <1>0, <1>1 DEF Closed, Executing, Serving
<1>2. ASSUME NEW c \in Clients, client[c] \notin Aborting \cup {"destroyed"},
             NEW s, s \notin Aborting \cup {"destroyed"}, client' = [client EXCEPT ![c] = s],
             UNCHANGED worker, m_queue' \subseteq m_queue
      PROVE  Closed'
  <2>1. \A d \in Clients : client'[d] \in Aborting \cup {"destroyed"} => client[d] = client'[d]
    BY <1>0, <1>2 DEF TypeOK
  <2> QED  BY <1>0, <1>2, <2>1 DEF Closed, Executing, Serving, Aborting
<1>3. ASSUME UNCHANGED client, m_queue' \subseteq m_queue,
             NEW t \in ThreadIds, NEW a \in WorkerStates, worker' = [worker EXCEPT ![t] = a],
             t \in Executing \/ a \in {"returned", "exited", "none"} \/ m_queue # {},
             t \in Serving \/ a \in {"exited", "none"}
      PROVE  Closed'
  <2>1. \A c \in Clients : client[c] \in Aborting \cup {"destroyed"} =>
             t \notin Executing /\ a \in {"returned", "exited", "none"}
    BY <1>0, <1>3 DEF Closed
  <2>2. \A c \in Clients : client[c] \in Aborting \cup {"destroyed"} => Executing' = {} /\ m_queue' = {}
    BY <1>0, <1>3, <2>1 DEF Closed, Executing, TypeOK
  <2>3. \A c \in Clients : client[c] \in {"final_join", "destroyed"} => Serving' = {}
    BY <1>0, <1>3, <2>1, <2>2 DEF Closed, Serving, TypeOK, Aborting
  <2>4. \A c \in Clients : client[c] = "destroyed" =>
             \A u \in ThreadIds : worker'[u] \in {"none", "exited"}
    BY <1>0, <1>3 DEF Closed, TypeOK
  <2> QED  BY <1>3, <2>2, <2>3, <2>4 DEF Closed
<1>4. ASSUME NEW c \in Clients, client[c] \in Resizing \cup {"idle"}
      PROVE  (\A d \in Clients : client[d] \notin Closing) \/ client[c] = "idle"
  BY <1>0, <1>4 DEF CallsExclude, Resizing, Closing, Aborting
<1>5. ASSUME NEW c \in Clients, CancelAll(c)
      PROVE  Closed'
  <2>1. m_queue' = {} /\ UNCHANGED worker
    BY <1>5 DEF CancelAll
  <2>2. CASE m_async_executions = 0
    <3>1. Executing = {}
      BY <1>0, <2>2, CountersPositive DEF Executing
    <3>2. client' = [client EXCEPT ![c] = ReturnOf(client[c])] /\ ReturnOf(client[c]) \in {"idle", "abort"}
      BY <1>5, <2>2 DEF CancelAll, LeaveWait, ReturnOf
    <3> QED  BY <1>0, <2>1, <3>1, <3>2 DEF Closed, Executing, Serving, TypeOK, Aborting
  <2>3. CASE m_async_executions # 0
    BY <1>2, <1>5, <2>1, <2>3 DEF CancelAll, EnterWait, WaitOf, Cancelling, Aborting
  <2> QED  BY <2>2, <2>3
<1>6. ASSUME NEW c \in Clients, FinishAll(c)
      PROVE  Closed'
  BY <1>2, <1>6 DEF FinishAll, EnterWait, LeaveWait, WaitOf, ReturnOf, Cancelling, Finishing, Aborting
<1>7. ASSUME NEW c \in Clients, Started(c) \/ (\E n \in Counts : SetTarget(c, n))
                                \/ \E id \in ThreadIds : StartThrows(c, id)
      PROVE  Closed'
  <2>1. PICK s \in {"idle", "starting"} : client' = [client EXCEPT ![c] = s]
    BY <1>7 DEF Started, SetTarget, StartThrows
  <2>2. client[c] \in {"joining", "starting"} /\ UNCHANGED <<worker, m_queue>>
    BY <1>7 DEF Started, SetTarget, StartThrows
  <2> QED  BY <1>2, <2>1, <2>2 DEF Aborting
<1>8. ASSUME NEW c \in Clients, NEW t \in ThreadIds, JoinStopped(c, t) \/ StartThread(c, t)
      PROVE  Closed'
  <2>1. \A d \in Clients : client[d] \notin Closing
    BY <1>4, <1>8 DEF JoinStopped, StartThread, Resizing
  <2> QED  BY <1>8, <2>1 DEF JoinStopped, StartThread, Closed, Closing, Aborting
<1>9. ASSUME NEW c \in Clients, Abort(c) \/ AbortResumes(c)
      PROVE  Closed'
  <2>1. PICK s \in {"abort_waiting", "final_join"} : client' = [client EXCEPT ![c] = s]
    BY <1>9 DEF Abort, AbortResumes, AbortWait
  <2>2. client[c] \in Aborting /\ UNCHANGED <<worker, m_queue>>
    BY <1>9 DEF Abort, AbortResumes, Aborting
  <2>3. s = "final_join" => m_tc_running = 0
    BY <1>0, <1>9, <2>1 DEF Abort, AbortResumes, AbortWait, AbortWakes, TypeOK
  <2>4. m_tc_running = 0 => Serving = {}
    BY <1>0, CountersPositive DEF Serving, Executing, TypeOK
  <2> QED  BY <1>0, <2>1, <2>2, <2>3, <2>4 DEF Closed, Executing, Serving, TypeOK
<1>10. ASSUME NEW c \in Clients, FinalJoin(c)
       PROVE  Closed'
  <2>1. \A t \in ThreadIds : worker[t] \in {"none", "exited"}
    BY <1>0, <1>10 DEF FinalJoin, AllEnded, ThreadsOwned
  <2> QED  BY <1>0, <1>10, <2>1 DEF FinalJoin, Closed, Executing, Serving, TypeOK, Aborting
<1>11. ASSUME NEW c \in Clients, ClientContinues(c)
       PROVE  Closed'
  BY <1>1, <1>5, <1>6, <1>7, <1>8, <1>9, <1>10, <1>11 DEF ClientContinues, IdsExhausted
<1>12. ASSUME NEW j \in Jobs, Enqueue(j)
       PROVE  Closed'
  <2>1. \A c \in Clients : client[c] \notin Closing
    BY <1>12 DEF Enqueue, MaySubmit, InCall
  <2>2. UNCHANGED <<client, worker>>
    BY <1>12 DEF Enqueue
  <2> QED  BY <2>1, <2>2 DEF Closed, Closing, Aborting
<1>13. ASSUME NEW c \in Clients, ClientCalls(c)
       PROVE  Closed'
  <2>1. CASE CallCancelAll(c) \/ CallFinishAll(c) \/ CallDestroy(c) \/ CallSetServiceThreadCount(c)
    BY <1>2, <2>1 DEF CallCancelAll, CallFinishAll, CallDestroy, CallSetServiceThreadCount, Call, Aborting
  <2>2. CASE CancelAllQuick(c)
    BY <1>0, <2>2 DEF CancelAllQuick, Closed, Executing, Serving
  <2> QED  BY <1>12, <1>13, <2>1, <2>2 DEF ClientCalls, Submit
<1>14. ASSUME NEW t \in ThreadIds, ServiceThread(t)
       PROVE  Closed'
  <2>1. CASE ServicePark(t)
    BY <1>1, <2>1 DEF ServicePark
  <2>2. CASE ServiceStop(t)
    BY <1>3, <2>2 DEF ServiceStop, AtService, Serving, WorkerStates
  <2>3. ASSUME NEW j \in Jobs, ServiceTake(t, j)
        PROVE  Closed'
    BY <1>3, <2>3 DEF ServiceTake, AtService, IsTop, Pop, Serving, WorkerStates
  <2>4. ASSUME NEW o \in {"completed", "completed_with_exception"}, ExecReturns(t, o)
        PROVE  Closed'
    BY <1>3, <2>4 DEF ExecReturns, Executing, Serving, WorkerStates
  <2>5. CASE RunCleanup(t) \/ Relock(t)
    BY <1>3, <2>5 DEF RunCleanup, Relock, Executing, Serving, WorkerStates
  <2>6. CASE ThreadExit(t)
    BY <1>3, <2>6 DEF ThreadExit, WorkerStates
  <2> QED  BY <1>14, <2>1, <2>2, <2>3, <2>4, <2>5, <2>6 DEF ServiceThread
<1>15. ASSUME (\E a \in parked : SpuriousWakeup(a)) \/ UNCHANGED vars
       PROVE  Closed'
  BY <1>1, <1>15 DEF SpuriousWakeup, vars
<1> QED  BY <1>11, <1>12, <1>13, <1>14, <1>15 DEF Next, Stopped, JobSubmit

-----------------------------------------------------------------------------
(* The theorems.                                                           *)

(* In every reachable state of every pool, the inductive invariant holds.  *)
THEOREM Invariance == Spec => []IInv
<1>1. IInv /\ [Next]_vars => IInv'
  <2> SUFFICES ASSUME IInv, [Next]_vars PROVE IInv'
    OBVIOUS
  <2>1. CountersExact'
    BY WorkerCountsStep, CallCountsStep DEF WorkerCounts, CallCounts, CountersExact
  <2> QED  BY <2>1, TypeStep, ThreadsOwnedStep, CallsExcludeStep, NoLostWakeupStep,
              JobOwnershipStep, ClosedStep DEF IInv
<1> QED  BY InitIInv, <1>1, PTL DEF Spec

(* Every member keeps its type; no counter underflows.                     *)
THEOREM TypeCorrect == Spec => []TypeOK
BY Invariance, PTL DEF IInv

(* The counters count the threads that execute, serve, wait and abort.     *)
THEOREM CountersCorrect == Spec => []CountersExact
BY Invariance, PTL DEF IInv

(* No thread stays parked on m_cond while what it waits for holds.         *)
THEOREM NoWakeupIsLost == Spec => []NoLostWakeup
BY Invariance, PTL DEF IInv

(* Every submitted job is in one place and is cleaned up exactly once.     *)
THEOREM JobsOwned == Spec => []JobOwnership
BY Invariance, PTL DEF IInv

(* No std::thread is overwritten and no id is in use twice.                *)
THEOREM ThreadObjectsOwned == Spec => []ThreadsOwned
BY Invariance, PTL DEF IInv

(* After the destructor no service thread, waiter or job is left.          *)
THEOREM DestructionIsFinal == Spec => []NothingAfterDestruction
<1>1. IInv => NothingAfterDestruction
  <2> SUFFICES ASSUME IInv, NEW c \in Clients, client[c] = "destroyed"
               PROVE  /\ \A t \in ThreadIds : worker[t] \in {"none", "exited"}
                      /\ parked = {} /\ mtx = Free
                      /\ \A j \in submitted : cleanups[j] = 1
    BY DEF NothingAfterDestruction, InCall
  <2>1. \A t \in ThreadIds : worker[t] \in {"none", "exited"}
    BY DEF IInv, Closed
  <2>2. \A d \in Clients : client[d] \in {"idle", "destroyed"}
    BY DEF IInv, CallsExclude, Closing
  <2>3. parked = {}
    BY <2>1, <2>2 DEF IInv, TypeOK, CallsExclude, NoLostWakeup
  <2>4. mtx = Free
    BY <2>2 DEF IInv, TypeOK, CallsExclude, Resizing
  <2>5. ASSUME NEW j \in submitted
        PROVE  cleanups[j] = 1
    <3>1. j \notin m_queue /\ Holders(j) = {}
      BY <2>1 DEF IInv, Closed, Holders, Busy
    <3>2. j \in Jobs /\ Life(j)
      BY JobOwnershipIsLife DEF IInv, TypeOK
    <3> QED  BY <3>1, <3>2 DEF Life, InLife
  <2> QED  BY <2>1, <2>3, <2>4, <2>5
<1> QED  BY Invariance, <1>1, PTL

-----------------------------------------------------------------------------
(* The ids that are used again: each that was ever allocated is a thread's  *)
(* or free, unless a thread could not be started.                           *)
IdsKept ==
    /\ \A id \in ThreadIds :
          Recyclable(id) /\ id < m_thread_min_id => id \in m_thread_objects \cup m_reusable_ids
    /\ TerminateOnlyWhenIdsHeld

LEMMA InitIdsKept == Init => IdsKept
BY DispatcherAssumption DEF Init, IdsKept, TerminateOnlyWhenIdsHeld, ThreadIds

\* When there is no id to allocate, the upper half of them is in use.
LEMMA UpperHalf ==
    ASSUME TypeOK, IdsKept, AvailableIds = {}
    PROVE  Cardinality(m_thread_objects) >= IdMax \div 2
<1> DEFINE h == IdMax \div 2
<1>1. h \in Nat /\ IdMax = 2 * h + 1 /\ IdMax \in Nat
  BY DispatcherAssumption
<1>2. m_reusable_ids = {} /\ m_thread_min_id = IdMax
  BY DEF AvailableIds
<1> HIDE DEF h
<1>3. (h + 1) .. (2 * h) \subseteq m_thread_objects
  BY <1>1, <1>2 DEF IdsKept, Recyclable, ThreadIds, h
<1>4. IsFiniteSet(m_thread_objects)
  BY ThreadsFinite DEF TypeOK
<1>5. Cardinality((h + 1) .. (2 * h)) = h
  <2>1. CASE h = 0
    BY <2>1, FS_EmptySet
  <2>2. CASE h # 0
    BY <1>1, <2>2, FS_Interval
  <2> QED  BY <2>1, <2>2
<1>6. Cardinality((h + 1) .. (2 * h)) <= Cardinality(m_thread_objects)
  BY <1>3, <1>4, FS_Subset
<1> QED
  BY <1>5, <1>6 DEF h

LEMMA IdsKeptStep ==
    ASSUME ~StartsMayFail, IInv, IdsKept, [Next]_vars
    PROVE  IdsKept'
<1> USE DEF IInv
<1>1. ASSUME UNCHANGED <<m_thread_objects, m_reusable_ids, m_thread_min_id, terminated>>
      PROVE  IdsKept'
  BY <1>1 DEF IdsKept, TerminateOnlyWhenIdsHeld
<1>2. ASSUME ~terminated, NEW c \in Clients, NEW t \in ThreadIds, JoinStopped(c, t)
      PROVE  IdsKept'
  BY <1>2 DEF JoinStopped, IdsKept, TerminateOnlyWhenIdsHeld, otherVars
<1>3. ASSUME ~terminated, NEW c \in Clients, NEW id \in ThreadIds, StartThread(c, id)
      PROVE  IdsKept'
  <2>1. AllocThreadId(id) /\ m_thread_objects' = m_thread_objects \cup {id} /\ id \in AvailableIds
    BY <1>3 DEF StartThread, AllocThreadId
  <2>2. ~terminated'
    BY <1>3, <2>1, NewIdUnused DEF StartThread
  <2>3. ASSUME NEW i \in ThreadIds, Recyclable(i), i < m_thread_min_id'
        PROVE  i \in m_thread_objects' \cup m_reusable_ids'
    <3>1. m_thread_min_id \in Nat /\ i \in Nat /\ id \in Nat
      BY DispatcherAssumption DEF TypeOK, ThreadIds
    <3>2. CASE i < m_thread_min_id
      BY <2>1, <2>3, <3>2 DEF IdsKept, AllocThreadId
    <3>3. CASE ~(i < m_thread_min_id)
      <4>1. m_reusable_ids = {} /\ i = m_thread_min_id
        BY <2>1, <2>3, <3>1, <3>3 DEF AllocThreadId
      <4> QED  BY <2>1, <4>1 DEF AvailableIds
    <3> QED  BY <3>2, <3>3
  <2> QED  BY <2>2, <2>3 DEF IdsKept, TerminateOnlyWhenIdsHeld
<1>4. ASSUME NEW c \in Clients, IdsExhausted(c)
      PROVE  IdsKept'
  BY <1>4, UpperHalf DEF IdsExhausted, threadVars, IdsKept, TerminateOnlyWhenIdsHeld
<1>5. ASSUME NEW t \in ThreadIds, ServiceThread(t)
      PROVE  IdsKept'
  BY <1>1, <1>5 DEF ServiceThread, ServicePark, ServiceStop, ServiceTake, ExecReturns, RunCleanup,
         Relock, ThreadExit, threadVars, otherVars
<1>6. ASSUME NEW c \in Clients, ClientCalls(c)
      PROVE  IdsKept'
  BY <1>1, <1>6 DEF ClientCalls, Submit, Enqueue, CallCancelAll, CallFinishAll, CallDestroy, Call,
         CancelAllQuick, CallSetServiceThreadCount, threadVars, otherVars
<1>7. ASSUME ~terminated, NEW c \in Clients, ClientContinues(c)
      PROVE  IdsKept'
  <2>1. CASE CancelAll(c) \/ FinishAll(c) \/ Started(c) \/ Abort(c)
             \/ AbortResumes(c) \/ FinalJoin(c) \/ \E n \in Counts : SetTarget(c, n)
    BY <1>1, <2>1 DEF CancelAll, FinishAll, Started, Abort, AbortResumes,
           FinalJoin, SetTarget, threadVars, otherVars
  <2> QED  BY <1>2, <1>3, <1>4, <1>7, <2>1 DEF ClientContinues, StartThrows
<1>8. ASSUME NEW t \in ThreadIds, NEW j \in Jobs, JobSubmit(t, j)
      PROVE  IdsKept'
  BY <1>1, <1>8 DEF JobSubmit, Enqueue, threadVars, otherVars
<1>9. ASSUME NEW a \in parked, SpuriousWakeup(a)
      PROVE  IdsKept'
  BY <1>1, <1>9 DEF SpuriousWakeup, threadVars, otherVars
<1>10. CASE UNCHANGED vars
  BY <1>1, <1>10 DEF vars, threadVars, otherVars
<1> QED  BY <1>5, <1>6, <1>7, <1>8, <1>9, <1>10 DEF Next, Stopped

(* As long as threads can be started, the program is not terminated for     *)
(* want of an id unless max/2 threads hold one, as alloc_thread_id says.    *)
THEOREM TerminatesAsDocumented == ~StartsMayFail => (Spec => []TerminateOnlyWhenIdsHeld)
<1> SUFFICES ASSUME ~StartsMayFail PROVE Spec => []TerminateOnlyWhenIdsHeld
  OBVIOUS
<1>1. IInv /\ IdsKept /\ [Next]_vars => IdsKept'
  BY IdsKeptStep
<1>2. IdsKept => TerminateOnlyWhenIdsHeld
  BY DEF IdsKept
<1> QED  BY InitIdsKept, Invariance, <1>1, <1>2, PTL DEF Spec

-----------------------------------------------------------------------------
(* The refinement: each step of the pool is a step of DispatcherContract,  *)
(* the contract of the header, or changes nothing there.                   *)

(* What the contract sees of a job follows from the phase of its life.     *)
LEMMA StatusOfJobs ==
    ASSUME TypeOK, JobOwnership, NEW j \in Jobs
    PROVE  /\ status[j] = "new" <=> j \notin submitted
           /\ status[j] = "pending" <=> j \in m_queue
           /\ status[j] = "active" <=> Holders(j) # {}
           /\ j \in m_queue => j \in submitted /\ outcome[j] = "none"
           /\ outcome[j] # "none" => j \in submitted /\ j \notin m_queue
<1>1. Life(j) /\ outcome[j] \in Outcomes
  BY JobOwnershipIsLife DEF TypeOK
<1>2. status[j] = IF j \notin submitted THEN "new" ELSE IF j \in m_queue THEN "pending"
                  ELSE IF outcome[j] = "none" THEN "active" ELSE outcome[j]
  BY DEF status
<1>3. CASE InLife(j, FALSE, FALSE, 0, 0) /\ Holders(j) = {} /\ outcome[j] = "none"
  BY <1>2, <1>3 DEF InLife
<1>4. CASE InLife(j, TRUE, TRUE, 0, 0) /\ Holders(j) = {} /\ outcome[j] = "none"
  BY <1>2, <1>4 DEF InLife
<1>5. CASE InLife(j, TRUE, FALSE, 1, 0) /\ (\E t \in ThreadIds : Holders(j) = {t}) /\ outcome[j] = "none"
  <2>1. Holders(j) # {}
    BY <1>5
  <2> QED  BY <1>2, <1>5, <2>1 DEF InLife
<1>6. CASE /\ InLife(j, TRUE, FALSE, IF outcome[j] = "cancelled" THEN 0 ELSE 1, 1)
           /\ Holders(j) = {} /\ outcome[j] # "none"
  BY <1>1, <1>2, <1>6 DEF InLife, Outcomes
<1> QED  BY <1>1, <1>3, <1>4, <1>5, <1>6 DEF Life

(* Nothing queued and nobody executing: everything is settled.             *)
LEMMA NobodyHolds ==
    ASSUME TypeOK, JobOwnership, Executing = {}, NEW j \in Jobs
    PROVE  status[j] # "active"
<1>1. Holders(j) = {}
  BY DEF Holders, Executing, Busy
<1> QED  BY <1>1, StatusOfJobs

(* A new dispatcher is a new contract: no job, no call.                    *)
LEMMA InitRefines == Init => Contract!Init
BY DEF Init, Contract!Init, status, call, Cancelling, Finishing, Closing, Aborting

-----------------------------------------------------------------------------
(* The clients' calls as the contract sees them.                           *)
CallOf(s) == CASE s \in Cancelling -> "cancel_all"
               [] s \in Finishing  -> "finish_all"
               [] s \in Closing \ {"destroyed"} -> "destroy"
               [] s = "destroyed" -> "destroyed"
               [] OTHER -> "idle"

(* The call the contract sees depends on where the client is, on no more.  *)
LEMMA CallIsCallOf == call = [c \in Clients |-> CallOf(client[c])]
BY DEF call, CallOf

(* Which states of a client are a pending call, and of which kind.         *)
LEMMA CallOfStates ==
    /\ \A s : CallOf(s) \in Contract!Calls \cup {"idle", "destroyed"}
    /\ \A s : CallOf(s) = "cancel_all" <=> s \in Cancelling
    /\ \A s : CallOf(s) = "finish_all" <=> s \in Finishing
    /\ \A s : CallOf(s) = "destroy" <=> s \in Closing \ {"destroyed"}
    /\ \A s : CallOf(s) = "destroyed" <=> s = "destroyed"
    /\ CallOf("idle") = "idle"
BY DEF CallOf, Contract!Calls, Cancelling, Finishing, Closing, Aborting

(* Without such a call in the dispatcher the contract sees none.           *)
LEMMA NoCallMeans ==
    ASSUME MaySubmit
    PROVE  Contract!NoCall(Contract!Calls \cup {"destroyed"})
BY CallIsCallOf, CallOfStates DEF MaySubmit, InCall, Contract!NoCall, Contract!Calls, Closing

-----------------------------------------------------------------------------
(* Steps that change nothing the contract sees.                            *)
LEMMA Stutters ==
    ASSUME TypeOK, UNCHANGED <<m_queue, submitted, outcome>>,
           \/ UNCHANGED client
           \/ \E c \in Clients, s \in ClientStates :
                 client' = [client EXCEPT ![c] = s] /\ CallOf(s) = CallOf(client[c])
    PROVE  UNCHANGED Contract!vars
<1>1. status' = status
  BY DEF status
<1>2. \A c \in Clients : CallOf(client'[c]) = CallOf(client[c])
  BY DEF TypeOK
<1>3. call' = call
  BY <1>2, CallIsCallOf DEF call, CallOf
<1> QED  BY <1>1, <1>3 DEF Contract!vars

(* A step that changes one job changes its status alone.                   *)
LEMMA StatusChange ==
    ASSUME NEW j \in Jobs, NEW o, \A k \in Jobs : status'[k] = IF k = j THEN o ELSE status[k]
    PROVE  status' = [status EXCEPT ![j] = o]
BY DEF status

(* Cancelling the queue is the contract's cancellation.                    *)
LEMMA QueueCancelled ==
    ASSUME TypeOK, JobOwnership, CleanUp(m_queue, "cancelled"), m_queue' = {}, UNCHANGED submitted
    PROVE  status' = Contract!Cancelled
<1>1. \A j \in Jobs : status'[j] = IF status[j] = "pending" THEN "cancelled" ELSE status[j]
  <2> SUFFICES ASSUME NEW j \in Jobs
               PROVE  status'[j] = IF status[j] = "pending" THEN "cancelled" ELSE status[j]
    OBVIOUS
  <2>1. outcome'[j] = IF j \in m_queue THEN "cancelled" ELSE outcome[j]
    BY DEF CleanUp
  <2>2. status'[j] = IF j \notin submitted THEN "new"
                     ELSE IF outcome'[j] = "none" THEN "active" ELSE outcome'[j]
    BY DEF status
  <2>3. CASE j \in m_queue
    BY <2>1, <2>2, <2>3, StatusOfJobs
  <2>4. CASE j \notin m_queue
    BY <2>1, <2>2, <2>4, StatusOfJobs DEF status
  <2> QED  BY <2>3, <2>4
<1> QED  BY <1>1 DEF Contract!Cancelled, status

(* Every step of the dispatcher is a step of the contract or a stutter.    *)
LEMMA StepRefines ==
    ASSUME IInv, [Next]_vars
    PROVE  [Contract!Next]_(Contract!vars)
<1> USE DEF lockVars, threadVars, workVars, callVars, jobVars, otherVars
<1>0. TypeOK /\ CountersExact /\ CallsExclude /\ JobOwnership /\ Closed
  BY DEF IInv
<1> DEFINE Goal == Contract!Next \/ UNCHANGED Contract!vars
<1>1. ASSUME NEW c \in Clients, NEW s \in ClientStates, client' = [client EXCEPT ![c] = s]
      PROVE  call' = [call EXCEPT ![c] = CallOf(s)] /\ call[c] = CallOf(client[c])
  <2>1. \A d \in Clients : CallOf(client'[d]) = IF d = c THEN CallOf(s) ELSE CallOf(client[d])
    BY <1>0, <1>1 DEF TypeOK
  <2> QED  BY <2>1, CallIsCallOf DEF call, CallOf
<1>2. ASSUME NEW j \in Jobs, Enqueue(j)
      PROVE  Goal
  <2>1. status[j] = "new" /\ UNCHANGED call
    BY <1>0, <1>2, StatusOfJobs DEF Enqueue, call
  <2>2. status' = [status EXCEPT ![j] = "pending"]
    BY <1>2 DEF Enqueue, status
  <2>3. Contract!Submit(j)
    BY <1>2, <2>1, <2>2, NoCallMeans DEF Enqueue, Contract!Submit
  <2> QED  BY <2>3 DEF Contract!Next
<1>3. ASSUME NEW c \in Clients, CallCancelAll(c) \/ CallFinishAll(c) \/ CallDestroy(c)
      PROVE  Goal
  <2>1. /\ client[c] = "idle" /\ UNCHANGED status
    BY <1>3 DEF CallCancelAll, CallFinishAll, CallDestroy, Call, status
  <2>2. PICK k \in Contract!Calls : client' = [client EXCEPT ![c] = k]
    BY <1>3 DEF CallCancelAll, CallFinishAll, CallDestroy, Call, Contract!Calls
  <2>3. k \in ClientStates /\ CallOf(k) = k /\ CallOf("idle") = "idle"
    BY DEF Contract!Calls, ClientStates, CallOf, Cancelling, Finishing, Closing, Aborting
  <2>4. call' = [call EXCEPT ![c] = k] /\ call[c] = "idle"
    BY <1>1, <2>1, <2>2, <2>3
  <2>5. client'[c] = k
    BY <1>0, <2>2 DEF TypeOK
  <2>6. Contract!NoCall({"destroyed"} \cup
            (CASE k = "cancel_all" -> {"finish_all", "destroy"}
               [] k = "finish_all" -> {"cancel_all", "destroy"}
               [] k = "destroy"    -> Contract!Calls))
    <3>1. CASE CallCancelAll(c)
      BY <1>0, <2>5, <3>1, CallIsCallOf, CallOfStates
         DEF CallCancelAll, Call, InCall, Contract!NoCall, TypeOK, Closing
    <3>2. CASE CallFinishAll(c)
      BY <1>0, <2>5, <3>2, CallIsCallOf, CallOfStates
         DEF CallFinishAll, Call, InCall, Contract!NoCall, TypeOK, Closing
    <3>3. CASE CallDestroy(c)
      <4>1. \A d \in Clients : client[d] = "idle"
        BY <1>0, <3>3 DEF CallDestroy, Call, InCall, TypeOK
      <4>2. \A d \in Clients : call[d] = "idle"
        BY <2>3, <4>1, CallIsCallOf
      <4> QED  BY <4>2, <2>2 DEF Contract!NoCall, Contract!Calls
    <3> QED  BY <1>3, <3>1, <3>2, <3>3
  <2>7. Contract!Call(c)
    BY <2>1, <2>4, <2>6 DEF Contract!Call
  <2> QED  BY <2>7 DEF Contract!Next
<1>4. ASSUME NEW c \in Clients, CancelAllQuick(c)
      PROVE  Goal
  <2>1. status' = Contract!Cancelled
    BY <1>0, <1>4, QueueCancelled DEF CancelAllQuick
  <2>2. Contract!CancelPending
    BY <1>4, <2>1, NoCallMeans DEF CancelAllQuick, Contract!CancelPending, call
  <2> QED  BY <2>2 DEF Contract!Next
<1>5. ASSUME NEW c \in Clients, CancelAll(c)
      PROVE  Goal
  <2>1. status' = Contract!Cancelled
    BY <1>0, <1>5, QueueCancelled DEF CancelAll
  <2>2. client[c] \in Cancelling \cup {"destroy", "destroy_waiting"}
    BY <1>5 DEF CancelAll
  <2>3. call[c] \in {"cancel_all", "destroy"}
    BY <2>2, CallIsCallOf DEF CallOf, Cancelling, Finishing, Closing, Aborting
  <2>4. CASE m_async_executions = 0 /\ client[c] \in Cancelling
    <3>1. client' = [client EXCEPT ![c] = "idle"]
      BY <1>5, <2>4 DEF CancelAll, LeaveWait, ReturnOf, Cancelling
    <3>2. call' = [call EXCEPT ![c] = "idle"] /\ call[c] = "cancel_all"
      <4>1. CallOf(client[c]) = "cancel_all" /\ "idle" \in ClientStates
        BY <2>4, CallOfStates DEF ClientStates
      <4>2. call' = [call EXCEPT ![c] = CallOf("idle")] /\ call[c] = CallOf(client[c])
        BY <1>1, <3>1, <4>1
      <4>3. CallOf("idle") = "idle"
        BY CallOfStates
      <4> QED  BY <4>1, <4>2, <4>3
    <3>3. Executing = {}
      BY <1>0, <2>4, CountersPositive DEF Executing
    <3>4. \A j \in Jobs : status'[j] \notin {"pending", "active"}
      BY <1>0, <2>1, <3>3, NobodyHolds DEF Contract!Cancelled
    <3>5. Contract!Return(c)
      BY <2>1, <3>2, <3>4 DEF Contract!Return
    <3> QED  BY <3>5 DEF Contract!Next
  <2>5. CASE m_async_executions = 0 /\ client[c] \notin Cancelling
    <3>1. client' = [client EXCEPT ![c] = "abort"]
      BY <1>5, <2>2, <2>5 DEF CancelAll, LeaveWait, ReturnOf, Cancelling
    <3>2. call' = call
      <4>1. CallOf("abort") = CallOf(client[c])
        BY <2>2, <2>5 DEF CallOf, Cancelling, Finishing, Closing, Aborting
      <4> QED  BY <1>1, <3>1, <4>1, CallIsCallOf DEF ClientStates, Closing, Aborting
    <3>3. Contract!Cancel(c)
      BY <2>1, <2>3, <3>2 DEF Contract!Cancel
    <3> QED  BY <3>3 DEF Contract!Next
  <2>6. CASE m_async_executions # 0
    <3>1. client' = [client EXCEPT ![c] = WaitOf(client[c])]
      BY <1>5, <2>6 DEF CancelAll, EnterWait
    <3>2. CallOf(WaitOf(client[c])) = CallOf(client[c]) /\ WaitOf(client[c]) \in ClientStates
      BY <2>2 DEF CallOf, WaitOf, ClientStates, Cancelling, Finishing, Closing, Aborting
    <3>3. call' = call
      BY <1>1, <3>1, <3>2, CallIsCallOf
    <3>4. Contract!Cancel(c)
      BY <2>1, <2>3, <3>3 DEF Contract!Cancel
    <3> QED  BY <3>4 DEF Contract!Next
  <2> QED  BY <2>4, <2>5, <2>6
<1>6. ASSUME NEW c \in Clients, FinishAll(c)
      PROVE  Goal
  <2>1. client[c] \in Finishing /\ UNCHANGED <<m_queue, submitted, outcome>>
    BY <1>6 DEF FinishAll
  <2>2. CASE FinishWakes
    <3>1. client' = [client EXCEPT ![c] = "idle"]
      BY <1>6, <2>1, <2>2 DEF FinishAll, LeaveWait, ReturnOf, Finishing
    <3>2. call' = [call EXCEPT ![c] = "idle"] /\ call[c] = "finish_all"
      <4>1. CallOf(client[c]) = "finish_all" /\ "idle" \in ClientStates
        BY <2>1, CallOfStates DEF ClientStates
      <4>2. call' = [call EXCEPT ![c] = CallOf("idle")] /\ call[c] = CallOf(client[c])
        BY <1>1, <3>1, <4>1
      <4>3. CallOf("idle") = "idle"
        BY CallOfStates
      <4> QED  BY <4>1, <4>2, <4>3
    <3>3. Executing = {} /\ m_queue = {}
      BY <1>0, <2>2, CountersPositive DEF Executing, FinishWakes
    <3>4. UNCHANGED status
      BY <2>1 DEF status
    <3>5. \A j \in Jobs : status'[j] \notin {"pending", "active"}
      BY <1>0, <3>3, <3>4, NobodyHolds, StatusOfJobs
    <3>6. Contract!Return(c)
      BY <3>2, <3>4, <3>5 DEF Contract!Return
    <3> QED  BY <3>6 DEF Contract!Next
  <2>3. CASE ~FinishWakes
    <3>1. client' = [client EXCEPT ![c] = WaitOf(client[c])]
      BY <1>6, <2>3 DEF FinishAll, EnterWait
    <3>2. CallOf(WaitOf(client[c])) = CallOf(client[c]) /\ WaitOf(client[c]) \in ClientStates
      <4>1. WaitOf(client[c]) = "finish_waiting"
        BY <2>1 DEF WaitOf, Cancelling, Finishing
      <4>2. "finish_waiting" \in Finishing /\ "finish_waiting" \in ClientStates
        BY DEF Finishing, ClientStates
      <4> QED  BY <2>1, <4>1, <4>2, CallOfStates
    <3> QED  BY <1>0, <2>1, <3>1, <3>2, Stutters
  <2> QED  BY <2>2, <2>3
<1>7. ASSUME NEW c \in Clients, FinalJoin(c)
      PROVE  Goal
  <2>1. client[c] = "final_join" /\ client' = [client EXCEPT ![c] = "destroyed"] /\ UNCHANGED status
    BY <1>7 DEF FinalJoin, status
  <2>2. call' = [call EXCEPT ![c] = "destroyed"] /\ call[c] = "destroy"
    BY <1>1, <2>1 DEF ClientStates, CallOf, Cancelling, Finishing, Closing, Aborting
  <2>3. Executing = {} /\ m_queue = {}
    BY <1>0, <2>1 DEF Closed, Aborting
  <2>4. \A j \in Jobs : status'[j] \notin {"pending", "active"}
    BY <1>0, <2>1, <2>3, NobodyHolds, StatusOfJobs
  <2>5. Contract!Return(c)
    BY <2>1, <2>2, <2>4 DEF Contract!Return
  <2> QED  BY <2>5 DEF Contract!Next
<1>8. ASSUME NEW t \in ThreadIds, NEW j \in Jobs, ServiceTake(t, j)
      PROVE  Goal
  <2>1. /\ j \in m_queue /\ m_queue' = m_queue \ {j}
        /\ UNCHANGED <<submitted, outcome, client>>
        /\ \A k \in m_queue : ~(Priority[j] < Priority[k])
    BY <1>8 DEF ServiceTake, Pop, IsTop
  <2>2. status' = [status EXCEPT ![j] = "active"] /\ UNCHANGED call
    <3>1. j \in submitted /\ outcome[j] = "none"
      BY <1>0, <2>1, StatusOfJobs
    <3>2. \A k \in Jobs : status'[k] = IF k = j THEN "active" ELSE status[k]
      BY <2>1, <3>1 DEF status
    <3> QED  BY <2>1, <3>2, StatusChange DEF call
  <2>3. \A k \in Contract!Pending : Priority[k] <= Priority[j]
    <3>1. \A k \in Contract!Pending : k \in Jobs /\ k \in m_queue
      BY <1>0, StatusOfJobs DEF Contract!Pending
    <3>2. \A k \in Jobs : Priority[k] \in Int
      BY DispatcherAssumption
    <3> QED  BY <2>1, <3>1, <3>2
  <2>4. Contract!Start(j)
    BY <1>0, <2>1, <2>2, <2>3, StatusOfJobs DEF Contract!Start
  <2> QED  BY <2>4 DEF Contract!Next
<1>9. ASSUME NEW t \in ThreadIds, RunCleanup(t)
      PROVE  Goal
  <2>1. PICK j \in Jobs : j = item[t]
    BY <1>0, <1>9 DEF RunCleanup, JobOwnership, Busy
  <2>2. PICK o \in Contract!Ends : o = worker[t]
    BY <1>9 DEF RunCleanup, Contract!Ends
  <2>3. Holders(j) # {}
    BY <1>9, <2>1 DEF RunCleanup, Holders, Busy
  <2>4. status[j] = "active" /\ j \in submitted /\ j \notin m_queue
    <3>1. status[j] = "active"
      BY <1>0, <2>3, StatusOfJobs
    <3> QED  BY <1>0, <3>1, StatusOfJobs
  <2>5. /\ UNCHANGED <<m_queue, submitted, client>>
        /\ outcome' = [k \in Jobs |-> IF k = j THEN o ELSE outcome[k]]
    BY <1>9, <2>1, <2>2 DEF RunCleanup, CleanUp
  <2>6. status' = [status EXCEPT ![j] = o] /\ UNCHANGED call
    <3>1. o # "none"
      BY DEF Contract!Ends
    <3>2. \A k \in Jobs : status'[k] = IF k = j THEN o ELSE status[k]
      BY <2>4, <2>5, <3>1 DEF status
    <3> QED  BY <2>5, <3>2, StatusChange DEF call
  <2>7. Contract!End(j)
    BY <2>4, <2>6 DEF Contract!End
  <2> QED  BY <2>7 DEF Contract!Next
<1>10. ASSUME NEW t \in ThreadIds, ServiceThread(t)
       PROVE  Goal
  <2>1. CASE \/ ServicePark(t) \/ ServiceStop(t) \/ Relock(t) \/ ThreadExit(t)
             \/ \E o \in {"completed", "completed_with_exception"} : ExecReturns(t, o)
    BY <1>0, <2>1, Stutters DEF ServicePark, ServiceStop, Relock, ThreadExit, ExecReturns
  <2> QED  BY <1>8, <1>9, <1>10, <2>1 DEF ServiceThread
<1>11. ASSUME NEW c \in Clients, ClientContinues(c)
       PROVE  Goal
  <2>1. CASE \/ Abort(c) \/ AbortResumes(c) \/ Started(c)
             \/ (\E n \in Counts : SetTarget(c, n)) \/ (\E id \in ThreadIds : StartThrows(c, id))
    <3>1. UNCHANGED <<m_queue, submitted, outcome>>
      BY <2>1 DEF Abort, AbortResumes, Started, SetTarget, StartThrows
    <3>2. \E s \in ClientStates : client' = [client EXCEPT ![c] = s] /\ CallOf(s) = CallOf(client[c])
      BY <2>1 DEF Abort, AbortResumes, AbortWait, Started, SetTarget, StartThrows,
             CallOf, ClientStates, Cancelling, Finishing, Closing, Aborting, Resizing
    <3> QED  BY <1>0, <3>1, <3>2, Stutters
  <2>2. CASE IdsExhausted(c) \/ (\E t \in ThreadIds : JoinStopped(c, t) \/ StartThread(c, t))
    BY <1>0, <2>2, Stutters DEF IdsExhausted, JoinStopped, StartThread
  <2> QED  BY <1>5, <1>6, <1>7, <1>11, <2>1, <2>2 DEF ClientContinues
<1>12. ASSUME NEW c \in Clients, ClientCalls(c)
       PROVE  Goal
  <2>1. CASE CallSetServiceThreadCount(c)
    <3>1. client' = [client EXCEPT ![c] = "joining"] /\ UNCHANGED <<m_queue, submitted, outcome>> /\ client[c] = "idle"
      BY <2>1 DEF CallSetServiceThreadCount
    <3>2. CallOf("joining") = CallOf("idle") /\ "joining" \in ClientStates
      BY DEF CallOf, ClientStates, Cancelling, Finishing, Closing, Aborting, Resizing
    <3> QED  BY <1>0, <3>1, <3>2, Stutters
  <2> QED  BY <1>2, <1>3, <1>4, <1>12, <2>1 DEF ClientCalls, Submit
<1>13. ASSUME (\E a \in parked : SpuriousWakeup(a)) \/ UNCHANGED vars
       PROVE  Goal
  BY <1>0, <1>13, Stutters DEF SpuriousWakeup, vars
<1> QED  BY <1>2, <1>10, <1>11, <1>12, <1>13 DEF Next, Stopped, JobSubmit

(* The pool keeps the contract of its header: jobs start highest priority  *)
(* first, end once, are cancelled only before they start, and cancel_all,  *)
(* finish_all and the destructor return only when nothing is pending or    *)
(* active.                                                                 *)
THEOREM ImplementsContract == Spec => KeepsContract
BY InitRefines, StepRefines, Invariance, PTL DEF Spec, KeepsContract, Contract!Spec
=============================================================================

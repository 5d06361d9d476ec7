------------------------------ MODULE Processor ------------------------------
(***************************************************************************)
(* rpnx::experimental::processor: one thread of its own applies m_func to  *)
(* the submitted items, in the order of submission.  The mutex is never    *)
(* held while a thread blocks on something else, so what a thread does     *)
(* between taking and releasing it is one step.  m_cond is the set of the  *)
(* threads parked on it.                                                   *)
(***************************************************************************)
EXTENDS Integers, Sequences

CONSTANTS
    Items,          \* what is submitted, each item at most once
    Clients,        \* the threads that use the processor
    Thread,         \* the processor's own thread
    NoItem,         \* the thread has taken no item
    StartsEarly     \* the thread may be scheduled before the constructor ends

ASSUME ProcessorAssumption ==
    /\ Thread \notin Clients
    /\ NoItem \notin Items
    /\ StartsEarly \in BOOLEAN

VARIABLES
    m_queue, m_unprocessed_items, m_should_stop,
    parked,         \* the threads waiting un-notified on m_cond
    constructed,    \* the members declared after m_processor_thread exist
    thread, item,   \* where the thread is, and the item it has taken
    joinable,       \* m_processor_thread.joinable()
    client,         \* where each client is in its call
    submitted, processed   \* history: the items, in order

queueVars  == <<m_queue, m_unprocessed_items, m_should_stop>>
threadVars == <<thread, item>>
callVars   == <<joinable, client>>
history    == <<submitted, processed>>
vars == <<queueVars, parked, constructed, threadVars, callVars, history>>

ThreadStates == {"service", "running", "relock", "blocked", "exited"}
ClientStates == {"idle", "finish_all", "stop", "destroy", "destroyed"}

Listed(seq, i) == \E k \in 1 .. Len(seq) : seq[k] = i
InCall(S) == \E c \in Clients : client[c] \in S
Gone == InCall({"destroy", "destroyed"})

Init ==
    /\ m_queue = <<>>
    /\ m_unprocessed_items = 0
    /\ m_should_stop = FALSE
    /\ parked = {}
    /\ constructed = FALSE
    /\ thread = "service" /\ item = NoItem
    /\ joinable = TRUE
    /\ client = [c \in Clients |-> "idle"]
    /\ submitted = <<>> /\ processed = <<>>

-----------------------------------------------------------------------------
(* The constructor.  It starts the thread before it constructs the mutex,   *)
(* the condition variable, m_should_stop and the queue: a thread that is    *)
(* scheduled at once finds whatever the memory held before.  It may read a  *)
(* stop request and leave, or find the mutex taken and wait for ever.       *)

Construct ==
    /\ ~constructed
    /\ constructed' = TRUE
    /\ UNCHANGED <<queueVars, parked, threadVars, callVars, history>>

EarlyStart ==
    /\ StartsEarly /\ ~constructed
    /\ thread = "service"
    /\ thread' \in {"exited", "blocked"}
    /\ UNCHANGED <<queueVars, parked, constructed, item, callVars, history>>

-----------------------------------------------------------------------------
ServiceWakesForItems == m_queue # <<>>
ServiceWakesForStop  == m_should_stop
ServiceWakes == m_should_stop \/ m_queue # <<>>
FinishWakesEarly == m_queue = <<>>
FinishWakes  == m_queue = <<>> /\ m_unprocessed_items = 0

NotifyNobody == UNCHANGED parked
NotifyAll    == parked' = {}

\* submit, by a client or by m_func.
Enqueue(i) ==
    /\ constructed /\ ~Gone
    /\ ~Listed(submitted, i)
    /\ m_queue' = Append(m_queue, i)
    /\ submitted' = Append(submitted, i)
    /\ NotifyAll
    /\ UNCHANGED <<m_unprocessed_items, m_should_stop, constructed, threadVars,
                   callVars, processed>>

Submit(c, i)   == client[c] = "idle" /\ Enqueue(i)
ThreadSubmit(i) == thread = "running" /\ Enqueue(i)

\* finish_all, from the start or after a notification.
FinishAll(c) ==
    /\ constructed
    /\ \/ client[c] = "idle" /\ ~Gone
       \/ client[c] = "finish_all" /\ c \notin parked
    /\ \/ /\ FinishWakes
          /\ client' = [client EXCEPT ![c] = "idle"]
          /\ UNCHANGED parked
       \/ /\ ~FinishWakes
          /\ client' = [client EXCEPT ![c] = "finish_all"]
          /\ parked' = parked \cup {c}
    /\ UNCHANGED <<queueVars, constructed, threadVars, joinable, history>>

\* stop asks the thread to leave, then joins it without the mutex.  Joining is
\* not thread-safe, so clients call stop one at a time.
Stop(c, call) ==
    /\ constructed
    /\ client[c] = "idle"
    /\ ~InCall({"stop", "destroy", "destroyed"})
    /\ m_should_stop' = TRUE
    /\ NotifyAll
    /\ client' = [client EXCEPT ![c] = call]
    /\ UNCHANGED <<m_queue, m_unprocessed_items, constructed, threadVars,
                   joinable, history>>

CallStop(c) == Stop(c, "stop")
CallDestroy(c) == (\A d \in Clients : client[d] = "idle") /\ Stop(c, "destroy")

EndedUnchecked == TRUE
Ended == ~joinable \/ thread = "exited"

Join(c) ==
    /\ client[c] \in {"stop", "destroy"}
    /\ Ended
    /\ joinable' = FALSE
    /\ client' = [client EXCEPT ![c] = IF @ = "stop" THEN "idle" ELSE "destroyed"]
    /\ UNCHANGED <<queueVars, parked, constructed, threadVars, history>>

-----------------------------------------------------------------------------
(* run                                                                      *)

AtService == constructed /\ thread = "service" /\ Thread \notin parked

Park ==
    /\ AtService /\ ~ServiceWakes
    /\ parked' = parked \cup {Thread}
    /\ UNCHANGED <<queueVars, constructed, threadVars, callVars, history>>

\* A stop request is obeyed at once, whatever is still queued.
Leave ==
    /\ AtService /\ m_should_stop
    /\ thread' = "exited"
    /\ UNCHANGED <<queueVars, parked, constructed, item, callVars, history>>

PopBack  == item' = m_queue[Len(m_queue)] /\ m_queue' = SubSeq(m_queue, 1, Len(m_queue) - 1)
PopFront == item' = Head(m_queue) /\ m_queue' = Tail(m_queue)

CountTaken == m_unprocessed_items' = m_unprocessed_items + 1

Take ==
    /\ AtService /\ ~m_should_stop /\ m_queue # <<>>
    /\ PopFront
    /\ CountTaken
    /\ thread' = "running"
    /\ UNCHANGED <<m_should_stop, parked, constructed, callVars, history>>

\* m_func returns or throws; what it throws is swallowed.
FuncEnds ==
    /\ thread = "running"
    /\ processed' = Append(processed, item)
    /\ item' = NoItem
    /\ thread' = "relock"
    /\ UNCHANGED <<queueVars, parked, constructed, callVars, submitted>>

Finished(n) == n = 0 /\ m_queue = <<>>

Relock ==
    /\ thread = "relock"
    /\ m_unprocessed_items' = m_unprocessed_items - 1
    /\ thread' = "service"
    /\ IF Finished(m_unprocessed_items - 1) THEN NotifyAll ELSE UNCHANGED parked
    /\ UNCHANGED <<m_queue, m_should_stop, constructed, item, callVars, history>>

SpuriousWakeup(a) ==
    /\ a \in parked
    /\ parked' = parked \ {a}
    /\ UNCHANGED <<queueVars, constructed, threadVars, callVars, history>>

-----------------------------------------------------------------------------
Run == Park \/ Leave \/ Take \/ FuncEnds \/ Relock

Client(c) ==
    \/ \E i \in Items : Submit(c, i)
    \/ FinishAll(c) \/ CallStop(c) \/ CallDestroy(c) \/ Join(c)

Stopped == InCall({"destroyed"}) /\ UNCHANGED vars

Next == \/ Construct \/ EarlyStart \/ Run
        \/ \E i \in Items : ThreadSubmit(i)
        \/ \E c \in Clients : Client(c)
        \/ \E a \in parked : SpuriousWakeup(a)
        \/ Stopped

Spec == Init /\ [][Next]_vars

\* The thread is scheduled, m_func returns, and a client goes on with the call
\* it has made.
FairSpec ==
    /\ Spec
    /\ WF_vars(Construct) /\ WF_vars(Run)
    /\ \A c \in Clients : /\ WF_vars(client[c] = "finish_all" /\ FinishAll(c))
                          /\ WF_vars(Join(c))

-----------------------------------------------------------------------------
(* Every member has its type; m_unprocessed_items does not underflow.       *)
TypeOK ==
    /\ m_queue \in Seq(Items)
    /\ m_unprocessed_items \in Nat
    /\ m_should_stop \in BOOLEAN
    /\ parked \subseteq Clients \cup {Thread}
    /\ constructed \in BOOLEAN
    /\ thread \in ThreadStates
    /\ item \in Items \cup {NoItem}
    /\ joinable \in BOOLEAN
    /\ client \in [Clients -> ClientStates]
    /\ submitted \in Seq(Items)
    /\ processed \in Seq(Items)

(* The items processed, the one in the thread's hands and those queued are, *)
(* in this order, the items submitted: none is lost, doubled or overtaken,  *)
(* and m_unprocessed_items counts the one that is out of the queue.         *)
InOrder ==
    /\ submitted = processed \o (IF item = NoItem THEN <<>> ELSE <<item>>) \o m_queue
    /\ (thread = "running") = (item # NoItem)
    /\ m_unprocessed_items = IF thread \in {"running", "relock"} THEN 1 ELSE 0

(* Nobody stays parked while what it waits for holds: neither submit and    *)
(* stop nor the thread's conditional notification forgets a waiter.         *)
NoLostWakeup ==
    /\ Thread \in parked => ~ServiceWakes
    /\ \A c \in Clients \cap parked : client[c] = "finish_all" /\ ~FinishWakes

(* Once stop has joined the thread, nothing is processed any more, and the  *)
(* members are destroyed with no thread parked on them.                     *)
StopIsFinal ==
    /\ ~joinable => thread = "exited" /\ Thread \notin parked
    /\ InCall({"destroyed"}) => parked = {}

(* finish_all returns to a client only when everything submitted before has *)
(* been processed.                                                          *)
FinishedMeansProcessed ==
    [][\A c \in Clients :
          client[c] = "finish_all" /\ client'[c] = "idle" => processed = submitted]_vars

\* The thread has started too early to serve, or has obeyed a stop request.
NeverServes == thread \in {"blocked", "exited"}

(* Everything is processed in the end, unless the processor is stopped or   *)
(* its thread was started too early.                                        *)
ItemsProcessed ==
    \A i \in Items : Listed(submitted, i) ~> (Listed(processed, i) \/ m_should_stop \/ NeverServes)

(* finish_all returns, with the same exceptions; stop and the destructor    *)
(* return whatever the thread was doing, unless it waits for ever on the    *)
(* mutex that was not constructed.                                          *)
CallsReturn ==
    \A c \in Clients :
       /\ (client[c] = "finish_all") ~> (client[c] = "idle" \/ m_should_stop \/ NeverServes)
       /\ (client[c] \in {"stop", "destroy"}) ~>
             (client[c] \in {"idle", "destroyed"} \/ thread = "blocked")

=============================================================================

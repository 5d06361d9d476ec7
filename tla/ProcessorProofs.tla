-------------------------- MODULE ProcessorProofs --------------------------
(* Proofs of the invariants of Processor for any number of items and        *)
(* clients.                                                                 *)
EXTENDS Processor, SequenceTheorems, TLAPS

(* Before the constructor ends nobody has called anything; whoever destroys *)
(* the processor is the last to use it; only a thread that serves is parked.*)
Inside ==
    /\ ~constructed => /\ \A c \in Clients : client[c] = "idle"
                       /\ parked = {} /\ joinable
    /\ \A c, d \in Clients :
          client[c] \in {"destroy", "destroyed"} /\ c # d => client[d] = "idle"
    /\ \A c \in Clients : client[c] = "destroyed" => ~joinable
    /\ Thread \in parked => thread = "service"

(* StopIsFinal needs Inside: the members are destroyed with nobody parked   *)
(* because everybody else was idle when the destructor was called.          *)
Inv == TypeOK /\ InOrder /\ NoLostWakeup /\ StopIsFinal /\ Inside

InHand(i) == IF i = NoItem THEN <<>> ELSE <<i>>

-----------------------------------------------------------------------------
\* How the three places of an item follow one another: submit puts it behind the
\* queue, the thread takes it from the front, and m_func leaves it processed.
LEMMA SubmitMoves ==
    ASSUME NEW p \in Seq(Items), NEW h \in Seq(Items), NEW q \in Seq(Items), NEW i \in Items
    PROVE  Append((p \o h) \o q, i) = (p \o h) \o Append(q, i)
<1> DEFINE s == p \o h
           e == <<i>>
<1>1. s \in Seq(Items) /\ e \in Seq(Items) /\ Append(q, i) = q \o e
  OBVIOUS
<1>2. Append(s \o q, i) = (s \o q) \o e
  BY <1>1
<1>3. (s \o q) \o e = s \o (q \o e)
  <2> HIDE DEF s, e
  <2> QED
    BY <1>1, ConcatAssociative
<1> QED
  BY <1>1, <1>2, <1>3

LEMMA TakeMoves ==
    ASSUME NEW p \in Seq(Items), NEW q \in Seq(Items), q # <<>>
    PROVE  (p \o <<>>) \o q = (p \o <<Head(q)>>) \o Tail(q)
<1>1. Head(q) \in Items /\ Tail(q) \in Seq(Items) /\ q = <<Head(q)>> \o Tail(q)
  OBVIOUS
<1>2. <<Head(q)>> \in Seq(Items)
  BY <1>1
<1>3. p \o (<<Head(q)>> \o Tail(q)) = (p \o <<Head(q)>>) \o Tail(q)
  BY <1>1, <1>2, ConcatAssociative
<1>4. p \o <<>> = p
  BY ConcatEmptySeq
<1> QED
  BY <1>1, <1>3, <1>4

LEMMA FuncEndsMoves ==
    ASSUME NEW p \in Seq(Items), NEW q \in Seq(Items), NEW i \in Items
    PROVE  (p \o <<i>>) \o q = (Append(p, i) \o <<>>) \o q
<1>1. Append(p, i) = p \o <<i>> /\ Append(p, i) \in Seq(Items)
  OBVIOUS
<1>2. Append(p, i) \o <<>> = Append(p, i)
  BY <1>1, ConcatEmptySeq
<1> QED
  BY <1>1, <1>2

LEMMA Places ==
    ASSUME Inv
    PROVE  /\ InHand(item) \in Seq(Items)
           /\ submitted = (processed \o InHand(item)) \o m_queue
BY DEF Inv, TypeOK, InOrder, InHand

-----------------------------------------------------------------------------
LEMMA InitInv == Init => Inv
<1> SUFFICES ASSUME Init PROVE Inv
  OBVIOUS
<1>1. TypeOK
  <2>1. client \in [Clients -> ClientStates]
    BY DEF Init, ClientStates
  <2>2. m_queue \in Seq(Items) /\ submitted \in Seq(Items) /\ processed \in Seq(Items)
    BY DEF Init
  <2> QED
    BY <2>1, <2>2 DEF Init, TypeOK, ThreadStates
<1>2. InOrder
  <2>1. <<>> \o <<>> = <<>>
    BY ConcatEmptySeq, <<>> \in Seq(Items)
  <2> QED
    BY <2>1 DEF Init, InOrder
<1>3. NoLostWakeup /\ StopIsFinal /\ Inside
  BY DEF Init, NoLostWakeup, StopIsFinal, Inside, InCall
<1> QED
  BY <1>1, <1>2, <1>3 DEF Inv

LEMMA StartKeeps ==
    ASSUME Inv, Construct \/ EarlyStart
    PROVE  Inv'
<1>1. TypeOK'
  BY DEF Inv, TypeOK, Construct, EarlyStart, queueVars, threadVars, callVars, history, ThreadStates
<1>2. InOrder'
  BY DEF Inv, InOrder, Construct, EarlyStart, queueVars, threadVars, callVars, history
<1>3. NoLostWakeup'
  BY DEF Inv, NoLostWakeup, ServiceWakes, FinishWakes, Construct, EarlyStart,
         queueVars, threadVars, callVars, history
<1>4. StopIsFinal' /\ Inside'
  BY DEF Inv, StopIsFinal, Inside, InCall, Construct, EarlyStart,
         queueVars, threadVars, callVars, history
<1> QED
  BY <1>1, <1>2, <1>3, <1>4 DEF Inv

\* The mutex, the condition variable and the queue exist, and are in use.
LEMMA EnqueueKeeps ==
    ASSUME Inv, NEW i \in Items, Enqueue(i)
    PROVE  Inv'
<1>1. TypeOK'
  BY DEF Inv, TypeOK, Enqueue, NotifyAll, threadVars, callVars
<1>2. InOrder'
  <2> DEFINE h == InHand(item)
  <2>1. /\ processed \in Seq(Items) /\ h \in Seq(Items) /\ m_queue \in Seq(Items)
        /\ submitted = (processed \o h) \o m_queue
    BY Places DEF Inv, TypeOK
  <2>2. submitted' = Append(submitted, i)
    BY DEF Enqueue
  <2> HIDE DEF h
  <2>3. Append((processed \o h) \o m_queue, i) = (processed \o h) \o Append(m_queue, i)
    BY <2>1, SubmitMoves, Zenon
  <2>4. submitted' = (processed \o h) \o Append(m_queue, i)
    BY <2>1, <2>2, <2>3, Zenon
  <2> QED
    BY <2>4 DEF h, Inv, InOrder, InHand, Enqueue, threadVars, callVars
<1>3. NoLostWakeup' /\ StopIsFinal' /\ Inside'
  BY DEF Inv, NoLostWakeup, StopIsFinal, Inside, InCall, Enqueue, NotifyAll, threadVars, callVars
<1> QED
  BY <1>1, <1>2, <1>3 DEF Inv

LEMMA FinishKeeps ==
    ASSUME Inv, NEW c \in Clients, FinishAll(c)
    PROVE  Inv'
<1>1. TypeOK'
  BY DEF Inv, TypeOK, FinishAll, queueVars, threadVars, history, ClientStates
<1>2. InOrder'
  BY DEF Inv, InOrder, FinishAll, queueVars, threadVars, history
<1>3. NoLostWakeup'
  BY ProcessorAssumption DEF Inv, TypeOK, NoLostWakeup, ServiceWakes, FinishWakes, FinishAll,
         queueVars, threadVars, history
<1>4. StopIsFinal' /\ Inside'
  <2>1. ~Gone
    BY DEF Inv, Inside, FinishAll, Gone, InCall
  <2> QED
    BY <2>1, ProcessorAssumption DEF Inv, TypeOK, StopIsFinal, Inside, InCall, Gone, FinishAll,
         queueVars, threadVars, history
<1> QED
  BY <1>1, <1>2, <1>3, <1>4 DEF Inv

LEMMA StopKeeps ==
    ASSUME Inv, NEW c \in Clients, CallStop(c) \/ CallDestroy(c)
    PROVE  Inv'
<1>1. PICK call \in {"stop", "destroy"} :
         Stop(c, call) /\ (call = "destroy" => \A d \in Clients : client[d] = "idle")
  BY DEF CallStop, CallDestroy
<1>2. TypeOK'
  BY <1>1 DEF Inv, TypeOK, Stop, NotifyAll, threadVars, history, ClientStates
<1>3. InOrder'
  BY <1>1 DEF Inv, InOrder, Stop, threadVars, history
<1>4. NoLostWakeup'
  BY <1>1 DEF NoLostWakeup, Stop, NotifyAll
<1>5. StopIsFinal' /\ Inside'
  BY <1>1 DEF Inv, TypeOK, StopIsFinal, Inside, InCall, Stop, NotifyAll, threadVars, history
<1> QED
  BY <1>2, <1>3, <1>4, <1>5 DEF Inv

LEMMA JoinKeeps ==
    ASSUME Inv, NEW c \in Clients, Join(c)
    PROVE  Inv'
<1>1. thread = "exited" /\ Thread \notin parked
  BY DEF Inv, StopIsFinal, Inside, Join, Ended
<1>2. TypeOK'
  BY DEF Inv, TypeOK, Join, queueVars, threadVars, history, ClientStates
<1>3. InOrder'
  BY DEF Inv, InOrder, Join, queueVars, threadVars, history
<1>4. NoLostWakeup'
  BY DEF Inv, TypeOK, NoLostWakeup, ServiceWakes, FinishWakes, Join, queueVars, threadVars
<1>5. client'[c] = "destroyed" => parked = {}
  BY <1>1 DEF Inv, TypeOK, NoLostWakeup, Inside, Join
<1>6. StopIsFinal' /\ Inside'
  BY <1>1, <1>5 DEF Inv, TypeOK, StopIsFinal, Inside, InCall, Join, queueVars, threadVars
<1> QED
  BY <1>2, <1>3, <1>4, <1>6 DEF Inv

-----------------------------------------------------------------------------
\* The steps of run.
LEMMA WaitKeeps ==
    ASSUME Inv, Park \/ Leave
    PROVE  Inv'
<1>1. TypeOK'
  BY DEF Inv, TypeOK, Park, Leave, queueVars, threadVars, callVars, history, ThreadStates
<1>2. InOrder'
  BY DEF Inv, InOrder, Park, Leave, AtService, queueVars, threadVars, callVars, history
<1>3. NoLostWakeup'
  BY ProcessorAssumption DEF Inv, NoLostWakeup, ServiceWakes, FinishWakes, Park, Leave, AtService,
         queueVars, threadVars, callVars
<1>4. StopIsFinal' /\ Inside'
  BY ProcessorAssumption DEF Inv, StopIsFinal, Inside, InCall, Park, Leave, AtService,
         queueVars, threadVars, callVars
<1> QED
  BY <1>1, <1>2, <1>3, <1>4 DEF Inv

LEMMA TakeKeeps ==
    ASSUME Inv, Take
    PROVE  Inv'
<1>1. /\ item = NoItem /\ item' \in Items /\ item' = Head(m_queue) /\ m_queue' = Tail(m_queue)
      /\ m_queue' \in Seq(Items) /\ m_queue # <<>>
      /\ m_unprocessed_items = 0 /\ m_unprocessed_items' = 1
  BY DEF Inv, TypeOK, InOrder, Take, PopFront, CountTaken, AtService
<1>2. TypeOK'
  BY <1>1 DEF Inv, TypeOK, Take, callVars, history, ThreadStates
<1>3. InOrder'
  <2>1. /\ processed \in Seq(Items) /\ m_queue \in Seq(Items) /\ m_queue # <<>>
        /\ submitted = (processed \o <<>>) \o m_queue
    BY <1>1, Places DEF InHand, Inv, TypeOK
  <2>2. (processed \o <<>>) \o m_queue = (processed \o <<Head(m_queue)>>) \o Tail(m_queue)
    BY <2>1, TakeMoves, Zenon
  <2>3. submitted = (processed \o <<item'>>) \o m_queue'
    BY <1>1, <2>1, <2>2, Zenon
  <2> QED
    BY <1>1, <2>3, ProcessorAssumption DEF InOrder, Take, history
<1>4. NoLostWakeup'
  BY <1>1 DEF Inv, NoLostWakeup, FinishWakes, Take, AtService, callVars
<1>5. StopIsFinal' /\ Inside'
  BY DEF Inv, StopIsFinal, Inside, InCall, Take, AtService, callVars
<1> QED
  BY <1>2, <1>3, <1>4, <1>5 DEF Inv

LEMMA FuncEndsKeeps ==
    ASSUME Inv, FuncEnds
    PROVE  Inv'
<1>1. item \in Items
  BY DEF Inv, TypeOK, InOrder, FuncEnds
<1>2. TypeOK'
  BY <1>1 DEF Inv, TypeOK, FuncEnds, queueVars, callVars, ThreadStates
<1>3. InOrder'
  <2>1. /\ processed \in Seq(Items) /\ m_queue \in Seq(Items)
        /\ submitted = (processed \o <<item>>) \o m_queue
    BY <1>1, Places, ProcessorAssumption DEF InHand, Inv, TypeOK
  <2>2. (processed \o <<item>>) \o m_queue = (Append(processed, item) \o <<>>) \o m_queue
    BY <1>1, <2>1, FuncEndsMoves, Zenon
  <2>3. submitted' = submitted /\ processed' = Append(processed, item) /\ m_queue' = m_queue
    BY DEF FuncEnds, queueVars
  <2>4. submitted' = (processed' \o <<>>) \o m_queue'
    BY <2>1, <2>2, <2>3, Zenon
  <2> QED
    BY <2>4 DEF Inv, InOrder, FuncEnds, queueVars
<1>4. NoLostWakeup'
  BY DEF Inv, NoLostWakeup, ServiceWakes, FinishWakes, FuncEnds, queueVars, callVars
<1>5. StopIsFinal' /\ Inside'
  BY DEF Inv, StopIsFinal, Inside, InCall, FuncEnds, callVars
<1> QED
  BY <1>2, <1>3, <1>4, <1>5 DEF Inv

\* The one conditional notification: it is left out only when nobody's wait ends.
LEMMA RelockKeeps ==
    ASSUME Inv, Relock
    PROVE  Inv'
<1>1. m_unprocessed_items = 1 /\ m_unprocessed_items' = 0 /\ m_queue' = m_queue
  BY DEF Inv, InOrder, Relock
<1>2. TypeOK'
  BY <1>1 DEF Inv, TypeOK, Relock, NotifyAll, callVars, history, ThreadStates
<1>3. InOrder'
  BY <1>1 DEF Inv, InOrder, Relock, history
<1>4. NoLostWakeup'
  BY <1>1 DEF Inv, NoLostWakeup, ServiceWakes, FinishWakes, Finished, Inside, Relock, NotifyAll, callVars
<1>5. StopIsFinal' /\ Inside'
  BY DEF Inv, StopIsFinal, Inside, InCall, Relock, NotifyAll, callVars
<1> QED
  BY <1>2, <1>3, <1>4, <1>5 DEF Inv

LEMMA SpuriousKeeps ==
    ASSUME Inv, NEW a \in parked, SpuriousWakeup(a)
    PROVE  Inv'
<1>1. TypeOK'
  BY DEF Inv, TypeOK, SpuriousWakeup, queueVars, threadVars, callVars, history
<1>2. InOrder'
  BY DEF Inv, InOrder, SpuriousWakeup, queueVars, threadVars, callVars, history
<1>3. NoLostWakeup'
  BY DEF Inv, NoLostWakeup, ServiceWakes, FinishWakes, SpuriousWakeup, queueVars, threadVars, callVars
<1>4. StopIsFinal' /\ Inside'
  BY DEF Inv, StopIsFinal, Inside, InCall, SpuriousWakeup, queueVars, threadVars, callVars
<1> QED
  BY <1>1, <1>2, <1>3, <1>4 DEF Inv

-----------------------------------------------------------------------------
LEMMA NextInv == Inv /\ [Next]_vars => Inv'
<1> SUFFICES ASSUME Inv, [Next]_vars PROVE Inv'
  OBVIOUS
<1>1. CASE UNCHANGED vars
  <2>1. TypeOK' /\ InOrder'
    BY <1>1 DEF Inv, vars, queueVars, threadVars, callVars, history, TypeOK, InOrder
  <2>2. NoLostWakeup' /\ StopIsFinal' /\ Inside'
    BY <1>1 DEF Inv, vars, queueVars, threadVars, callVars, history, NoLostWakeup, ServiceWakes,
                FinishWakes, StopIsFinal, Inside, InCall
  <2> QED
    BY <2>1, <2>2 DEF Inv
<1>2. CASE Construct \/ EarlyStart
  BY <1>2, StartKeeps
<1>3. CASE Run
  BY <1>3, WaitKeeps, TakeKeeps, FuncEndsKeeps, RelockKeeps DEF Run
<1>4. ASSUME NEW i \in Items, ThreadSubmit(i) PROVE Inv'
  BY <1>4, EnqueueKeeps DEF ThreadSubmit
<1>5. ASSUME NEW c \in Clients, Client(c) PROVE Inv'
  BY <1>5, EnqueueKeeps, FinishKeeps, StopKeeps, JoinKeeps DEF Client, Submit
<1>6. ASSUME NEW a \in parked, SpuriousWakeup(a) PROVE Inv'
  BY <1>6, SpuriousKeeps
<1>7. CASE Stopped
  BY <1>1, <1>7 DEF Stopped
<1> QED
  BY <1>1, <1>2, <1>3, <1>4, <1>5, <1>6, <1>7 DEF Next

(* The invariants of the processor hold in every reachable state.           *)
THEOREM Invariance == Spec => []Inv
BY InitInv, NextInv, PTL DEF Spec

(* Every member keeps its type; m_unprocessed_items does not underflow.     *)
THEOREM TypeCorrect == Spec => []TypeOK
<1>1. Inv => TypeOK
  BY DEF Inv
<1> QED
  BY <1>1, Invariance, PTL

(* No item is lost, doubled or overtaken between submit and m_func.         *)
THEOREM ItemsInOrder == Spec => []InOrder
<1>1. Inv => InOrder
  BY DEF Inv
<1> QED
  BY <1>1, Invariance, PTL

(* Nobody stays parked on m_cond while what it waits for holds.             *)
THEOREM NoWakeupIsLost == Spec => []NoLostWakeup
<1>1. Inv => NoLostWakeup
  BY DEF Inv
<1> QED
  BY <1>1, Invariance, PTL

(* Nothing runs after stop, and nobody is parked on destroyed members.      *)
THEOREM StoppedForGood == Spec => []StopIsFinal
<1>1. Inv => StopIsFinal
  BY DEF Inv
<1> QED
  BY <1>1, Invariance, PTL

(* finish_all returns only when everything submitted has been processed.    *)
THEOREM FinishMeansProcessed == Spec => FinishedMeansProcessed
<1> DEFINE A == \A c \in Clients :
                   client[c] = "finish_all" /\ client'[c] = "idle" => processed = submitted
<1>1. Inv /\ [Next]_vars => [A]_vars
  <2> SUFFICES ASSUME Inv, Next, NEW c \in Clients,
                      client[c] = "finish_all", client'[c] = "idle"
               PROVE  processed = submitted
    BY DEF vars
  <2>1. FinishAll(c)
    <3>1. \A d \in Clients : d # c /\ Client(d) => client'[c] = client[c]
      BY DEF Inv, TypeOK, Client, Submit, Enqueue, FinishAll, CallStop, CallDestroy, Stop, Join, callVars
    <3>2. Client(c) => FinishAll(c)
      BY DEF Inv, TypeOK, Client, Submit, Enqueue, CallStop, CallDestroy, Stop, Join, callVars
    <3>3. ~Client(c) => \E d \in Clients : d # c /\ Client(d)
      BY DEF Next, Construct, EarlyStart, Run, Park, Leave, Take, FuncEnds, Relock, ThreadSubmit, Enqueue,
             SpuriousWakeup, Stopped, vars, callVars
    <3> QED
      BY <3>1, <3>2, <3>3
  <2>2. m_queue = <<>> /\ m_unprocessed_items = 0
    BY <2>1 DEF FinishAll, FinishWakes, Inv, TypeOK
  <2>3. item = NoItem
    BY <2>2 DEF Inv, InOrder
  <2>4. processed \o <<>> = processed
    BY ConcatEmptySeq DEF Inv, TypeOK
  <2> QED
    BY <2>2, <2>3, <2>4, Places DEF InHand
<1> QED
  BY <1>1, Invariance, PTL DEF Spec, FinishedMeansProcessed
=============================================================================

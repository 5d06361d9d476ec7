------------------------- MODULE DispatcherContract -------------------------
(***************************************************************************)
(* What the header of priority_dispatcher promises its callers, without    *)
(* threads, mutex or condition variable: a job is submitted once, is       *)
(* started when no pending job has a higher priority or is cancelled       *)
(* before it started, and a waiting call returns only when no job is       *)
(* pending or active.                                                      *)
(***************************************************************************)
EXTENDS Integers

CONSTANTS Jobs, Clients, Priority

VARIABLES status,   \* what has become of each job
          call      \* the waiting call each client has pending

vars == <<status, call>>

Ends  == {"completed", "completed_with_exception"}
Calls == {"cancel_all", "finish_all", "destroy"}

Init == /\ status = [j \in Jobs |-> "new"]
        /\ call = [c \in Clients |-> "idle"]

Pending == {j \in Jobs : status[j] = "pending"}
NoCall(S) == \A c \in Clients : call[c] \notin S

Submit(j) ==
    /\ status[j] = "new"
    /\ NoCall(Calls \cup {"destroyed"})
    /\ status' = [status EXCEPT ![j] = "pending"]
    /\ UNCHANGED call

Start(j) ==
    /\ status[j] = "pending"
    /\ \A k \in Pending : Priority[k] <= Priority[j]
    /\ status' = [status EXCEPT ![j] = "active"]
    /\ UNCHANGED call

End(j) ==
    /\ status[j] = "active"
    /\ \E o \in Ends : status' = [status EXCEPT ![j] = o]
    /\ UNCHANGED call

Cancelled == [j \in Jobs |-> IF status[j] = "pending" THEN "cancelled" ELSE status[j]]

\* cancel_all_quick
CancelPending ==
    /\ NoCall(Calls \cup {"destroyed"})
    /\ status' = Cancelled
    /\ UNCHANGED call

Call(c) ==
    /\ call[c] = "idle"
    /\ \E k \in Calls :
          /\ NoCall({"destroyed"} \cup
                    (CASE k = "cancel_all" -> {"finish_all", "destroy"}
                       [] k = "finish_all" -> {"cancel_all", "destroy"}
                       [] k = "destroy"    -> Calls))
          /\ call' = [call EXCEPT ![c] = k]
    /\ UNCHANGED status

\* A pending cancel_all cancels what it finds queued, and may find it again.
Cancel(c) ==
    /\ call[c] \in {"cancel_all", "destroy"}
    /\ status' = Cancelled
    /\ UNCHANGED call

Return(c) ==
    /\ \/ /\ call[c] = "cancel_all"
          /\ status' = Cancelled
          /\ call' = [call EXCEPT ![c] = "idle"]
       \/ /\ call[c] \in {"finish_all", "destroy"}
          /\ UNCHANGED status
          /\ call' = [call EXCEPT ![c] =
                         IF call[c] = "destroy" THEN "destroyed" ELSE "idle"]
    /\ \A j \in Jobs : status'[j] \notin {"pending", "active"}

Next == \/ \E j \in Jobs : Submit(j) \/ Start(j) \/ End(j)
        \/ CancelPending
        \/ \E c \in Clients : Call(c) \/ Cancel(c) \/ Return(c)

Spec == Init /\ [][Next]_vars

=============================================================================

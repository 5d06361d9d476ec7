------------------------ MODULE MCPriorityDispatcher ------------------------
(* Instances of PriorityDispatcher for TLC.                                *)
EXTENDS DispatcherProperties

CONSTANTS j1, j2, j3   \* jobs

\* j1 and j2 have the same priority, j3 a lower one.
MCPriority == [j \in Jobs |-> IF j = j3 THEN -1 ELSE 5]
=============================================================================

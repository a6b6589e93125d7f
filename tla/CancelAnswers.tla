---------------------------- MODULE CancelAnswers ----------------------------
(* What the guide says of the answers of a cancellation, checked against   *)
(* what the task was when the call began: a history variable beside the    *)
(* unchanged service.                                                      *)
EXTENDS MCRayonExecutorService

VARIABLE began  \* for each caller, its task as its last call found it

TaskSeen(t) ==
    IF t = NoTask THEN [phase |-> "New", result |-> "None"]
    ELSE [phase |-> PhaseOf(t), result |-> ResultOf(t)]

Moved(c) == <<pc[c], answer[c], target[c]>>' # <<pc[c], answer[c], target[c]>>

Remember ==
    began' = [c \in Callers |->
                 IF pc[c] = "idle" /\ Moved(c) THEN TaskSeen(target'[c])
                 ELSE began[c]]

HistoryInit == Init /\ began = [c \in Callers |-> TaskSeen(NoTask)]
HistorySpec == HistoryInit /\ [][Next /\ Remember]_<<vars, began>>

(* "Cancellation succeeds only while a task is queued" (user guide): a     *)
(* call that answers Cancelled found its task in the queue (cancel_task).  *)
SucceedsOnlyWhileQueued ==
    \A c \in Callers : answer[c] = "Cancelled" => began[c].phase = "Queued"

(* "a running task reports AlreadyRunning, and a completed task reports    *)
(* AlreadyFinished" (user guide): a call that answers AlreadyRunning did   *)
(* not begin after the task's result was there (cancellation_handle).      *)
CompletedReportsFinished ==
    \A c \in Callers :
       answer[c] = "AlreadyRunning" => began[c].result \notin Completed
=============================================================================

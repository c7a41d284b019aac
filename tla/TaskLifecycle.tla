--------------------------- MODULE TaskLifecycle ---------------------------
(***************************************************************************)
(* What a BackgroundTask row promises to the pages that poll it            *)
(* (GET /api/tasks/<pk>/ and GET /api/episodes/<id>/tasks/): a task is     *)
(* created pending, may start running, ends in exactly one of three        *)
(* terminal statuses, and an ended task never changes again.               *)
(***************************************************************************)
CONSTANT Tasks

VARIABLE status

InProgress == {"pending", "running"}
Terminal == {"completed", "failed", "timeout"}
Status == {"absent"} \cup InProgress \cup Terminal

Init == status = [t \in Tasks |-> "absent"]

Create(t) ==
    /\ status[t] = "absent"
    /\ status' = [status EXCEPT ![t] = "pending"]

Start(t) ==
    /\ status[t] = "pending"
    /\ status' = [status EXCEPT ![t] = "running"]

Finish(t) ==
    /\ status[t] = "running"
    /\ \E s \in Terminal : status' = [status EXCEPT ![t] = s]

\* A restart gives up on any set of unfinished tasks in one go.
Interrupt(S) ==
    /\ \A t \in S : status[t] \in InProgress
    /\ status' = [t \in Tasks |-> IF t \in S THEN "timeout" ELSE status[t]]

Next ==
    \/ \E t \in Tasks : Create(t) \/ Start(t) \/ Finish(t)
    \/ \E S \in SUBSET Tasks : Interrupt(S)

Spec == Init /\ [][Next]_status
=============================================================================

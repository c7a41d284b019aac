-------------------------- MODULE WorkflowHistory --------------------------
(***************************************************************************)
(* What the episode workflow still promises when requests overlap.  A      *)
(* request that saves an old copy may put an episode back to any status it *)
(* has had, or one step on from there, so the status may jump; but no      *)
(* status is ever reached before its neighbour in the chain                *)
(*                                                                         *)
(*   draft, planned, scheduled, recorded, ingested, transcribed, edited,   *)
(*   approved, published                                                   *)
(*                                                                         *)
(* and approved lies beyond a host's decision and a complete checklist.    *)
(***************************************************************************)
EXTENDS Integers

VARIABLES
    status,     \* of the episode
    reached,    \* every status it has had; {} once it was overridden
    cleared,    \* a host has acted on it and its checklist has been complete
    overridden  \* an API client has written the status without any check

Rank == [draft |-> 0, planned |-> 1, scheduled |-> 2, recorded |-> 3, ingested |-> 4,
         transcribed |-> 5, edited |-> 6, approved |-> 7, published |-> 8]

Adjacent(s, n) == Rank[s] - Rank[n] \in {1, -1}

Init == status = "draft" /\ reached = {"draft"} /\ cleared = FALSE /\ overridden = FALSE

Clear ==
    /\ ~cleared /\ cleared' = TRUE
    /\ UNCHANGED <<status, reached, overridden>>

Allowed(s) ==
    /\ s \in reached \/ \E n \in reached : Adjacent(s, n)
    /\ s \in {"approved", "published"} => cleared

Move(s) ==
    /\ Allowed(s) \/ overridden
    /\ status' = s
    /\ reached' = IF overridden THEN {} ELSE reached \cup {s}
    /\ UNCHANGED <<cleared, overridden>>

\* From here on the history says nothing more.
Override(s) ==
    /\ overridden' = TRUE
    /\ status' = s
    /\ reached' = {}
    /\ UNCHANGED cleared

Next == Clear \/ \E s \in DOMAIN Rank : Move(s) \/ Override(s)

Spec == Init /\ [][Next]_<<status, reached, cleared, overridden>>
=============================================================================

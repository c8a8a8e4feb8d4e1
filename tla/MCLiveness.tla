----------------------------- MODULE MCLiveness -----------------------------
(***************************************************************************)
(* The consumption of a queue and the collaboration rooms, side by side: a *)
(* behaviour chooses one and only that one moves.  In its initial state    *)
(* neither has a fair action enabled, so conjoining the two fairness       *)
(* conditions asks nothing of the one that stands still.                   *)
(***************************************************************************)
EXTENDS JobQueue, CollabRooms

VARIABLE part       \* the component that moves

LivenessInit == part \in {"queue", "rooms"} /\ QueueInit /\ CollabInit

LivenessNext ==
    /\ UNCHANGED part
    /\ \/ part = "queue" /\ QueueNext /\ UNCHANGED collabVars
       \/ part = "rooms" /\ CollabNext /\ UNCHANGED jobVars

LivenessSpec ==
    /\ LivenessInit /\ [][LivenessNext]_<<part, jobVars, collabVars>>
    /\ QueueFairness /\ CollabFairness
=============================================================================

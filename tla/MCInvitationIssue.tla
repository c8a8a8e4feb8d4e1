-------------------------- MODULE MCInvitationIssue --------------------------
(* InvitationIssue on small instances.  Batch b1 pastes two people; b2     *)
(* pastes the same two in the other order, the first of them twice in two  *)
(* spellings; b3 pastes one of them.                                       *)
EXTENDS InvitationIssue

CONSTANTS b1, b2, b3, ann, bob, AnnTyped

MCPasted == [b \in Batches |->
    IF b = b1 THEN <<ann, bob>>
    ELSE IF b = b2 THEN <<bob, AnnTyped, ann>>
    ELSE <<ann>>]

MCLower == [a \in {ann, bob, AnnTyped} |-> IF a = bob THEN bob ELSE ann]

MCMaxAttempts == [b \in Batches |-> IF b = b1 THEN 2 ELSE 1]
MCLifetime == [b \in Batches |-> 1]
=============================================================================

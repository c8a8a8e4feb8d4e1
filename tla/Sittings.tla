------------------------------ MODULE Sittings ------------------------------
(***************************************************************************)
(* What redeeming an invitation promises, and nothing of how: each        *)
(* invitation admits a bounded number of sittings, taken one at a time    *)
(* and never given back.  invitations.max_attempts is the allowance.      *)
(* Redemption.tla is shown to implement this specification.               *)
(***************************************************************************)
EXTENDS Naturals

CONSTANTS
    Invitations,    \* the invitation rows
    MaxAttempts     \* invitations.max_attempts, per invitation

VARIABLE taken      \* sittings taken, per invitation

Init == taken = [i \in Invitations |-> 0]

(* One more sitting of i, which the allowance must still cover. *)
Take(i) ==
    /\ taken[i] < MaxAttempts[i]
    /\ taken' = [taken EXCEPT ![i] = @ + 1]

Next == \E i \in Invitations : Take(i)

Spec == Init /\ [][Next]_taken
=============================================================================

---------------------------- MODULE MCRedemption ----------------------------
(* Redemption on a small instance.  Invitation i1 admits two sittings,     *)
(* opens at 1 and lapses at 2; i2 has no application and so no candidate,  *)
(* and lapses at 1.  Every refusal is reachable within the clock's bound,  *)
(* and three requests outnumber every allowance.                           *)
EXTENDS Redemption

CONSTANTS i1, i2

MCMaxAttempts == [i \in Invitations |-> IF i = i1 THEN 2 ELSE 1]
MCOpensAt == [i \in Invitations |-> IF i = i1 THEN 1 ELSE 0]
MCExpiresAt == [i \in Invitations |-> IF i = i1 THEN 2 ELSE 1]
=============================================================================

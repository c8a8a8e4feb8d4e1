----------------------------- MODULE BankLedger -----------------------------
(***************************************************************************)
(* What a bank import promises the person who uploaded the file: every     *)
(* item is settled once, in file order, either by being written or by      *)
(* being reported as a problem; a job succeeds only when nothing is left;  *)
(* a job that has ended takes no further step.                             *)
(***************************************************************************)
EXTENDS Naturals

CONSTANTS
    Jobs,       \* submitted jobs
    Items       \* how many items the file of an import holds

VARIABLES
    fate,       \* what became of each item
    phase       \* "open", or how the job ended

ledgerVars == <<fate, phase>>

Positions == 0 .. Items - 1

LedgerInit ==
    /\ fate = [j \in Jobs |-> [p \in Positions |-> "pending"]]
    /\ phase = [j \in Jobs |-> "open"]

Settle(j, p) ==
    /\ phase[j] = "open"
    /\ fate[j][p] = "pending"
    /\ \A q \in Positions : q < p => fate[j][q] # "pending"
    /\ \E how \in {"written", "reported"} :
          fate' = [fate EXCEPT ![j][p] = how]
    /\ UNCHANGED phase

Close(j) ==
    /\ phase[j] = "open"
    /\ phase' = [phase EXCEPT ![j] = "failed"]
    /\ UNCHANGED fate

Complete(j) ==
    /\ phase[j] = "open"
    /\ \A p \in Positions : fate[j][p] # "pending"
    /\ phase' = [phase EXCEPT ![j] = "succeeded"]
    /\ UNCHANGED fate

LedgerNext ==
    \E j \in Jobs :
        \/ \E p \in Positions : Settle(j, p)
        \/ Close(j)
        \/ Complete(j)

LedgerSpec == LedgerInit /\ [][LedgerNext]_ledgerVars

=============================================================================

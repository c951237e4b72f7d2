------------------------------- MODULE Ledger -------------------------------
(***************************************************************************)
(* What the capture pipeline promises, whatever its queues, batches and    *)
(* shutdown order: each capture has one fate.  It is refused before it is  *)
(* taken, or taken and then settled once and for good, as a row, as lost   *)
(* (insertQ full, failed transaction) or as limited (refused by the rate   *)
(* limiter); and the pipeline closes only when nothing taken is unsettled. *)
(***************************************************************************)
EXTENDS Naturals

CONSTANT Capture

VARIABLES
    fate, \* of each capture: "new", "refused", "pending", "stored", "lost" or "limited"
    open  \* the pipeline has not returned

ledgerVars == <<fate, open>>

LedgerInit ==
    /\ fate = [c \in Capture |-> "new"]
    /\ open = TRUE

Refuse(c) ==
    /\ fate[c] = "new" /\ fate' = [fate EXCEPT ![c] = "refused"]
    /\ UNCHANGED open

Take(c) ==
    /\ open /\ fate[c] = "new" /\ fate' = [fate EXCEPT ![c] = "pending"]
    /\ UNCHANGED open

\* Some of the pending captures are settled, each in its own way.
Settle ==
    /\ open
    /\ \A c \in Capture :
          \/ fate'[c] = fate[c]
          \/ fate[c] = "pending" /\ fate'[c] \in {"stored", "lost", "limited"}
    /\ fate' = [c \in Capture |-> fate'[c]]
    /\ UNCHANGED open

Close ==
    /\ open /\ \A c \in Capture : fate[c] # "pending"
    /\ open' = FALSE
    /\ UNCHANGED fate

LedgerNext == Settle \/ Close \/ \E c \in Capture : Refuse(c) \/ Take(c)

LedgerSpec == LedgerInit /\ [][LedgerNext]_ledgerVars

=============================================================================

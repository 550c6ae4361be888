-------------------------- MODULE MCSenderAccount --------------------------
(* Bounds for SenderAccount. *)
EXTENDS SenderAccount, TLC

CONSTANTS t1, t2

MCTxns == {t1, t2}
MCOneTxn == {t1}

Transactions == Permutations(Txns)

=============================================================================

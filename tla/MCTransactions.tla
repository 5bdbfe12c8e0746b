---------------------------- MODULE MCTransactions ----------------------------
(* Small instances of Transactions for TLC: one transaction and two         *)
(* documents.  The commits of other clients stand for those of any other    *)
(* transaction: transactions share nothing but the backend.                *)
EXTENDS Transactions
CONSTANTS x, a, b
=============================================================================

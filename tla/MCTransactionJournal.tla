------------------------ MODULE MCTransactionJournal ------------------------
(* Model checking of TransactionJournal on small sets of transactions and  *)
(* keys.                                                                   *)
EXTENDS TransactionJournal, TLC

Symmetry == Permutations(Txn) \cup Permutations(Key)
=============================================================================

----------------------- MODULE MCTransactionCompleteness -----------------------
(* One transaction, reported before or after the connection is up; d1 is the  *)
(* one BootNotification under way.                                            *)
EXTENDS TransactionCompleteness

CONSTANTS d1

OneDrain == {d1}
===============================================================================

-------------------------- MODULE MCTransactionStore --------------------------
(* A transaction of three events, a plain column and cable_max_current.      *)
EXTENDS TransactionStore

CONSTANTS soc, cable_max_current

MCFields == {soc, cable_max_current}
MCPlainFields == {soc}
===============================================================================

------------------------------ MODULE MCRabbitRpc ------------------------------
(* Three calls of Topic messages, each with a key of its own.                  *)
EXTENDS RabbitRpc

CONSTANTS c1, c2, c3

MCCalls == {c1, c2, c3}
UuidOf == [c \in MCCalls |-> c]
===============================================================================

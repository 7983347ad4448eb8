-------------------------------- MODULE MCZmq --------------------------------
(* One process over 0MQ, and the messages of another one.                  *)
EXTENDS ZmqCommunicator
=============================================================================

--------------------------- MODULE MCCommunicator ---------------------------
(* One process that stores a handful of messages.                          *)
EXTENDS Communicator
=============================================================================

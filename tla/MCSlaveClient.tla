--------------------------- MODULE MCSlaveClient ---------------------------
(* The slave client with small buffers. *)
EXTENDS SlaveClient
=============================================================================

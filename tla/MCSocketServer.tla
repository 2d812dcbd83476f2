-------------------------- MODULE MCSocketServer --------------------------
\* Instances of SocketServer for model checking.
EXTENDS SocketServer, TLC
=============================================================================

---------------------------- MODULE MCEventSlot ----------------------------
\* Instances of EventSlot for model checking.
EXTENDS EventSlot, TLC
=============================================================================

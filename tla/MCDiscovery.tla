---------------------------- MODULE MCDiscovery ----------------------------
\* Instances of Discovery for model checking.
EXTENDS Discovery, TLC
=============================================================================

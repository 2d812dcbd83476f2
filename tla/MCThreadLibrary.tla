-------------------------- MODULE MCThreadLibrary --------------------------
\* Instances of ThreadLibrary for model checking.
EXTENDS ThreadLibrary, TLC
=============================================================================

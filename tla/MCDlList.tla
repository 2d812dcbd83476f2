------------------------------ MODULE MCDlList ------------------------------
\* Instances of DlList for model checking.
EXTENDS DlList, TLC
=============================================================================

--------------------------- MODULE MCWorkspaceAccess ---------------------------
\* Users and calls are alike: nothing names one of them.
EXTENDS WorkspaceAccess, TLC

Symmetry == Permutations(Calls) \cup Permutations(Users)
================================================================================

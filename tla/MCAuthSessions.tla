---------------------------- MODULE MCAuthSessions ----------------------------
EXTENDS AuthSessions, TLC

\* Calls are alike, and so are codes.
Symmetry == Permutations(Calls) \cup Permutations(Codes)
=============================================================================

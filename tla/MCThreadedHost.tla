--------------------------- MODULE MCThreadedHost ---------------------------
EXTENDS ThreadedHost, TLC

\* The connections differ in nothing but their names.
ConnSymmetry == Permutations(Conns)
=============================================================================

------------------------------ MODULE MCLifecycle ------------------------------
\* The authority lifecycle, instantiated for TLC: the inverters are alike.
EXTENDS AuthorityLifecycle, TLC

Alike == Permutations(Inverters)

\* A bound of one run: not all of the requests, surprises and glitches in one behaviour.
NotAllSpent == requests + surprises + glitches > 0
================================================================================

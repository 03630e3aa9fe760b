--------------------------- MODULE MCProviderFailover ---------------------------
\* Two requests are alike; no property that is checked with the symmetry is temporal.
EXTENDS ProviderFailover, TLC

Symmetry == Permutations(Requests)
================================================================================

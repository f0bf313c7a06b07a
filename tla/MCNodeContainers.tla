-------------------------- MODULE MCNodeContainers --------------------------
EXTENDS NodeContainers, TLC

CONSTANTS n1, n2, n3

MCNames == {n1, n2, n3}

\* The names are interchangeable for every property.
MCSymmetry == Permutations(MCNames)
==============================================================================

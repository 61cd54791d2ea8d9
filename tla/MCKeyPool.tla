----------------------------- MODULE MCKeyPool -----------------------------
\* Small instances of KeyPool.
EXTENDS KeyPool, TLC

CONSTANTS q1, q2, s1, s2, w1, p1

NoneOrOne == {0, 1}
OneOrTwo == {1, 2}
OneHome == [c \in Speech |-> p1]
Symmetry == Permutations(Query)

=============================================================================

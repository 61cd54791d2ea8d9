------------------------- MODULE MCQueryAccounting -------------------------
\* Constants of the runs of QueryAccounting.
EXTENDS QueryAccounting

First == {1}

=============================================================================

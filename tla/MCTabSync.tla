----------------------------- MODULE MCTabSync -----------------------------
\* TabSync for TLC: ids are drawn one by one, so that none needs to stand for another.
EXTENDS TabSync, TLC

=============================================================================

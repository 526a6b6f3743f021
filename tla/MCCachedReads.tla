---------------------------- MODULE MCCachedReads ----------------------------
\* The places and questions of the cached_reads run: two points of one cell, radii that
\* round to one key and the largest, a report at the edge of each.
EXTENDS CachedReads, TLC
MCPlace == <<355, 1040>>
MCQuestions == {[point |-> 0, radius |-> 300], [point |-> 50, radius |-> 309], [point |-> 50, radius |-> 1000]}
MCSymmetry == Permutations(Readers)
=============================================================================

---------------------------- MODULE MCJobCaches ----------------------------
EXTENDS JobCaches
CONSTANTS d1, d2
MCSize == [d \in Document \cup {None} |-> IF d = d2 THEN 3 ELSE 1]
=============================================================================

------------------------------ MODULE MCRxPath ------------------------------
EXTENDS RxPath

Fragment(of, key, fn, more) == [of |-> of, key |-> key, fn |-> fn, more |-> more]

\* A frame in three fragments, between two frames of different stations that share a
\* key, and a second frame in two fragments.
MCStream == <<Fragment("A", "k1", 0, TRUE),
              Fragment("B", "k2", 0, TRUE),
              Fragment("A", "k1", 1, TRUE),
              Fragment("C", "k2", 0, TRUE),
              Fragment("C", "k2", 1, FALSE),
              Fragment("A", "k1", 2, FALSE),
              Fragment("B", "k2", 1, FALSE)>>

\* The hypothesis of the theorem NothingIsLost.
ASSUME MCComplete == Complete

=============================================================================

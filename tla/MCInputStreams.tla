--------------------------- MODULE MCInputStreams ---------------------------
\* Two threads; of the two values of the stream id the second one is invalid.
EXTENDS InputStreams, TLC
CONSTANTS t1, t2, a, b, c
Symmetric == Permutations(Threads) \union Permutations(DataTags)

\* The data of a stream do not depend on the other streams: data are stored
\* in behaviours with one stream, several streams are made in those without.
DataOfOneStream == given = 0 \/ stream_id_ = 1
=============================================================================

----------------------------- MODULE MCScanQueue -----------------------------
\* Three points, two of them of one medium.
EXTENDS ScanQueue
MCMedium == <<"HBM", "HBF", "HBM">>
==============================================================================

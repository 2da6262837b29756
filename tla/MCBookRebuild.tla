--------------------------- MODULE MCBookRebuild ---------------------------
\* One channel; more sequence numbers than the rows of a day need.
EXTENDS BookRebuild
MCPartitionIds == 0 .. 1
=============================================================================

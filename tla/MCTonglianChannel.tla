------------------------- MODULE MCTonglianChannel -------------------------
\* One channel, one foreign channel and the invalid number 0.
EXTENDS TonglianChannel
MCPartitionIds == 0 .. 2
=============================================================================

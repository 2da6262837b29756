--------------------------- MODULE MCSequenceGate ---------------------------
(* A gate over two partitions and the sequence numbers 0 .. 3, 3 being the  *)
(* largest one, so that the wrap of the successor is within reach.          *)
EXTENDS SequenceGate

MCPartitionIds == 0 .. 2

=============================================================================

---------------------------- MODULE MCReplayWindow ----------------------------
EXTENDS ReplayWindow

CONSTANT MaxSeq     \* bound on the sequence numbers a run presents

MCSeqs == 0 .. MaxSeq
==============================================================================

SPECIFICATION Spec
CONSTANTS
  WordBits = 3
  Words = 3
  MaxSeq = 11
  Seqs <- MCSeqs
INVARIANTS
  BitmapMeansAccepted
PROPERTIES
  NeverAcceptedTwice
  ImplementsReplaySet

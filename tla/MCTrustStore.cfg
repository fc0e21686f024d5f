SPECIFICATION TrustSpec
CONSTANTS
  Keys = {k1, k2}
  Names = {n1, n2}
  None = None
SYMMETRY MCSymmetry
INVARIANTS
  VerifiedByUser
  SavedIsDurable
  TrustOfAgrees
PROPERTY
  OnlyVerifyReplaces

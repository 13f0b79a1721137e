CONSTANTS
  UserBS <- MCUserBS
  Beams <- MCBeams
  SeqLens <- MCSeqLens
  PrefixLens <- MCShortPrefixLens
  MaxSteps <- MCMaxSteps
  MaskCap <- MCMaskCap
  IntBits <- MCIntBits
SPECIFICATION Spec
INVARIANT MaskFitsAttention

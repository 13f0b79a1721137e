CONSTANTS
  UserBS <- MCUserBS
  Beams <- MCBeams
  SeqLens <- MCSeqLens
  PrefixLens <- MCPrefixLens
  MaxSteps <- MCMaxSteps
  MaskCap <- MCMaskCap
  IntBits <- MCIntBits
SPECIFICATION Spec
INVARIANT MaskFitsAttention

CONSTANTS
  Hidden <- MCHidden
  Vocab <- MCVocab
  UserBS <- MCUserBS
  Beams <- MCBeams
  SeqLens <- MCSeqLens
  PrefixLens <- MCPrefixLens
  LogitsAll <- MCLogitsAll
  IntBits <- MCIntBits
  MaxSteps <- MCMaxSteps
  MaxRows <- MCMaxRows
  PromptLens <- MCPromptLens
  MaxSeqs <- MCMaxSeqs
  MantBits <- MCMantBits
SPECIFICATION Spec
INVARIANT BufferFits
INVARIANT LogitsOfRequestedTokens

CONSTANTS
  Hidden <- MCHidden
  Vocab <- MCVocab
  PromptLens <- MCPromptLens
  MaxSeqs <- MCMaxSeqs
  LogitsAll <- MCLogitsAll
  MantBits <- MCShortMantBits
SPECIFICATION Spec
INVARIANT BatchBufferFits

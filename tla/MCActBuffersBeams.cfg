CONSTANTS
  Hidden <- MCHidden
  Vocab <- MCVocab
  UserBS <- MCUserBS
  Beams <- MCBeams
  SeqLens <- MCShortSeqLens
  PrefixLens <- MCNoPrefix
  LogitsAll <- MCLogitsAll
  IntBits <- MCIntBits
SPECIFICATION Spec
INVARIANT BufferFits

CONSTANTS
  Tok <- MCTok
  MaxUserBS <- MCMaxUserBS
  MaxBeam <- MCMaxBeam
  MaxPrompt <- MCMaxPrompt
  MaxPositions <- MCMaxPositions
  MaxPrefix <- MCMaxPrefix
  MaxGenerations <- MCMaxGenerations
  NoEntry = NoEntry
  t1 = t1
  t2 = t2
SPECIFICATION Spec
SYMMETRY TokSymmetry
INVARIANT CacheHoldsHistory
 

CONSTANTS
  SeqIds <- MCSeqIds
  NumStages <- MCNumStages
  PromptLen <- MCPromptLen
  MaxStep <- MCMaxStep
  QueueCap <- MCQueueCapOne
  ChanCap <- MCChanCap
  NoEntry = NoEntry
  sA = sA
  sB = sB
SPECIFICATION Spec
INVARIANT CacheIsolation
CHECK_DEADLOCK FALSE

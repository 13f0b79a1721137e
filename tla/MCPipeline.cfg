CONSTANTS
  SeqIds <- MCSeqIds
  NumStages <- MCNumStages
  PromptLen <- MCPromptLen
  MaxStep <- MCMaxStep
  QueueCap <- MCQueueCapOne
  ChanCap <- MCChanCap
  NoEntry = NoEntry
  sA = sA
  sB = sB
SPECIFICATION Spec
INVARIANT TypeOK
INVARIANT IdMatchesPayload
INVARIANT WaitQueueWithinCap
PROPERTY StepsComplete
\* All requests served: the ranks wait for calls that never come.
CHECK_DEADLOCK FALSE

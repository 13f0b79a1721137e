CONSTANTS
  MaxSeqs <- MCMaxSeqs
  MaxLen <- MCMaxLen
SPECIFICATION Spec
INVARIANT TypeOK
INVARIANT LastTokensGathered
\* The copy loop ends: a terminal state is the end of the call.
CHECK_DEADLOCK FALSE

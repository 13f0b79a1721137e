---------------------------- MODULE MCPipeline ----------------------------
EXTENDS Pipeline, TLC

CONSTANTS sA, sB

\* Two requests of one decode step each through two stages: enough for a
\* request to overtake another one's next step in the pipeline.
MCSeqIds == {sA, sB}
MCNumStages == 2
MCPromptLen == 1
MCMaxStep == 1
MCChanCap == 2

\* A ready queue of one entry: the smallest at which the unchecked push of
\* a received group can find it full
MCQueueCapOne == 1

SeqSymmetry == Permutations(MCSeqIds)
=============================================================================

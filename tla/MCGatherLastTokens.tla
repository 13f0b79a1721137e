------------------------ MODULE MCGatherLastTokens ------------------------
EXTENDS GatherLastTokens

\* Three sequences of up to three tokens: every source row is at or after
\* its target row, with the gap between them both zero and several rows.
MCMaxSeqs == 3
MCMaxLen == 3
=============================================================================

---------------------------- MODULE MCForwardCall ----------------------------
EXTENDS ForwardCall

\* Up to three prompts of three or four tokens, one or two beams, a prefix
\* of one token and two steps; hidden size 4 and a vocabulary of 10, so
\* that a logits row does not end on a buffer row.  With 3 prompts and 2
\* beams, row 1 is prompt 1's logits and a beam row of prompt 0.  Every
\* prompt has at least as many new tokens as beams.
MCHidden == 4
MCVocab == 10
MCUserBS == {1, 2, 3}
MCBeams == {1, 2}
MCSeqLens == {3, 4}
MCPrefixLens == {1}
MCLogitsAll == {FALSE}
MCIntBits == 16
MCMaxSteps == 2
\* the most rows a call reads: 3 prompts of 4 tokens
MCMaxRows == 12
\* forward(seqs) calls between them: up to 3 sequences of up to 3 tokens,
\* with a float exact at these sizes
MCPromptLens == {1, 2, 3}
MCMaxSeqs == 3
MCMantBits == 8
=============================================================================

----------------------------- MODULE MCOptMask -----------------------------
EXTENDS OptMask

\* One or two prompts of one or two beams, prompts of two or three tokens
\* and two steps: the mask grows from a prefix to a prompt to the steps.
MCUserBS == {1, 2}
MCBeams == {1, 2}
MCSeqLens == {2, 3}
MCMaxSteps == 2
\* the largest request: 2 prompts of 3 tokens (18), 4 slots of 5 keys (20)
MCMaskCap == 20
\* int wide enough for every size above, and a 5-bit int in which the
\* prompt's 2 * 3 * 3 = 18 wraps to -14
MCIntBits == 16
MCShortIntBits == 5

\* A prefix one token shorter than the longer prompt: one new token
MCPrefixLens == {2}

\* A prefix that leaves two new tokens of a three-token prompt
MCShortPrefixLens == {1}
=============================================================================

---------------------------- MODULE MCFinalLogits ----------------------------
EXTENDS FinalLogits

\* Up to three prompts of two or three tokens, one or two beams, a prefix of
\* one token and two steps: the last-row copy, a prompt after a prefix and
\* a beam replication whose target row is another prompt's source row
\* (3 prompts, 2 beams: row 1 is prompt 1's and a beam of prompt 0).
MCUserBS == {1, 2, 3}
MCBeams == {1, 2}
MCSeqLens == {2, 3}
MCPrefixLens == {1}
MCLogitsAll == {FALSE}
MCMaxSteps == 2
\* the most rows a call reads: 3 prompts of 3 tokens
MCMaxRows == 9

\* A prefix as long as the prompt: no new tokens
MCPromptLens == {2}
MCWholePrefix == {2}

\* logitsAll with beams, no prefix
MCBeamsOnly == {2}
MCNoPrefix == {}
MCAllLogits == {TRUE}
=============================================================================

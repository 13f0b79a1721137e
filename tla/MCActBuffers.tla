---------------------------- MODULE MCActBuffers ----------------------------
EXTENDS ActBuffers

\* hiddenSize 4 and vocabSize 10: a row of logits does not fill whole rows
MCHidden == 4
MCVocab == 10
MCUserBS == {1, 2}
MCIntBits == 16

\* Prompts at least as long as the beams, no logitsAll: the sizing holds
MCBeams == {1, 2}
MCSeqLens == {3, 4}
MCPrefixLens == {1}
MCLogitsAll == {FALSE}

\* A beam search over a prompt shorter than its beams
MCShortSeqLens == {1, 2}
MCNoPrefix == {}

\* logitsAll on a prompt after a shared prefix
MCOneBeam == {1}
MCPrefixSeqLens == {2}
MCAllLogits == {TRUE}

\* logitsAll on prompts whose logits overflow a 6-bit int
MCOverflowSeqLens == {1, 2, 3}
MCNarrowIntBits == 6
=============================================================================

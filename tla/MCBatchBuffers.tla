--------------------------- MODULE MCBatchBuffers ---------------------------
EXTENDS BatchBuffers

\* Hidden size 4 and an odd vocabulary of 11, as in vocabularies padded by
\* one token; up to 4 sequences of up to 3 tokens, with and without
\* logitsAll: up to 12 logits rows.
MCHidden == 4
MCVocab == 11
MCPromptLens == {1, 2, 3}
MCMaxSeqs == 4
MCLogitsAll == {FALSE, TRUE}
\* every value a call computes here (at most 12 * 11) is exact in 8 bits,
\* as it is in float's 24
MCMantBits == 8
\* a float of 5 significant bits: products above 32 round as products
\* above 2^24 do with 24 bits
MCShortMantBits == 5
=============================================================================

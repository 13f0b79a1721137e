-------------------------- MODULE MCSharedDecoders --------------------------
EXTENDS SharedDecoders, TLC

CONSTANTS t1, t2

MCTok == {t1, t2}
\* Token ids are only compared for equality.
TokSymmetry == Permutations(MCTok)

\* One prompt of up to two beams and up to two tokens, a one-token prefix,
\* three positions, two generations per decoder: a decoder meets a cache
\* the other one's generation left, and a second skipFirstStep meets the
\* lengths of the first.
MCMaxUserBS == 1
MCMaxBeam == 2
MCMaxPrompt == 2
MCMaxPositions == 3
MCMaxPrefix == 1
MCMaxGenerations == 2

\* the caller sets prefixes on A only, or on both
MCPrefixOnA == {"A"}
MCPrefixOnBoth == {"A", "B"}
=============================================================================

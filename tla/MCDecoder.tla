----------------------------- MODULE MCDecoder -----------------------------
EXTENDS Decoder, TLC

CONSTANTS t1, t2

\* Two prompts of two beams: four slots, so expansion and reordering move
\* content between slots of different prompts' neighbours; prompts of up to
\* two tokens and a one-token prefix leave room for one generated token.
MCTok == {t1, t2}

\* Token ids are only compared for equality.
TokSymmetry == Permutations(MCTok)
MCMaxUserBS == 2
MCMaxBeam == 2
MCMaxPrompt == 2
MCMaxPositions == 3
MCMaxPrefix == 1
MCMaxGenerations == 1

=============================================================================

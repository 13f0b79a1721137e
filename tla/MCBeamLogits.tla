--------------------------- MODULE MCBeamLogits ---------------------------
EXTENDS BeamLogits

\* Bounds: three prompts make the middle prompt both a target region of a
\* later prompt and a source; four beams make each target region reach past
\* the next prompt's source row.
MCMaxUserBS == 3
MCMaxBeam == 4
=============================================================================

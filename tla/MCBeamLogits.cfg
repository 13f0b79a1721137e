CONSTANTS
  MaxUserBS <- MCMaxUserBS
  MaxBeam <- MCMaxBeam
  Stale = Stale
SPECIFICATION Spec
INVARIANT TypeOK
 
PROPERTY ExpansionRefined
\* The copy loop ends: a terminal state is the end of the call.
CHECK_DEADLOCK FALSE

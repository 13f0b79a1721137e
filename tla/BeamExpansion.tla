---------------------------- MODULE BeamExpansion ----------------------------
(***************************************************************************)
(* What the step-0 beam expansion at the end of forward(ids, dims, step)   *)
(* promises its caller (spec 8: all beam rows of the returned logits are   *)
(* identical): in one step, the predictor's one logits row per prompt      *)
(* becomes beamSize rows per prompt, row r holding prompt r \div beamSize, *)
(* and no row past userSideBS * beamSize changes.  A row is the prompt     *)
(* whose logits it holds, or Stale.                                        *)
(***************************************************************************)
EXTENDS Naturals

CONSTANTS MaxUserBS, MaxBeam, Stale

VARIABLES
  userSideBS,
  beamSize,
  out,         \* row -> prompt whose logits the caller sees in it
  expanded     \* the expansion has happened

vars == <<userSideBS, beamSize, out, expanded>>

Rows == 0 .. MaxUserBS * MaxBeam - 1

\* finalOut as the predictor leaves it at step 0
PredictorRows(u) == [r \in Rows |-> IF r < u THEN r ELSE Stale]

Init ==
  /\ userSideBS \in 1 .. MaxUserBS
  /\ beamSize \in 2 .. MaxBeam
  /\ out = PredictorRows(userSideBS)
  /\ expanded = FALSE

Expand ==
  /\ ~expanded
  /\ out' = [r \in Rows |-> IF r < userSideBS * beamSize
                             THEN r \div beamSize ELSE out[r]]
  /\ expanded' = TRUE
  /\ UNCHANGED <<userSideBS, beamSize>>

Spec == Init /\ [][Expand]_vars

=============================================================================

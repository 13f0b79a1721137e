----------------------------- MODULE BeamLogits -----------------------------
(***************************************************************************)
(* The beam replication at the end of CommonDecoder::forward(ids, dims,    *)
(* step) (common_decoder.h, "Expand the result to make it cover multiple   *)
(* beams").  At step 0 the predictor has written one logits row per prompt *)
(* into rows 0 .. userSideBS-1 of finalOut; the loop copies row b into the *)
(* beamSize rows b*beamSize .. (b+1)*beamSize-1, in place.  The outer loop *)
(* runs b downwards; the inner loop is an OpenMP parallel for, so its      *)
(* copies happen in any order.  A row of finalOut is abstracted to the     *)
(* prompt whose logits it holds, or Stale.                                 *)
(***************************************************************************)
EXTENDS Naturals, FiniteSets

CONSTANTS
  MaxUserBS,   \* largest userSideBS (dims[0]) enumerated
  MaxBeam,     \* largest beamSize (dims[1]) enumerated
  Stale        \* model value: a row not yet written by this call

ASSUME MaxUserBS \in Nat \ {0} /\ MaxBeam \in Nat \ {0, 1}

VARIABLES
  userSideBS,  \* dims[0] of the call
  beamSize,    \* dims[1] of the call
  finalOut,    \* row index -> prompt whose logits the row holds
  k,           \* iterations of the outer loop begun
  pending      \* idx of the current parallel-for not yet copied

vars == <<userSideBS, beamSize, finalOut, k, pending>>

Rows == 0 .. MaxUserBS * MaxBeam - 1

OuterOrder(u, kk) == u - kk

\* A bug in the inner loop bound: idx <= (b+1)*beamSize
TargetsPastEnd(b, bs) == {idx \in b * bs .. (b + 1) * bs : idx # b}

\* the rows the parallel for writes for prompt b: idx in
\* [b*beamSize, (b+1)*beamSize) except idx == b
Targets(b, bs) == {idx \in b * bs .. (b + 1) * bs - 1 : idx # b}

\* finalOut as the predictor leaves it: one row per prompt, then stale rows
PredictorRows(u) == [r \in Rows |-> IF r < u THEN r ELSE Stale]

Init ==
  /\ userSideBS \in 1 .. MaxUserBS
  /\ beamSize \in 2 .. MaxBeam
  /\ finalOut = PredictorRows(userSideBS)
  /\ k = 1
  /\ pending = Targets(OuterOrder(userSideBS, 1), beamSize)

\* memcpy(dst, src, splitSize): one iteration of the parallel for; the
\* source row is read when the copy runs
CopyRow(idx) ==
  LET b == OuterOrder(userSideBS, k) IN
  /\ idx \in pending
  /\ finalOut' = [finalOut EXCEPT ![idx] = finalOut[b]]
  /\ pending' = pending \ {idx}
  /\ UNCHANGED <<userSideBS, beamSize, k>>

\* A bug in the outer loop bound: one iteration too many
NextPromptPastEnd ==
  /\ pending = {}
  /\ k <= userSideBS
  /\ k' = k + 1
  /\ pending' = Targets(OuterOrder(userSideBS, k + 1), beamSize)
  /\ UNCHANGED <<userSideBS, beamSize, finalOut>>

\* --b: the parallel for has joined, the next outer iteration starts
NextPrompt ==
  /\ pending = {}
  /\ k < userSideBS
  /\ k' = k + 1
  /\ pending' = Targets(OuterOrder(userSideBS, k + 1), beamSize)
  /\ UNCHANGED <<userSideBS, beamSize, finalOut>>

Next ==
  \/ \E idx \in Rows : CopyRow(idx)
  \/ NextPrompt

Spec == Init /\ [][Next]_vars

Done == pending = {} /\ k = userSideBS

TypeOK ==
  /\ userSideBS \in 1 .. MaxUserBS
  /\ beamSize \in 2 .. MaxBeam
  /\ finalOut \in [Rows -> (0 .. MaxUserBS - 1) \cup {Stale}]
  /\ k \in 1 .. MaxUserBS
  /\ pending \subseteq Rows

Expansion == INSTANCE BeamExpansion
               WITH out <- IF Done THEN finalOut
                           ELSE PredictorRows(userSideBS),
                    expanded <- Done

ExpansionRefined == Expansion!Spec

=============================================================================

----------------------------- MODULE FinalLogits -----------------------------
(***************************************************************************)
(* Which token's hidden state each logits row that forward(ids, dims,      *)
(* step) returns is computed from (common_decoder.h).  The embedding and   *)
(* the layers work in place on embBuf, one row per new token; the final    *)
(* norm reads either the last row of each prompt, copied into outBuf, or   *)
(* embBuf itself; the predictor writes finalOut in outBuf; at step 0 the   *)
(* beam replication copies row b over the beam rows of prompt b.  A row is *)
(* abstracted to the query (prompt at step 0, slot after) and position of  *)
(* the token it holds, or Stale when this call did not write it.           *)
(***************************************************************************)
EXTENDS Naturals

CONSTANTS
  UserBS,      \* userSideBS values the searcher uses
  Beams,       \* beamSize values
  SeqLens,     \* prompt lengths dims[2]
  PrefixLens,  \* prefix lengths given to setPrefix
  LogitsAll,   \* values of the logitsAll argument
  MaxSteps,    \* steps > 0 per generation (bounds the model)
  MaxRows      \* rows the model has room for

Stale == [q |-> MaxRows, t |-> MaxRows]   \* not written by this call

VARIABLES
  prefixSharing,
  prefixSeqLen,
  accSeqLen,
  gen,            \* dims of the generation under way, for steps > 0
  steps,
  call,           \* shape of the last forward call
  out             \* row -> what finalOut's row was computed from

vars == <<prefixSharing, prefixSeqLen, accSeqLen, gen, steps, call, out>>

Rows == 0 .. MaxRows - 1
NoGen == [u |-> 0, b |-> 0]
NoCall == [u |-> 0, b |-> 0, seqLen |-> 0, step |-> 0, la |-> FALSE, acc |-> 0]

\* embeddingForward then the layers, in place: row r is token r % inputSeqLen
\* of query r \div inputSeqLen, at position pastSeqLen + r % inputSeqLen
EmbBuf(batch, inS, past) ==
  [r \in Rows |-> IF r < batch * inS
                    THEN [q |-> r \div inS, t |-> past + (r % inS)] ELSE Stale]

\* A bug in the last-row copy: the first row of each prompt is copied
LnInputFirstRow(emb, batch, inS, la) ==
  IF inS > 1 /\ ~la
    THEN [r \in Rows |-> IF r < batch THEN emb[r * inS] ELSE Stale]
    ELSE emb

\* lnIn: outBuf row b = embBuf row (b+1)*inputSeqLen - 1 when inputSeqLen > 1
\* and not logitsAll, else embBuf
LnInput(emb, batch, inS, la) ==
  IF inS > 1 /\ ~la
    THEN [r \in Rows |-> IF r < batch THEN emb[(r + 1) * inS - 1] ELSE Stale]
    ELSE emb

\* lastLayerNormForward and predictor->forward over batchSize rows, or
\* batchSize * seqLen rows when logitsAll
FinalOut(lnIn, batch, seqLen, la) ==
  LET n == IF la THEN batch * seqLen ELSE batch IN
  [r \in Rows |-> IF r < n THEN lnIn[r] ELSE Stale]

\* step 0, beamSize > 1: for b = userSideBS-1 down to 0, copy row b to every
\* row idx of b*beamSize .. (b+1)*beamSize-1 but idx = b
RECURSIVE ReplicateFrom(_, _, _)
ReplicateFrom(fo, b, beamSize) ==
  IF b < 0 THEN fo
  ELSE ReplicateFrom([r \in Rows |->
                        IF r \in b * beamSize .. (b + 1) * beamSize - 1 /\ r # b
                          THEN fo[b] ELSE fo[r]], b - 1, beamSize)

Replicate(fo, u, beamSize) ==
  IF beamSize > 1 THEN ReplicateFrom(fo, u - 1, beamSize) ELSE fo

\* forward(ids, dims, 0): batch = userSideBS; with a prefix the new tokens
\* are seqLen - prefixSeqLen (nothing checks that this is positive)
ForwardPrompt(u, b, seqLen, la) ==
  LET past == IF prefixSharing THEN prefixSeqLen ELSE 0
      inS == seqLen - past
      fo == FinalOut(LnInput(EmbBuf(u, inS, past), u, inS, la), u, seqLen, la)
  IN
  /\ inS >= 0
  /\ accSeqLen' = seqLen
  /\ gen' = [u |-> u, b |-> b]
  /\ steps' = 0
  /\ call' = [u |-> u, b |-> b, seqLen |-> seqLen, step |-> 0, la |-> la,
              acc |-> seqLen]
  /\ out' = Replicate(fo, u, b)
  /\ UNCHANGED <<prefixSharing, prefixSeqLen>>

\* forward(ids, dims, step > 0): batch = userSideBS * beamSize, one token
ForwardNext(la) ==
  LET batch == gen.u * gen.b
      fo == FinalOut(LnInput(EmbBuf(batch, 1, accSeqLen), batch, 1, la),
                     batch, 1, la)
  IN
  /\ gen # NoGen
  /\ steps < MaxSteps
  /\ accSeqLen' = accSeqLen + 1
  /\ steps' = steps + 1
  /\ call' = [u |-> gen.u, b |-> gen.b, seqLen |-> 1, step |-> steps + 1,
              la |-> la, acc |-> accSeqLen + 1]
  /\ out' = fo
  /\ UNCHANGED <<prefixSharing, prefixSeqLen, gen>>

\* setPrefix: prefixForward returns nothing to the caller
SetPrefix(len) ==
  /\ prefixSharing' = TRUE
  /\ prefixSeqLen' = len
  /\ UNCHANGED <<accSeqLen, gen, steps, call, out>>

UnsetPrefix ==
  /\ prefixSharing' = FALSE
  /\ UNCHANGED <<prefixSeqLen, accSeqLen, gen, steps, call, out>>

Init ==
  /\ prefixSharing = FALSE
  /\ prefixSeqLen = 0
  /\ accSeqLen = 0
  /\ gen = NoGen
  /\ steps = 0
  /\ call = NoCall
  /\ out = [r \in Rows |-> Stale]

Next ==
  \/ \E u \in UserBS, b \in Beams, s \in SeqLens, la \in LogitsAll :
       ForwardPrompt(u, b, s, la)
  \/ \E la \in LogitsAll : ForwardNext(la)
  \/ \E len \in PrefixLens : SetPrefix(len)
  \/ UnsetPrefix

Spec == Init /\ [][Next]_vars

\* the rows the caller reads and the token each must be computed from
Expected ==
  IF call.step = 0 /\ call.la
    THEN [r \in 0 .. call.u * call.seqLen - 1 |->
            [q |-> r \div call.seqLen, t |-> r % call.seqLen]]
  ELSE IF call.step = 0
    THEN [r \in 0 .. call.u * call.b - 1 |->
            [q |-> r \div call.b, t |-> call.seqLen - 1]]
  ELSE [r \in 0 .. call.u * call.b - 1 |-> [q |-> r, t |-> call.acc - 1]]

(***************************************************************************)
(* The logits forward returns are those of the tokens the caller asked     *)
(* for (spec 4.5 steps 9-10, 8): without logitsAll, row r is the last      *)
(* token of beam r's prompt at step 0 and slot r's new token after; with   *)
(* logitsAll, one row per position of each prompt.  It ties the prefix    *)
(* split, the last-row copy, the norm's row count and the in-place beam    *)
(* replication to the shape of the call.                                   *)
(***************************************************************************)
LogitsOfRequestedTokens ==
  \A r \in DOMAIN Expected : out[r] = Expected[r]

=============================================================================

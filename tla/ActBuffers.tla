----------------------------- MODULE ActBuffers -----------------------------
(***************************************************************************)
(* The activation buffer of CommonDecoder (common_decoder.h): one float    *)
(* matrix of hiddenSize columns, resized by prepareBuffers at step 0 and   *)
(* by prefixForward, never shrunk, and reused by every later call.  A call *)
(* puts embBuf at its start and outBuf right after batch*inputSeqLen rows; *)
(* the last-row copy, the predictor and the beam replication write into    *)
(* outBuf.  The row count is computed in 32-bit int, modelled with a       *)
(* width IntBits and two's complement wrap.  Tensor parallelism is 1, so   *)
(* the predictor's split size is the whole vocabulary.                     *)
(***************************************************************************)
EXTENDS Integers

CONSTANTS
  Hidden,      \* ctx->hiddenSize
  Vocab,       \* ctx->vocabSize
  UserBS,      \* userSideBS values the searcher may use
  Beams,       \* beamSize values
  SeqLens,     \* prompt lengths dims[2] at step 0
  PrefixLens,  \* prefix lengths given to setPrefix
  LogitsAll,   \* values of the logitsAll argument the caller passes
  IntBits      \* width of int

VARIABLES
  rows,           \* actBuffers->Rows()
  prefixSharing,
  prefixSeqLen,
  gen,            \* dims of the current generation, for steps > 0
  used            \* floats the last call wrote from actBuffers->Data()

vars == <<rows, prefixSharing, prefixSeqLen, gen, used>>

NoGen == [u |-> 0, b |-> 0]

Half == 2 ^ (IntBits - 1)

\* an int result: two's complement wrap to IntBits
I32(x) == ((x + Half) % (2 * Half)) - Half

\* C++ integer division truncates towards zero
CDiv(a, d) == IF a >= 0 THEN a \div d ELSE -((-a) \div d)

MaxOf(a, b) == IF a >= b THEN a ELSE b

\* A bug in the conversion to rows: the remainder row is dropped
OutRowsFloor(batch, seqLen, u, b, logitsAll) ==
  LET logitsLen == I32(IF logitsAll THEN I32(batch * seqLen) ELSE I32(u * b))
      actRows == I32(batch * seqLen)
  IN IF I32(logitsLen * Vocab) > I32(actRows * Hidden)
       THEN CDiv(I32(logitsLen * Vocab), Hidden)
       ELSE actRows

\* prepareBuffers: outRows, the rows for the final output
OutRows(batch, seqLen, u, b, logitsAll) ==
  LET logitsLen == I32(IF logitsAll THEN I32(batch * seqLen) ELSE I32(u * b))
      actRows == I32(batch * seqLen)
  IN IF I32(logitsLen * Vocab) > I32(actRows * Hidden)
       THEN I32(CDiv(I32(logitsLen * Vocab), Hidden) + 1)
       ELSE actRows

\* prepareBuffers: actBuffers->Resize(actRows + outRows, hiddenSize); the
\* matrix keeps its allocation when asked for fewer rows
Prepared(batch, seqLen, u, b, logitsAll) ==
  MaxOf(rows, I32(I32(batch * seqLen) + OutRows(batch, seqLen, u, b, logitsAll)))

\* the floats a forward(ids, dims, step) call writes, counted from embBuf:
\* the embeddings, the last-row copy into outBuf, the final norm's rows, the
\* predictor's logits and, at step 0, the beam replication
Written(batch, inputSeqLen, seqLen, u, b, step, logitsAll) ==
  LET emb == batch * inputSeqLen * Hidden
      lnRows == IF logitsAll THEN batch * seqLen ELSE batch
      copy == IF inputSeqLen > 1 /\ ~logitsAll THEN emb + batch * Hidden ELSE 0
      logits == emb + lnRows * Vocab
      beams == IF step = 0 /\ b > 1 THEN emb + u * b * Vocab ELSE 0
  IN MaxOf(MaxOf(emb, copy), MaxOf(MaxOf(lnRows * Hidden, logits), beams))

\* forward(ids, dims, 0): batch = userSideBS; with a prefix only the new
\* tokens are embedded and prepareBuffers sees inputSeqLen = seqLen - prefix
ForwardPrompt(u, b, seqLen, logitsAll) ==
  LET past == IF prefixSharing THEN prefixSeqLen ELSE 0
      inputSeqLen == seqLen - past
  IN
  /\ inputSeqLen >= 1
  /\ rows' = Prepared(u, inputSeqLen, u, b, logitsAll)
  /\ used' = Written(u, inputSeqLen, seqLen, u, b, 0, logitsAll)
  /\ gen' = [u |-> u, b |-> b]
  /\ UNCHANGED <<prefixSharing, prefixSeqLen>>

\* forward(ids, dims, step > 0): batch = userSideBS * beamSize, one token
\* each, and no prepareBuffers
ForwardNext(logitsAll) ==
  LET batch == gen.u * gen.b IN
  /\ gen # NoGen
  /\ used' = Written(batch, 1, 1, gen.u, gen.b, 1, logitsAll)
  /\ UNCHANGED <<rows, prefixSharing, prefixSeqLen, gen>>

\* setPrefix then prefixForward: prepareBuffers(ctx, 1, 1, false, true)
\* for one prompt of len tokens, embeddings only
SetPrefix(len) ==
  /\ prefixSharing' = TRUE
  /\ prefixSeqLen' = len
  /\ rows' = Prepared(1, len, 1, 1, FALSE)
  /\ used' = len * Hidden
  /\ UNCHANGED gen

UnsetPrefix ==
  /\ prefixSharing' = FALSE
  /\ UNCHANGED <<rows, prefixSeqLen, gen, used>>

Init ==
  /\ rows = 0
  /\ prefixSharing = FALSE
  /\ prefixSeqLen = 0
  /\ gen = NoGen
  /\ used = 0

Next ==
  \/ \E u \in UserBS, b \in Beams, s \in SeqLens, la \in LogitsAll :
       ForwardPrompt(u, b, s, la)
  \/ \E la \in LogitsAll : ForwardNext(la)
  \/ \E len \in PrefixLens : SetPrefix(len)
  \/ UnsetPrefix

Spec == Init /\ [][Next]_vars

(***************************************************************************)
(* Every float a call writes lies inside the activation buffer: spec 3     *)
(* says the buffer is sized to the superset of embedding and projection    *)
(* rows the largest call needs.  It relates the size chosen by an earlier  *)
(* call (prepareBuffers runs only at step 0 and in prefixForward) to what  *)
(* this call writes, under 32-bit arithmetic.                              *)
(***************************************************************************)
BufferFits == used <= rows * Hidden

=============================================================================

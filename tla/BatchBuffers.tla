---------------------------- MODULE BatchBuffers ----------------------------
(***************************************************************************)
(* The activation buffer in the continuous-batching path                   *)
(* CommonDecoder::forward(seqs, logitsAll) (common_decoder.h): the call    *)
(* concatenates the sequences' new tokens, prepareBuffer resizes actBuffers *)
(* to totInputSeqLen rows plus the logits rows converted with a float      *)
(* std::ceil, the layers and the gather work inside embBuf, and the        *)
(* predictor writes logitRows * vocabSize floats from outBuf.  The float   *)
(* has MantBits significant bits and rounds to nearest, ties to even.      *)
(***************************************************************************)
EXTENDS Integers, SequencesExt

CONSTANTS
  Hidden,      \* ctx->hiddenSize
  Vocab,       \* ctx->vocabSize
  PromptLens,  \* input lengths of a prompt sequence
  MaxSeqs,     \* sequences in one call
  LogitsAll,   \* values of the logitsAll argument
  MantBits     \* significant bits of float (24)

VARIABLES
  rows,        \* actBuffers->Rows()
  used         \* floats the last call wrote from actBuffers->Data()

vars == <<rows, used>>

MaxOf(a, b) == IF a >= b THEN a ELSE b

SumSeq(s) == FoldLeft(LAMBDA acc, x : acc + x, 0, s)

\* an exponent range wide enough for every value a call computes
Exps == -(MantBits + 4) .. 8

\* num/den scaled by 2^-x, as a fraction
Scaled(num, den, x) ==
  IF x >= 0 THEN [n |-> num, d |-> den * 2^x] ELSE [n |-> num * 2^(-x), d |-> den]

\* the float nearest to num/den (ties to even), as a fraction
FloatOf(num, den) ==
  IF num = 0 THEN [n |-> 0, d |-> 1]
  ELSE LET x == CHOOSE e \in Exps :
                  LET s == Scaled(num, den, e) IN
                  2^(MantBits - 1) * s.d <= s.n /\ s.n < 2^MantBits * s.d
           s == Scaled(num, den, x)
           m0 == s.n \div s.d
           r == s.n % s.d
           m == IF 2 * r > s.d \/ (2 * r = s.d /\ m0 % 2 = 1) THEN m0 + 1 ELSE m0
       IN IF x >= 0 THEN [n |-> m * 2^x, d |-> 1] ELSE [n |-> m, d |-> 2^(-x)]

\* A bug in the conversion: the float truncated to int, no std::ceil
OutRowsTrunc(logitRows) ==
  LET a == FloatOf(logitRows, 1)
      v == FloatOf(Vocab, 1)
      p == FloatOf(a.n * v.n, a.d * v.d)
      q == FloatOf(p.n, p.d * Hidden)
  IN q.n \div q.d

\* prepareBuffer: outRows = std::ceil(1.0f * logitRows * vocabSize / hiddenSize),
\* every operation in float
OutRows(logitRows) ==
  LET a == FloatOf(logitRows, 1)
      v == FloatOf(Vocab, 1)
      p == FloatOf(a.n * v.n, a.d * v.d)
      q == FloatOf(p.n, p.d * Hidden)
  IN (q.n + q.d - 1) \div q.d

\* forward(seqs, logitsAll) on the input lengths lens, all prompts (step 0)
\* or all decodes: logitRows, prepareBuffer (Resize never shrinks), then the
\* embedding into embBuf and the logits from outBuf = embBuf + tot rows
ForwardSeqs(lens, prompt, la) ==
  LET tot == SumSeq(lens)
      logitRows == IF ~la /\ prompt THEN Len(lens) ELSE tot
  IN
  /\ rows' = MaxOf(rows, tot + OutRows(logitRows))
  /\ used' = tot * Hidden + logitRows * Vocab

\* seqs.empty(): return before touching the buffer
ForwardEmpty ==
  /\ used' = 0
  /\ UNCHANGED rows

Init ==
  /\ rows = 0
  /\ used = 0

\* a decode step gives each sequence one new token
Next ==
  \/ \E n \in 1 .. MaxSeqs, la \in LogitsAll :
       \/ \E lens \in [1 .. n -> PromptLens] : ForwardSeqs(lens, TRUE, la)
       \/ ForwardSeqs([i \in 1 .. n |-> 1], FALSE, la)
  \/ ForwardEmpty

Spec == Init /\ [][Next]_vars

(***************************************************************************)
(* The logits a forward(seqs) call writes after its activations fit in the *)
(* buffer prepareBuffer sized for it (spec 3): the float ceil of the       *)
(* logits rows must not come out below logitRows * vocabSize / hiddenSize. *)
(***************************************************************************)
BatchBufferFits == used <= rows * Hidden

=============================================================================

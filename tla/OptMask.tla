------------------------------- MODULE OptMask -------------------------------
(***************************************************************************)
(* The attention mask of OptDecoder (opt_decoder.cpp, prepareAttnMask) in  *)
(* the buffer CommonDecoder::getAttnMask keeps (common_decoder.h).  The    *)
(* buffer only grows; a new allocation holds garbage until written.        *)
(* prepareBuffers asks for batch*seqLen*seqLen entries at step 0 and in    *)
(* prefixForward; prepareAttnMask(ids, step + prefixSharing) writes a      *)
(* causal [batch][seqLen][seqLen] block at step 0 and batch*accSeqLen      *)
(* zeros otherwise.  The attention reads the mask as                       *)
(* [batch][inputSeqLen][pastSeqLen + inputSeqLen], the layout that both    *)
(* branches write for the calls they were written for (a prompt with no   *)
(* past, one new token with accSeqLen keys).  Every sizeRequired is an     *)
(* int product, wrapped to IntBits; the fill loops are modelled at the     *)
(* offsets they mean, so a wrapped size shows as entries outside the       *)
(* buffer.                                                                 *)
(***************************************************************************)
EXTENDS Naturals

CONSTANTS
  UserBS,      \* userSideBS values the searcher uses
  Beams,       \* beamSize values
  SeqLens,     \* prompt lengths dims[2]
  PrefixLens,  \* prefix lengths given to setPrefix
  MaxSteps,    \* steps > 0 per generation (bounds the model)
  MaskCap,     \* mask entries the model has room for
  IntBits      \* width of int

Zero == "zero"        \* 0: the key may be attended to
Lowest == "lowest"    \* numeric_limits<float>::lowest(): masked out
Junk == "junk"        \* never written since it was allocated

VARIABLES
  maskSize,       \* CommonDecoder::maskSize
  mask,           \* attnMask: entry -> value
  prefixSharing,
  prefixSeqLen,
  accSeqLen,
  gen,            \* dims of the generation under way, for steps > 0
  steps,          \* steps > 0 of this generation
  attn            \* the shape the last attention read the mask with

vars == <<maskSize, mask, prefixSharing, prefixSeqLen, accSeqLen, gen, steps,
          attn>>

Idx == 0 .. MaskCap - 1
NoGen == [u |-> 0, b |-> 0]
NoAttn == [batch |-> 0, inS |-> 0, past |-> 0]

Half == 2 ^ (IntBits - 1)

\* an int product: two's complement wrap to IntBits
I32(x) == ((x + Half) % (2 * Half)) - Half

\* getAttnMask(sizeRequired): a larger buffer is freshly allocated
GetAttnMask(m, size) ==
  IF m.size < size THEN [size |-> size, mask |-> [k \in Idx |-> Junk]] ELSE m

\* A bug in the causal block: the diagonal masked out (memset of i entries)
PrepareAttnMaskNoDiag(m, batch, seqLen, step, acc) ==
  IF step = 0
    THEN LET g == GetAttnMask(m, I32(batch * seqLen * seqLen)) IN
         [g EXCEPT !.mask = [k \in Idx |->
            IF k < batch * seqLen * seqLen
              THEN IF k % seqLen < (k % (seqLen * seqLen)) \div seqLen
                     THEN Zero ELSE Lowest
              ELSE g.mask[k]]]
    ELSE LET g == GetAttnMask(m, I32(batch * acc)) IN
         [g EXCEPT !.mask = [k \in Idx |-> IF k < batch * acc THEN Zero
                                          ELSE g.mask[k]]]

\* OptDecoder::prepareAttnMask(ids, step), ctx holding batch and seqLen:
\* row i of block b is 0 up to column i and lowest after it; or all zeros
PrepareAttnMask(m, batch, seqLen, step, acc) ==
  IF step = 0
    THEN LET g == GetAttnMask(m, I32(batch * seqLen * seqLen)) IN
         [g EXCEPT !.mask = [k \in Idx |->
            IF k < batch * seqLen * seqLen
              THEN IF k % seqLen <= (k % (seqLen * seqLen)) \div seqLen
                     THEN Zero ELSE Lowest
              ELSE g.mask[k]]]
    ELSE LET g == GetAttnMask(m, I32(batch * acc)) IN
         [g EXCEPT !.mask = [k \in Idx |-> IF k < batch * acc THEN Zero
                                          ELSE g.mask[k]]]

Cur == [size |-> maskSize, mask |-> mask]

\* forward(ids, dims, 0): prepareBuffers (ctx resized to the new tokens),
\* accSeqLen = seqLen, then prepareAttnMask(ids, 0 + prefixSharing)
ForwardPrompt(u, b, seqLen) ==
  LET past == IF prefixSharing THEN prefixSeqLen ELSE 0
      inS == seqLen - past
      m == PrepareAttnMask(GetAttnMask(Cur, I32(u * inS * inS)), u, inS,
                           IF prefixSharing THEN 1 ELSE 0, seqLen)
  IN
  /\ inS >= 1
  /\ maskSize' = m.size
  /\ mask' = m.mask
  /\ accSeqLen' = seqLen
  /\ gen' = [u |-> u, b |-> b]
  /\ steps' = 0
  /\ attn' = [batch |-> u, inS |-> inS, past |-> past]
  /\ UNCHANGED <<prefixSharing, prefixSeqLen>>

\* forward(ids, dims, step > 0): batch = userSideBS * beamSize, one token,
\* accSeqLen += 1, then prepareAttnMask(ids, step + prefixSharing)
ForwardNext ==
  LET batch == gen.u * gen.b
      m == PrepareAttnMask(Cur, batch, 1, 1, accSeqLen + 1)
  IN
  /\ gen # NoGen
  /\ steps < MaxSteps
  /\ maskSize' = m.size
  /\ mask' = m.mask
  /\ accSeqLen' = accSeqLen + 1
  /\ steps' = steps + 1
  /\ attn' = [batch |-> batch, inS |-> 1, past |-> accSeqLen]
  /\ UNCHANGED <<prefixSharing, prefixSeqLen, gen>>

\* setPrefix: prefixForward resizes ctx to (1, len, 0), prepareBuffers, and
\* prepareAttnMask(ids, 0)
SetPrefix(len) ==
  LET m == PrepareAttnMask(GetAttnMask(Cur, I32(len * len)), 1, len, 0, accSeqLen) IN
  /\ prefixSharing' = TRUE
  /\ prefixSeqLen' = len
  /\ maskSize' = m.size
  /\ mask' = m.mask
  /\ attn' = [batch |-> 1, inS |-> len, past |-> 0]
  /\ UNCHANGED <<accSeqLen, gen, steps>>

UnsetPrefix ==
  /\ prefixSharing' = FALSE
  /\ UNCHANGED <<maskSize, mask, prefixSeqLen, accSeqLen, gen, steps, attn>>

\* the constructor: maskSize = 0, attnMask = nullptr
Init ==
  /\ maskSize = 0
  /\ mask = [k \in Idx |-> Junk]
  /\ prefixSharing = FALSE
  /\ prefixSeqLen = 0
  /\ accSeqLen = 0
  /\ gen = NoGen
  /\ steps = 0
  /\ attn = NoAttn

Next ==
  \/ \E u \in UserBS, b \in Beams, s \in SeqLens : ForwardPrompt(u, b, s)
  \/ ForwardNext
  \/ \E len \in PrefixLens : SetPrefix(len)
  \/ UnsetPrefix

Spec == Init /\ [][Next]_vars

(***************************************************************************)
(* The mask the last attention read is inside the buffer and causal: for   *)
(* query i of a call with past cached positions, key j is 0 exactly when   *)
(* j <= past + i.  The size getAttnMask was asked for, the entries         *)
(* prepareAttnMask wrote, and the accSeqLen it read must all match the     *)
(* call's shape, across calls that grow or reuse the buffer.               *)
(***************************************************************************)
MaskFitsAttention ==
  LET keys == attn.past + attn.inS IN
  \A bb \in 0 .. attn.batch - 1, i \in 0 .. attn.inS - 1, j \in 0 .. keys - 1 :
    LET k == (bb * attn.inS + i) * keys + j IN
    /\ k < maskSize
    /\ mask[k] = IF j <= attn.past + i THEN Zero ELSE Lowest

=============================================================================

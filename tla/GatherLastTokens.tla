-------------------------- MODULE GatherLastTokens --------------------------
(***************************************************************************)
(* CommonDecoder::forward(seqs, logitsAll), the continuous-batching path   *)
(* (common_decoder.h): the sequences' tokens are concatenated into embBuf, *)
(* run through the decoder block, and when only one logits row per         *)
(* sequence is wanted (a prompt step without logitsAll) the last row of    *)
(* every sequence is copied, in place, to row b of embBuf before the final *)
(* norm.  A row is abstracted to the token <<sequence, index>> whose       *)
(* hidden state it holds.                                                  *)
(***************************************************************************)
EXTENDS Integers, FiniteSets

CONSTANTS
  MaxSeqs,     \* largest seqs.size()
  MaxLen       \* longest getInputSeqLen() of a sequence

ASSUME MaxSeqs \in Nat \ {0} /\ MaxLen \in Nat \ {0}

VARIABLES
  lens,        \* b -> seqs[b]->getInputSeqLen()
  logitRows,   \* rows the predictor is run on
  buf,         \* embBuf: row -> <<sequence, token index>>
  b,           \* loop index
  offset       \* loop variable offset

vars == <<lens, logitRows, buf, b, offset>>

Rows == 0 .. MaxSeqs * MaxLen - 1
Token == (0 .. MaxSeqs - 1) \X (0 .. MaxLen - 1)
NoToken == <<MaxSeqs, 0>>   \* a row past the last token: not written

\* seqs.size()
NSeqs == Cardinality(DOMAIN lens)

RECURSIVE SumLens(_, _)
\* lens[0] + ... + lens[n-1]
SumLens(l, n) == IF n = 0 THEN 0 ELSE l[n - 1] + SumLens(l, n - 1)

\* the row of token i of sequence j after concatenation
RowOf(l, j, i) == SumLens(l, j) + i

\* A bug in the row count: one row fewer than sequences
LogitRowsShort(l, n, logitsAll, step) ==
  IF ~logitsAll /\ step = 0 THEN n - 1 ELSE SumLens(l, n)

\* logitRows = (!logitsAll && seqs[0]->getStep() == 0) ? seqs.size()
\*                                                  : totInputSeqLen
LogitRows(l, n, logitsAll, step) ==
  IF ~logitsAll /\ step = 0 THEN n ELSE SumLens(l, n)

\* A bug in the gather: offset starts at 0 instead of -1
FirstOffsetZero == 0

\* int offset = -1;
FirstOffset == -1

\* the decoder block leaves embBuf holding every token of every sequence
\* in order; the loop starts when logitRows != totInputSeqLen
Init ==
  \E n \in 1 .. MaxSeqs, logitsAll \in BOOLEAN, step \in {0, 1} :
  \E l \in [0 .. n - 1 -> 1 .. MaxLen] :
    /\ lens = l
    /\ logitRows = LogitRows(l, n, logitsAll, step)
    /\ buf = [r \in Rows |->
                IF r < SumLens(l, n)
                  THEN CHOOSE t \in Token : /\ t[1] < n /\ t[2] < l[t[1]]
                                            /\ RowOf(l, t[1], t[2]) = r
                  ELSE NoToken]
    /\ b = IF logitRows # SumLens(l, n) THEN 0 ELSE n
    /\ offset = FirstOffset

\* offset += seqs[b]->getInputSeqLen(); copy row offset to row b
CopyLastRow ==
  LET off == offset + lens[b] IN
  /\ b < NSeqs
  /\ offset' = off
  /\ buf' = [buf EXCEPT ![b] = buf[off]]
  /\ b' = b + 1
  /\ UNCHANGED <<lens, logitRows>>

Next == CopyLastRow

Spec == Init /\ [][Next]_vars

Done == b = NSeqs

TypeOK ==
  /\ lens \in UNION {[0 .. n - 1 -> 1 .. MaxLen] : n \in 1 .. MaxSeqs}
  /\ logitRows \in 1 .. MaxSeqs * MaxLen
  /\ buf \in [Rows -> Token \cup {NoToken}]
  /\ b \in 0 .. MaxSeqs
  /\ offset \in -1 .. MaxSeqs * MaxLen

(***************************************************************************)
(* When the loop is over, the first logitRows rows of embBuf are the rows  *)
(* the final norm and predictor expect: the last token of every sequence   *)
(* when one row per sequence is asked for, every token otherwise.  The     *)
(* in-place copy must never read a row it has already overwritten.         *)
(***************************************************************************)
LastTokensGathered ==
  Done =>
    IF logitRows = NSeqs
      THEN \A j \in DOMAIN lens : buf[j] = <<j, lens[j] - 1>>
      ELSE \A j \in DOMAIN lens : \A i \in 0 .. lens[j] - 1 :
             buf[RowOf(lens, j, i)] = <<j, i>>

=============================================================================

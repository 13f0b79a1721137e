----------------------------- MODULE ForwardCall -----------------------------
(***************************************************************************)
(* The calls of one decoder that share its activation buffer.  A          *)
(* forward(ids, dims, step) call is seen by two parts of what it leaves    *)
(* behind: the buffer prepareBuffers sized and the call writes             *)
(* (ActBuffers), and the logits rows it returns (FinalLogits); each such   *)
(* action is the same call in both, sharing the prefix state and the       *)
(* generation's dims.  A continuous-batching forward(seqs) call            *)
(* (BatchBuffers) resizes and writes the same actBuffers between them.     *)
(***************************************************************************)
EXTENDS Naturals

CONSTANTS Hidden, Vocab, UserBS, Beams, SeqLens, PrefixLens, LogitsAll,
          IntBits, MaxSteps, MaxRows, PromptLens, MaxSeqs, MantBits

VARIABLES
  prefixSharing, prefixSeqLen, gen, accSeqLen, steps,   \* shared
  rows, used,                          \* ActBuffers and BatchBuffers
  call, out                                              \* FinalLogits

vars == <<prefixSharing, prefixSeqLen, gen, accSeqLen, steps, rows, used,
          call, out>>

AB == INSTANCE ActBuffers
FL == INSTANCE FinalLogits
BB == INSTANCE BatchBuffers

Init == AB!Init /\ FL!Init

Next ==
  \/ \E u \in UserBS, b \in Beams, s \in SeqLens, la \in LogitsAll :
       AB!ForwardPrompt(u, b, s, la) /\ FL!ForwardPrompt(u, b, s, la)
  \/ \E la \in LogitsAll :
       AB!ForwardNext(la) /\ FL!ForwardNext(la)
  \/ \E len \in PrefixLens :
       AB!SetPrefix(len) /\ FL!SetPrefix(len)
  \/ AB!UnsetPrefix /\ FL!UnsetPrefix
  \/ BB!Next /\ UNCHANGED <<prefixSharing, prefixSeqLen, gen, accSeqLen, steps,
                            call, out>>

Spec == Init /\ [][Next]_vars

(* Every float the last call wrote lies inside the activation buffer as   *)
(* the calls before it sized it: a step-0 call, prefixForward or a         *)
(* forward(seqs) call, whose float row count must not come out short       *)
(* (ActBuffers!BufferFits; BatchBuffers!BatchBufferFits is the same).      *)
BufferFits == AB!BufferFits

(* Every logits row the call returns is computed from the token the       *)
(* caller asked for (FinalLogits!LogitsOfRequestedTokens).                 *)
LogitsOfRequestedTokens == FL!LogitsOfRequestedTokens

=============================================================================

------------------------------ MODULE SeqCache ------------------------------
(***************************************************************************)
(* What the decoder's KV cache promises the searcher (spec 4.2 and 8),     *)
(* with keys and values abstracted to the tokens they were computed from:  *)
(* each of the width = userSideBS * beamSize live slots holds one token    *)
(* sequence.  A generation starts with every beam of a prompt holding that *)
(* prompt; each step appends one token to every live slot; a beam reorder  *)
(* replaces each slot's sequence by that of a beam of the same prompt.     *)
(***************************************************************************)
EXTENDS Naturals, Sequences, FiniteSets

CONSTANTS
  Tok,         \* token ids
  Slots,       \* slot indices the cache has room for
  MaxLen       \* longest prompt a generation starts with

VARIABLES
  seqs,        \* slot -> the token sequence its keys and values stand for
  width,       \* live slots: userSideBS * beamSize, 0 before a generation
  beamSize     \* beams per prompt of the current generation

vars == <<seqs, width, beamSize>>

\* the slots of the beams of slot s's prompt
Beams(s, b) == (s \div b) * b .. (s \div b) * b + b - 1

Init ==
  /\ seqs = [s \in Slots |-> <<>>]
  /\ width = 0
  /\ beamSize = 1

\* a new generation: u prompts of n tokens, each held by all of its b beams
Start(u, b, n) ==
  /\ width' = u * b
  /\ beamSize' = b
  /\ \A s \in Slots :
       IF s < u * b
         THEN seqs'[s] \in [1 .. n -> Tok] /\ seqs'[s] = seqs'[(s \div b) * b]
         ELSE seqs'[s] = <<>>

\* one step: every live slot gets one more token
AppendStep ==
  /\ width > 0
  /\ \A s \in Slots :
       IF s < width
         THEN /\ Len(seqs'[s]) = Len(seqs[s]) + 1
              /\ SubSeq(seqs'[s], 1, Len(seqs[s])) = seqs[s]
              /\ seqs'[s][Len(seqs'[s])] \in Tok
         ELSE seqs'[s] = seqs[s]
  /\ UNCHANGED <<width, beamSize>>

\* beam reorder: each live slot continues the sequence of a beam of its prompt
Reorder ==
  /\ width > 0
  /\ \A s \in Slots :
       IF s < width THEN \E j \in Beams(s, beamSize) : seqs'[s] = seqs[j]
       ELSE seqs'[s] = seqs[s]
  /\ UNCHANGED <<width, beamSize>>

\* The actions relate the old and new sequences rather than construct the
\* new ones: SeqCache is the property an implementation is checked against.
Next ==
  \/ \E u \in 1 .. Cardinality(Slots), b \in 1 .. Cardinality(Slots),
        n \in 1 .. MaxLen :
       u * b <= Cardinality(Slots) /\ Start(u, b, n)
  \/ AppendStep
  \/ Reorder

Spec == Init /\ [][Next]_vars

=============================================================================

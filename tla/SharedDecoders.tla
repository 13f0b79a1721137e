---------------------------- MODULE SharedDecoders ----------------------------
(***************************************************************************)
(* Two CommonDecoders of one process that share their KV cache manager     *)
(* (common_decoder.h, getSharedResources / setSharedResources): decoder A  *)
(* runs the prompt step and decoder B takes over the generation with       *)
(* skipFirstStep(initSeqLen) instead of its own step 0, or the other way   *)
(* round.  The main and the prefix cache are one; accSeqLen, initSeqLen    *)
(* and the prefix fields stay each decoder's own.  The caller (not in      *)
(* src/) drives one decoder at a time: a prompt on either, a switch right  *)
(* after the prompt step, and the steps and reorders on the decoder it     *)
(* drives.  One decoder alone, reused for two generations, is a behaviour  *)
(* of this module too.                                                     *)
(***************************************************************************)
EXTENDS Naturals, Sequences

CONSTANTS Tok, MaxUserBS, MaxBeam, MaxPrompt, MaxPositions, MaxPrefix,
          MaxGenerations, NoEntry,
          PrefixOn   \* the decoders the caller calls setPrefix on

VARIABLES
  kv, prefixKv,                  \* the shared KVCacheManager
  gen, hist,                     \* the caller's generation and view
  accA, initA, prefLenA, prefShA, prefToksA, gensA,   \* decoder A
  accB, initB, prefLenB, prefShB, prefToksB, gensB,   \* decoder B
  cur                            \* the decoder the caller drives

varsA == <<accA, initA, prefLenA, prefShA, prefToksA, gensA>>
varsB == <<accB, initB, prefLenB, prefShB, prefToksB, gensB>>
vars == <<kv, prefixKv, gen, hist, varsA, varsB, cur>>

DA == INSTANCE Decoder
        WITH accSeqLen <- accA, initSeqLen <- initA, prefixSeqLen <- prefLenA,
             prefixSharing <- prefShA, prefixToks <- prefToksA,
             generations <- gensA
DB == INSTANCE Decoder
        WITH accSeqLen <- accB, initSeqLen <- initB, prefixSeqLen <- prefLenB,
             prefixSharing <- prefShB, prefixToks <- prefToksB,
             generations <- gensB

\* the prompt length the caller gave at step 0, as the searcher sees it
PromptLen == Len(hist[0])

\* A bug in skipFirstStep: only accSeqLen is set
SkipFirstStepAccOnly(init, acc, init2, acc2) ==
  /\ acc2 = PromptLen
  /\ init2 = init

\* skipFirstStep(initSeqLen): initSeqLen = accSeqLen = initSeqLen
SkipFirstStep(init, acc, init2, acc2) ==
  /\ init2 = PromptLen
  /\ acc2 = PromptLen

\* the caller hands the generation from A to B right after A's step 0
SwitchToB ==
  /\ cur = "A" /\ gen.active /\ accA = initA
  /\ SkipFirstStep(initB, accB, initB', accB')
  /\ cur' = "B"
  /\ UNCHANGED <<kv, prefixKv, gen, hist, varsA, prefLenB, prefShB,
                 prefToksB, gensB>>

SwitchToA ==
  /\ cur = "B" /\ gen.active /\ accB = initB
  /\ SkipFirstStep(initA, accA, initA', accA')
  /\ cur' = "A"
  /\ UNCHANGED <<kv, prefixKv, gen, hist, varsB, prefLenA, prefShA,
                 prefToksA, gensA>>

\* both constructed, then B given A's resources: one empty cache
Init == DA!Init /\ DB!Init /\ cur = "A"

\* every operation of one decoder, the other's own fields unchanged; a
\* prompt makes the caller drive that decoder
StepA ==
  /\ \/ \E u \in 1 .. MaxUserBS, b \in 1 .. MaxBeam, n \in 1 .. MaxPrompt :
          \E prompts \in [0 .. u - 1 -> DA!SeqsOfLen(n)] :
            DA!ForwardPrompt(u, b, n, prompts) /\ cur' = "A"
     \/ cur = "A" /\ \E ids \in [DA!Slots -> Tok] : DA!ForwardNext(ids)
                  /\ UNCHANGED cur
     \/ cur = "A" /\ \E idx \in [DA!Slots -> DA!Slots] : DA!ReorderCache(idx)
                  /\ UNCHANGED cur
     \/ "A" \in PrefixOn /\ \E n \in 1 .. MaxPrefix : \E t \in DA!SeqsOfLen(n) :
          DA!SetPrefix(t) /\ UNCHANGED cur
     \/ DA!UnsetPrefix /\ UNCHANGED cur
  /\ UNCHANGED varsB

StepB ==
  /\ \/ \E u \in 1 .. MaxUserBS, b \in 1 .. MaxBeam, n \in 1 .. MaxPrompt :
          \E prompts \in [0 .. u - 1 -> DB!SeqsOfLen(n)] :
            DB!ForwardPrompt(u, b, n, prompts) /\ cur' = "B"
     \/ cur = "B" /\ \E ids \in [DB!Slots -> Tok] : DB!ForwardNext(ids)
                  /\ UNCHANGED cur
     \/ cur = "B" /\ \E idx \in [DB!Slots -> DB!Slots] : DB!ReorderCache(idx)
                  /\ UNCHANGED cur
     \/ "B" \in PrefixOn /\ \E n \in 1 .. MaxPrefix : \E t \in DB!SeqsOfLen(n) :
          DB!SetPrefix(t) /\ UNCHANGED cur
     \/ DB!UnsetPrefix /\ UNCHANGED cur
  /\ UNCHANGED varsA

Next == StepA \/ StepB \/ SwitchToB \/ SwitchToA

Spec == Init /\ [][Next]_vars

TypeOK == DA!TypeOK /\ DB!TypeOK /\ cur \in {"A", "B"}

(***************************************************************************)
(* The cache the driven decoder reads holds exactly the caller's sequences *)
(* for that decoder's accSeqLen, across prompts on either decoder, a       *)
(* skipFirstStep handover, steps, reorders over [initSeqLen, accSeqLen),   *)
(* and prefixes on the decoders in PrefixOn: it fails if skipFirstStep     *)
(* leaves a length of an earlier generation behind, or one decoder's       *)
(* setPrefix replaces the prefix cache another decoder still uses.         *)
(***************************************************************************)
CacheHoldsHistory ==
  IF cur = "A" THEN DA!CacheHoldsHistory ELSE DB!CacheHoldsHistory

=============================================================================

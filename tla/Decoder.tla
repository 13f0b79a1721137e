------------------------------- MODULE Decoder -------------------------------
(***************************************************************************)
(* CommonDecoder's single-request path (common_decoder.h) with OPT's       *)
(* embedding and mask hooks (opt_decoder.cpp): forward(ids, dims, step),   *)
(* setPrefix / prefixForward, unsetPrefix and reorderCache, over the KV    *)
(* cache that KVCacheManager keeps.  One layer stands for all: every layer *)
(* of the loop does the same cache bookkeeping.  A cache entry records the *)
(* token whose key/value it holds and the position id its embedding used.  *)
(* The caller is the searcher loop (abstract_searcher.h): a step-0 call    *)
(* with the prompts, then one new token per beam slot per step, with       *)
(* reorderCache between steps; hist is its view of each slot's sequence.   *)
(***************************************************************************)
EXTENDS Naturals, Sequences, FiniteSets

CONSTANTS
  Tok,            \* token ids
  MaxUserBS,      \* largest dims[0]
  MaxBeam,        \* largest dims[1]
  MaxPrompt,      \* longest prompt (dims[2] at step 0)
  MaxPositions,   \* ctx->maxPositions: positions the cache holds
  MaxPrefix,      \* longest prefix given to setPrefix
  MaxGenerations, \* step-0 calls the caller makes (bounds the model)
  NoEntry         \* model value: a cache position never written

ASSUME /\ MaxUserBS \in Nat \ {0} /\ MaxBeam \in Nat \ {0}
       /\ MaxPrompt \in Nat \ {0} /\ MaxPrefix \in Nat
       /\ MaxPositions >= MaxPrompt

VARIABLES
  accSeqLen,      \* CommonDecoder::accSeqLen
  initSeqLen,     \* CommonDecoder::initSeqLen
  prefixSeqLen,   \* CommonDecoder::prefixSeqLen
  prefixSharing,  \* CommonDecoder::prefixSharing
  kv,             \* main cache: slot -> position -> entry
  prefixKv,       \* prefix cache (width 1): position -> entry
  gen,            \* the caller's generation: [active, userSideBS, beamSize]
  hist,           \* the caller's view: slot -> token sequence
  prefixToks,     \* the tokens last given to setPrefix
  generations     \* step-0 calls made so far

vars == <<accSeqLen, initSeqLen, prefixSeqLen, prefixSharing, kv, prefixKv,
          gen, hist, prefixToks, generations>>

Slots == 0 .. MaxUserBS * MaxBeam - 1
Pos == 0 .. MaxPositions - 1
Entry == [tok : Tok, pos : 0 .. 2 * MaxPositions]

Width == gen.userSideBS * gen.beamSize
SeqsOfLen(n) == [1 .. n -> Tok]

-----------------------------------------------------------------------------
(* OPT hooks (opt_decoder.cpp)                                             *)

\* OptDecoder::embeddingForward: positions[b*seqLen+i] = i + accSeqLen
OptPosition(acc, i) == i + acc

-----------------------------------------------------------------------------
(* KVCacheManager operations (kvcache_manager.h is not part of src/; these *)
(* are written from spec 4.2)                                              *)

\* attention for one layer appends, for every slot b < batch, the n new
\* tokens toks[b] at positions past .. past+n-1, embedded at positions
\* OptPosition(acc, i)
AttnAppend(c, batch, past, n, toks, acc) ==
  [s \in Slots |-> [p \in Pos |->
     IF s < batch /\ p >= past /\ p < past + n
       THEN [tok |-> toks[s][p - past + 1], pos |-> OptPosition(acc, p - past)]
       ELSE c[s][p]]]

\* expandPrefixCache(layer, userSideBS, prefixSeqLen): the prefix is copied
\* into positions 0 .. prefixSeqLen-1 of the first userSideBS slots
ExpandPrefixCache(c, pc, userSideBS, len) ==
  [s \in Slots |-> [p \in Pos |->
     IF s < userSideBS /\ p < len THEN pc[p] ELSE c[s][p]]]

\* expandCache(layer, userSideBS, beamSize, seqLen): slot b's first seqLen
\* positions are replicated into slots b*beamSize .. (b+1)*beamSize-1
ExpandCache(c, userSideBS, beamSize, seqLen) ==
  [s \in Slots |-> [p \in Pos |->
     IF s < userSideBS * beamSize /\ p < seqLen THEN c[s \div beamSize][p]
     ELSE c[s][p]]]

\* reorderCache(idx, size, initSeqLen, accSeqLen): slot s takes the
\* generated positions initSeqLen .. accSeqLen-1 of slot idx[s]
ReorderKV(c, idx, size, init, acc) ==
  [s \in Slots |-> [p \in Pos |->
     IF s < size /\ p >= init /\ p < acc THEN c[idx[s]][p] ELSE c[s][p]]]

-----------------------------------------------------------------------------
(* CommonDecoder (common_decoder.h)                                        *)

\* the step-0 split of forward: with prefix sharing the first prefixSeqLen
\* tokens are already in the prefix cache and only the rest is computed
PromptSplit(seqLen) ==
  IF prefixSharing THEN [past |-> prefixSeqLen, input |-> seqLen - prefixSeqLen]
  ELSE [past |-> 0, input |-> seqLen]

\* A bug in the layer loop: the beams are expanded before attention has
\* written the prompt
PromptLayerExpandFirst(c, u, b, seqLen, split, toks, acc) ==
  LET c1 == IF prefixSharing THEN ExpandPrefixCache(c, prefixKv, u, prefixSeqLen)
            ELSE c
      c2 == IF b > 1 THEN ExpandCache(c1, u, b, seqLen) ELSE c1
  IN AttnAppend(c2, u, split.past, split.input, toks, acc)

PromptLayer(c, u, b, seqLen, split, toks, acc) ==
  LET c1 == IF prefixSharing THEN ExpandPrefixCache(c, prefixKv, u, prefixSeqLen)
            ELSE c
      c2 == AttnAppend(c1, u, split.past, split.input, toks, acc)
  IN IF b > 1 THEN ExpandCache(c2, u, b, seqLen) ELSE c2

\* A bug in the step-0 reset: accSeqLen is not set back to 0
ForwardPromptNoReset(u, b, seqLen, prompts) ==
  LET split == PromptSplit(seqLen)
      newIds == [s \in 0 .. u - 1 |->
                   SubSeq(prompts[s], split.past + 1, seqLen)]
  IN
  /\ generations < MaxGenerations
  /\ split.input >= 1
  /\ prefixSharing => \A s \in 0 .. u - 1 :
                        SubSeq(prompts[s], 1, prefixSeqLen) = prefixToks
  /\ initSeqLen' = seqLen
  /\ accSeqLen' = accSeqLen + seqLen
  /\ kv' = PromptLayer(kv, u, b, seqLen, split, newIds, accSeqLen)
  /\ gen' = [active |-> TRUE, userSideBS |-> u, beamSize |-> b]
  /\ hist' = [s \in Slots |-> IF s < u * b THEN prompts[s \div b] ELSE <<>>]
  /\ generations' = generations + 1
  /\ UNCHANGED <<prefixSeqLen, prefixSharing, prefixKv, prefixToks>>

\* A bug in the step-0 reset: initSeqLen counted from the old accSeqLen
ForwardPromptStaleInit(u, b, seqLen, prompts) ==
  LET split == PromptSplit(seqLen)
      newIds == [s \in 0 .. u - 1 |->
                   SubSeq(prompts[s], split.past + 1, seqLen)]
  IN
  /\ generations < MaxGenerations
  /\ split.input >= 1
  /\ prefixSharing => \A s \in 0 .. u - 1 :
                        SubSeq(prompts[s], 1, prefixSeqLen) = prefixToks
  /\ initSeqLen' = accSeqLen + seqLen
  /\ accSeqLen' = seqLen
  /\ kv' = PromptLayer(kv, u, b, seqLen, split, newIds, 0)
  /\ gen' = [active |-> TRUE, userSideBS |-> u, beamSize |-> b]
  /\ hist' = [s \in Slots |-> IF s < u * b THEN prompts[s \div b] ELSE <<>>]
  /\ generations' = generations + 1
  /\ UNCHANGED <<prefixSeqLen, prefixSharing, prefixKv, prefixToks>>

\* forward(ids, dims, step) with step == 0: accSeqLen and initSeqLen are
\* reset, the prompt (less any shared prefix) is embedded and run through
\* the layers, accSeqLen advances by the whole seqLen
ForwardPrompt(u, b, seqLen, prompts) ==
  LET split == PromptSplit(seqLen)
      newIds == [s \in 0 .. u - 1 |->
                   SubSeq(prompts[s], split.past + 1, seqLen)]
  IN
  /\ generations < MaxGenerations
  /\ split.input >= 1
  /\ prefixSharing => \A s \in 0 .. u - 1 :
                        SubSeq(prompts[s], 1, prefixSeqLen) = prefixToks
  /\ initSeqLen' = seqLen
  /\ accSeqLen' = 0 + seqLen
  /\ kv' = PromptLayer(kv, u, b, seqLen, split, newIds, 0)
  /\ gen' = [active |-> TRUE, userSideBS |-> u, beamSize |-> b]
  /\ hist' = [s \in Slots |-> IF s < u * b THEN prompts[s \div b] ELSE <<>>]
  /\ generations' = generations + 1
  /\ UNCHANGED <<prefixSeqLen, prefixSharing, prefixKv, prefixToks>>

\* forward(ids, dims, step) with step > 0: batch = userSideBS*beamSize,
\* pastSeqLen = accSeqLen, one new token per slot
ForwardNext(ids) ==
  /\ gen.active
  /\ accSeqLen < MaxPositions
  /\ kv' = AttnAppend(kv, Width, accSeqLen, 1,
                      [s \in Slots |-> <<ids[s]>>], accSeqLen)
  /\ accSeqLen' = accSeqLen + 1
  /\ hist' = [s \in Slots |-> IF s < Width THEN Append(hist[s], ids[s])
                              ELSE hist[s]]
  /\ UNCHANGED <<initSeqLen, prefixSeqLen, prefixSharing, prefixKv, gen,
                 prefixToks, generations>>

\* reorderCache(idx, size): beam search keeps, for each slot, one of the
\* beams of the same prompt
ReorderCache(idx) ==
  /\ gen.active
  /\ \A s \in 0 .. Width - 1 : idx[s] \div gen.beamSize = s \div gen.beamSize
  /\ kv' = ReorderKV(kv, idx, Width, initSeqLen, accSeqLen)
  /\ hist' = [s \in Slots |-> IF s < Width THEN hist[idx[s]] ELSE hist[s]]
  /\ UNCHANGED <<accSeqLen, initSeqLen, prefixSeqLen, prefixSharing,
                 prefixKv, gen, prefixToks, generations>>

\* setPrefix(ids, seqLen): prefixSharing, prefixSeqLen, then prefixForward
\* runs the prefix through the layers into the prefix cache, pastSeqLen 0,
\* its embedding at the positions OptPosition(accSeqLen, i)
SetPrefix(toks) ==
  LET len == Len(toks) IN
  /\ prefixSharing' = TRUE
  /\ prefixSeqLen' = len
  /\ prefixKv' = [p \in Pos |->
                    IF p < len THEN [tok |-> toks[p + 1], pos |-> OptPosition(accSeqLen, p)]
                    ELSE prefixKv[p]]
  /\ prefixToks' = toks
  /\ UNCHANGED <<accSeqLen, initSeqLen, kv, gen, hist, generations>>

\* unsetPrefix()
UnsetPrefix ==
  /\ prefixSharing' = FALSE
  /\ UNCHANGED <<accSeqLen, initSeqLen, prefixSeqLen, kv, prefixKv, gen, hist,
                 prefixToks, generations>>

-----------------------------------------------------------------------------

Init ==
  /\ accSeqLen = 0
  /\ initSeqLen = 0
  /\ prefixSeqLen = 0
  /\ prefixSharing = FALSE
  /\ kv = [s \in Slots |-> [p \in Pos |-> NoEntry]]
  /\ prefixKv = [p \in Pos |-> NoEntry]
  /\ gen = [active |-> FALSE, userSideBS |-> 1, beamSize |-> 1]
  /\ hist = [s \in Slots |-> <<>>]
  /\ prefixToks = <<>>
  /\ generations = 0

Next ==
  \/ \E u \in 1 .. MaxUserBS, b \in 1 .. MaxBeam, n \in 1 .. MaxPrompt :
       \E prompts \in [0 .. u - 1 -> SeqsOfLen(n)] : ForwardPrompt(u, b, n, prompts)
  \/ \E ids \in [Slots -> Tok] : ForwardNext(ids)
  \/ \E idx \in [Slots -> Slots] : ReorderCache(idx)
  \/ \E n \in 1 .. MaxPrefix : \E toks \in SeqsOfLen(n) : SetPrefix(toks)
  \/ UnsetPrefix

Spec == Init /\ [][Next]_vars

-----------------------------------------------------------------------------

TypeOK ==
  /\ accSeqLen \in 0 .. MaxPositions
  /\ initSeqLen \in 0 .. MaxPrompt
  /\ prefixSeqLen \in 0 .. MaxPrefix
  /\ prefixSharing \in BOOLEAN
  /\ kv \in [Slots -> [Pos -> Entry \cup {NoEntry}]]
  /\ prefixKv \in [Pos -> Entry \cup {NoEntry}]
  /\ gen \in [active : BOOLEAN, userSideBS : 1 .. MaxUserBS, beamSize : 1 .. MaxBeam]
  /\ hist \in [Slots -> Seq(Tok)]

(***************************************************************************)
(* While a generation is under way, every beam slot's cache holds exactly  *)
(* the keys/values of that slot's sequence as the searcher sees it:        *)
(* accSeqLen positions, each for the right token.  This is what prefix     *)
(* expansion before the first append, beam expansion right after the       *)
(* step-0 attention, and reorderCache over [initSeqLen, accSeqLen) have to *)
(* get right together (spec 4.2, 8, 9).                                    *)
(***************************************************************************)
CacheHoldsHistory ==
  gen.active =>
    \A s \in 0 .. Width - 1 :
      /\ Len(hist[s]) = accSeqLen
      /\ \A p \in 0 .. accSeqLen - 1 :
           kv[s][p] # NoEntry /\ kv[s][p].tok = hist[s][p + 1]

(***************************************************************************)
(* Every cached key/value of a live slot was computed with the position id *)
(* of the position it is stored at, so prefix sharing gives the same       *)
(* result as running the whole prompt (spec 8, prefix scenario).           *)
(***************************************************************************)
PositionsMatch ==
  gen.active =>
    \A s \in 0 .. Width - 1 : \A p \in 0 .. accSeqLen - 1 :
      kv[s][p] # NoEntry => kv[s][p].pos = p

-----------------------------------------------------------------------------
(* Refinement of SeqCache: the cache, read as token sequences              *)

\* the tokens of slot s's first accSeqLen positions
CachedSeq(s) ==
  [i \in 1 .. accSeqLen |-> IF kv[s][i - 1] = NoEntry THEN NoEntry
                            ELSE kv[s][i - 1].tok]

SC == INSTANCE SeqCache WITH
        seqs <- [s \in Slots |-> IF gen.active /\ s < Width THEN CachedSeq(s)
                                 ELSE <<>>],
        width <- IF gen.active THEN Width ELSE 0,
        beamSize <- gen.beamSize,
        MaxLen <- MaxPrompt

=============================================================================

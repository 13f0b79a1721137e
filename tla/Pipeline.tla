------------------------------- MODULE Pipeline -------------------------------
(***************************************************************************)
(* The PIPELINE_PARALLEL path of CommonDecoder::forward(ids, dims, step)   *)
(* (common_decoder.h): every pipeline stage is one rank running the same   *)
(* sequence of forward calls, whose arguments the serving loop syncs from  *)
(* the master.  A stage other than the first receives the sequence id and  *)
(* the activations from the stage before it (two MPI_Recv with the same    *)
(* tag), registers the sequence in its SequencePool and pushes it to its   *)
(* TaskWaitingQueue; any stage admits one request of its InputQueue when   *)
(* the waiting queue is not full; it then spins until the waiting queue is *)
(* not empty, pops one sequence, runs its layers on embBuf, and, unless it *)
(* is the last stage, sends the popped id and embBuf on (two MPI_Send).    *)
(* Activations are abstracted to the sequence they were computed for; the  *)
(* KV cache of a stage to the sequence each position was written for.      *)
(***************************************************************************)
EXTENDS Naturals, Sequences, FiniteSets

CONSTANTS
  NumStages,    \* ctx->ppSize
  SeqIds,       \* sequence ids of the requests
  PromptLen,    \* dims[2] of a request's step-0 call
  MaxStep,      \* last decode step of a request
  QueueCap,     \* capacity of TaskWaitingQueue
  ChanCap,      \* messages MPI buffers between two stages before MPI_Send blocks
  NoEntry       \* model value: nothing / not written

ASSUME /\ NumStages \in Nat \ {0, 1}
       /\ PromptLen \in Nat \ {0} /\ MaxStep \in Nat
       /\ QueueCap \in Nat \ {0} /\ ChanCap \in Nat \ {0, 1}

Stages == 0 .. NumStages - 1
Last == NumStages - 1
\* accSeqLen is one per stage: between two step-0 calls it grows by every
\* request's decode steps
MaxPos == PromptLen + Cardinality(SeqIds) * MaxStep
Pos == 0 .. MaxPos - 1
Msg == [kind : {"id", "payload"}, sid : SeqIds]
Call == [sid : SeqIds, step : 0 .. MaxStep]

VARIABLES
  calls,        \* forward calls the serving loop has issued, in order
  nextStep,     \* the serving loop: next step of each request to issue
  inputQ,       \* stage -> InputQueue contents
  pool,         \* stage -> ids registered in SequencePool
  waitQ,        \* stage -> TaskWaitingQueue contents
  chan,         \* stage k -> MPI messages from stage k-1 not yet received
  pc,           \* stage -> where its current forward call is
  callIdx,      \* stage -> forward calls it has returned from
  accSeqLen,    \* stage -> CommonDecoder::accSeqLen
  past,         \* stage -> pastSeqLen of the current call
  recvId,       \* stage -> sequenceID received
  embBuf,       \* stage -> the request embBuf holds activations of
  running,      \* stage -> the id popped as runningTask
  cache,        \* stage -> position -> request the cached key/value is of
  done          \* <<id, step>> pairs whose logits the last stage returned

vars == <<calls, nextStep, inputQ, pool, waitQ, chan, pc, callIdx, accSeqLen,
          past, recvId, embBuf, running, cache, done>>

CallLen(c) == IF c.step = 0 THEN PromptLen ELSE 1

-----------------------------------------------------------------------------
(* The serving loop (not in src/): it issues the next step of a request    *)
(* once the last stage has returned the logits of the step before, and    *)
(* queues the request on the first stage's InputQueue; on the first stage  *)
(* it runs on the thread that calls forward, so only between two calls.    *)

Submit(s) ==
  /\ pc[0] = "idle"
  /\ nextStep[s] <= MaxStep
  /\ nextStep[s] > 0 => <<s, nextStep[s] - 1>> \in done
  /\ calls' = Append(calls, [sid |-> s, step |-> nextStep[s]])
  /\ nextStep' = [nextStep EXCEPT ![s] = @ + 1]
  /\ inputQ' = [inputQ EXCEPT ![0] = Append(@, s)]
  /\ UNCHANGED <<pool, waitQ, chan, pc, callIdx, accSeqLen, past, recvId,
                 embBuf, running, cache, done>>

-----------------------------------------------------------------------------
(* CommonDecoder::forward on stage k                                       *)

\* A bug in the step-0 reset: accSeqLen keeps growing
BeginForwardNoReset(k) ==
  LET c == calls[callIdx[k] + 1] IN
  /\ pc[k] = "idle"
  /\ callIdx[k] < Len(calls)
  /\ past' = [past EXCEPT ![k] = accSeqLen[k]]
  /\ accSeqLen' = [accSeqLen EXCEPT ![k] = @ + CallLen(c)]
  /\ embBuf' = [embBuf EXCEPT ![k] = c.sid]
  /\ pc' = [pc EXCEPT ![k] = IF k > 0 THEN "recvId" ELSE "admit"]
  /\ UNCHANGED <<calls, nextStep, inputQ, pool, waitQ, chan, callIdx, recvId,
                 running, cache, done>>

\* resize, reset at step 0, embedding of ids, accSeqLen += seqLen
BeginForward(k) ==
  LET c == calls[callIdx[k] + 1] IN
  /\ pc[k] = "idle"
  /\ callIdx[k] < Len(calls)
  /\ past' = [past EXCEPT ![k] = IF c.step = 0 THEN 0 ELSE accSeqLen[k]]
  /\ accSeqLen' = [accSeqLen EXCEPT ![k] =
                     (IF c.step = 0 THEN 0 ELSE @) + CallLen(c)]
  /\ embBuf' = [embBuf EXCEPT ![k] = c.sid]
  /\ pc' = [pc EXCEPT ![k] = IF k > 0 THEN "recvId" ELSE "admit"]
  /\ UNCHANGED <<calls, nextStep, inputQ, pool, waitQ, chan, callIdx, recvId,
                 running, cache, done>>

\* MPI_Recv(&sequenceID, ...): the next message from stage k-1
RecvSequenceId(k) ==
  /\ pc[k] = "recvId"
  /\ chan[k] # <<>>
  /\ recvId' = [recvId EXCEPT ![k] = Head(chan[k]).sid]
  /\ chan' = [chan EXCEPT ![k] = Tail(@)]
  /\ pc' = [pc EXCEPT ![k] = "recvPayload"]
  /\ UNCHANGED <<calls, nextStep, inputQ, pool, waitQ, callIdx, accSeqLen,
                 past, embBuf, running, cache, done>>

\* A bug in the registration: the push is inside if (!has(sequenceID))
RecvPayloadPushNew(k) ==
  /\ pc[k] = "recvPayload"
  /\ chan[k] # <<>>
  /\ embBuf' = [embBuf EXCEPT ![k] = Head(chan[k]).sid]
  /\ chan' = [chan EXCEPT ![k] = Tail(@)]
  /\ pool' = [pool EXCEPT ![k] = @ \cup {recvId[k]}]
  /\ waitQ' = [waitQ EXCEPT ![k] = IF recvId[k] \in pool[k] THEN @
                                    ELSE Append(@, recvId[k])]
  /\ pc' = [pc EXCEPT ![k] = "admit"]
  /\ UNCHANGED <<calls, nextStep, inputQ, callIdx, accSeqLen, past, recvId,
                 running, cache, done>>

\* MPI_Recv(embBuf, ...), then register the id if new and push it
RecvPayload(k) ==
  /\ pc[k] = "recvPayload"
  /\ chan[k] # <<>>
  /\ embBuf' = [embBuf EXCEPT ![k] = Head(chan[k]).sid]
  /\ chan' = [chan EXCEPT ![k] = Tail(@)]
  /\ pool' = [pool EXCEPT ![k] = @ \cup {recvId[k]}]
  /\ waitQ' = [waitQ EXCEPT ![k] = Append(@, recvId[k])]
  /\ pc' = [pc EXCEPT ![k] = "admit"]
  /\ UNCHANGED <<calls, nextStep, inputQ, callIdx, accSeqLen, past, recvId,
                 running, cache, done>>

\* the InputQueue admission, when the waiting queue has room
AdmitInput(k) ==
  IF inputQ[k] # <<>> /\ Len(waitQ[k]) < QueueCap
    THEN [in |-> Tail(inputQ[k]), q |-> Append(waitQ[k], Head(inputQ[k])),
          pool |-> pool[k] \cup {Head(inputQ[k])}]
    ELSE [in |-> inputQ[k], q |-> waitQ[k], pool |-> pool[k]]

\* A bug in the pop: the running task is read from the front of the queue
\* but not removed
RunLayersPeek(k) ==
  LET a == AdmitInput(k) IN
  /\ pc[k] = "admit"
  /\ a.q # <<>>
  /\ inputQ' = [inputQ EXCEPT ![k] = a.in]
  /\ pool' = [pool EXCEPT ![k] = a.pool]
  /\ waitQ' = [waitQ EXCEPT ![k] = a.q]
  /\ running' = [running EXCEPT ![k] = Head(a.q)]
  /\ cache' = [cache EXCEPT ![k] = [p \in Pos |->
                 IF p >= past[k] /\ p < accSeqLen[k] THEN embBuf[k] ELSE @[p]]]
  /\ pc' = [pc EXCEPT ![k] = IF k < Last THEN "sendId" ELSE "logits"]
  /\ UNCHANGED <<calls, nextStep, chan, callIdx, accSeqLen, past, recvId,
                 embBuf, done>>

\* the admission; while (TaskWaitingQueue.empty()) spins, so a stage whose
\* admission leaves the queue empty never leaves "admit" (no one else
\* touches its queues while it spins); pop the running task and run the
\* layers: positions past .. accSeqLen-1 of the cache are written with
\* embBuf's request, positions 0 .. accSeqLen-1 are read
RunLayers(k) ==
  LET a == AdmitInput(k) IN
  /\ pc[k] = "admit"
  /\ a.q # <<>>
  /\ inputQ' = [inputQ EXCEPT ![k] = a.in]
  /\ pool' = [pool EXCEPT ![k] = a.pool]
  /\ waitQ' = [waitQ EXCEPT ![k] = Tail(a.q)]
  /\ running' = [running EXCEPT ![k] = Head(a.q)]
  /\ cache' = [cache EXCEPT ![k] = [p \in Pos |->
                 IF p >= past[k] /\ p < accSeqLen[k] THEN embBuf[k] ELSE @[p]]]
  /\ pc' = [pc EXCEPT ![k] = IF k < Last THEN "sendId" ELSE "logits"]
  /\ UNCHANGED <<calls, nextStep, chan, callIdx, accSeqLen, past, recvId,
                 embBuf, done>>

\* MPI_Send(&sequenceID, ...) to stage k+1
SendSequenceId(k) ==
  /\ pc[k] = "sendId"
  /\ Len(chan[k + 1]) < ChanCap
  /\ chan' = [chan EXCEPT ![k + 1] = Append(@, [kind |-> "id", sid |-> running[k]])]
  /\ pc' = [pc EXCEPT ![k] = "sendPayload"]
  /\ UNCHANGED <<calls, nextStep, inputQ, pool, waitQ, callIdx, accSeqLen,
                 past, recvId, embBuf, running, cache, done>>

\* MPI_Send(embBuf, ...) to stage k+1, return nullptr
SendPayload(k) ==
  /\ pc[k] = "sendPayload"
  /\ Len(chan[k + 1]) < ChanCap
  /\ chan' = [chan EXCEPT ![k + 1] = Append(@, [kind |-> "payload", sid |-> embBuf[k]])]
  /\ pc' = [pc EXCEPT ![k] = "idle"]
  /\ callIdx' = [callIdx EXCEPT ![k] = @ + 1]
  /\ UNCHANGED <<calls, nextStep, inputQ, pool, waitQ, accSeqLen, past,
                 recvId, embBuf, running, cache, done>>

\* the last stage: final norm and predictor on embBuf, return the logits
ReturnLogits(k) ==
  /\ pc[k] = "logits"
  /\ done' = done \cup {<<embBuf[k], calls[callIdx[k] + 1].step>>}
  /\ pc' = [pc EXCEPT ![k] = "idle"]
  /\ callIdx' = [callIdx EXCEPT ![k] = @ + 1]
  /\ UNCHANGED <<calls, nextStep, inputQ, pool, waitQ, chan, accSeqLen, past,
                 recvId, embBuf, running, cache>>

-----------------------------------------------------------------------------

Init ==
  /\ calls = <<>>
  /\ nextStep = [s \in SeqIds |-> 0]
  /\ inputQ = [k \in Stages |-> <<>>]
  /\ pool = [k \in Stages |-> {}]
  /\ waitQ = [k \in Stages |-> <<>>]
  /\ chan = [k \in Stages |-> <<>>]
  /\ pc = [k \in Stages |-> "idle"]
  /\ callIdx = [k \in Stages |-> 0]
  /\ accSeqLen = [k \in Stages |-> 0]
  /\ past = [k \in Stages |-> 0]
  /\ recvId = [k \in Stages |-> NoEntry]
  /\ embBuf = [k \in Stages |-> NoEntry]
  /\ running = [k \in Stages |-> NoEntry]
  /\ cache = [k \in Stages |-> [p \in Pos |-> NoEntry]]
  /\ done = {}

Stage(k) ==
  \/ BeginForward(k)
  \/ RecvSequenceId(k)
  \/ RecvPayload(k)
  \/ RunLayers(k)
  \/ SendSequenceId(k)
  \/ SendPayload(k)
  \/ ReturnLogits(k)

Next ==
  \/ \E s \in SeqIds : Submit(s)
  \/ \E k \in Stages : Stage(k)

\* Every rank keeps executing its forward calls; the serving loop keeps
\* issuing the requests' steps.
Fairness ==
  /\ \A k \in Stages : WF_vars(Stage(k))
  /\ \A s \in SeqIds : WF_vars(Submit(s))

Spec == Init /\ [][Next]_vars /\ Fairness

-----------------------------------------------------------------------------

TypeOK ==
  /\ calls \in Seq(Call)
  /\ nextStep \in [SeqIds -> 0 .. MaxStep + 1]
  /\ inputQ \in [Stages -> Seq(SeqIds)]
  /\ pool \in [Stages -> SUBSET SeqIds]
  /\ waitQ \in [Stages -> Seq(SeqIds)]
  /\ chan \in [Stages -> Seq(Msg)]
  /\ pc \in [Stages -> {"idle", "recvId", "recvPayload", "admit",
                        "sendId", "sendPayload", "logits"}]
  /\ callIdx \in [Stages -> Nat]
  /\ accSeqLen \in [Stages -> 0 .. MaxPos]
  /\ embBuf \in [Stages -> SeqIds \cup {NoEntry}]
  /\ running \in [Stages -> SeqIds \cup {NoEntry}]
  /\ cache \in [Stages -> [Pos -> SeqIds \cup {NoEntry}]]
  /\ done \subseteq SeqIds \X (0 .. MaxStep)

(***************************************************************************)
(* No cross-delivery (spec 5, 8): the id a stage sends on is the request   *)
(* whose activations it sends, so every id message between two stages is   *)
(* followed by the payload of that same request, and the last stage        *)
(* returns logits only for the request whose step it was called for.      *)
(***************************************************************************)
IdMatchesPayload ==
  /\ \A k \in Stages : pc[k] \in {"sendId", "sendPayload", "logits"} =>
                          running[k] = embBuf[k]
  /\ \A k \in Stages : \A i \in 1 .. Len(chan[k]) - 1 :
       chan[k][i].kind = "id" =>
         chan[k][i + 1] = [kind |-> "payload", sid |-> chan[k][i].sid]

(***************************************************************************)
(* The KV cache a stage's layers read, positions 0 .. accSeqLen-1, holds   *)
(* only keys/values of the request the stage is running (spec 4.4:         *)
(* requests overlap in the pipeline independently).                        *)
(***************************************************************************)
CacheIsolation ==
  \A k \in Stages : pc[k] \in {"sendId", "sendPayload", "logits"} =>
    \A p \in 0 .. accSeqLen[k] - 1 : cache[k][p] = running[k]

(***************************************************************************)
(* The ready queue never holds more than its capacity (spec 8): the push   *)
(* of a received group (RecvPayload) does not check isFull, unlike the     *)
(* InputQueue admission, so the bound rests on every call popping exactly  *)
(* one group after at most one unchecked push.                             *)
(***************************************************************************)
WaitQueueWithinCap ==
  \A k \in Stages : Len(waitQ[k]) <= QueueCap

(***************************************************************************)
(* Every step the serving loop issues is eventually returned as logits by  *)
(* the last stage: no stage spins for ever, no MPI send or receive waits   *)
(* for ever.                                                               *)
(***************************************************************************)
StepsComplete ==
  \A s \in SeqIds, n \in 0 .. MaxStep :
    (nextStep[s] > n) ~> (<<s, n>> \in done)

=============================================================================

---------------------------- MODULE EmbedBatches ----------------------------
(***************************************************************************)
(* How EmbedDocuments cuts a call into inferences and puts the vectors     *)
(* back: chunks of a fixed size, length buckets, and the one-ahead         *)
(* pipeline of embedding/pipeline.go, whose producer goroutine tokenizes   *)
(* the next chunk while the caller infers the last one.  A document is its *)
(* index and its length in tokens; its vector is the pair of the index and *)
(* the number of its tokens that were pooled.                              *)
(***************************************************************************)
EXTENDS Cases, Naturals, FiniteSets, SequencesExt

CONSTANTS MaxDocuments,  \* documents in one call
          MaxChunks      \* chunks the pipeline processes

ASSUME EmbedBatchesAssumption == MaxDocuments \in Nat /\ MaxChunks \in Nat \ {0}

VARIABLES producer,   \* where the producer goroutine stands
          produced,   \* chunks it has tokenized
          offered,    \* the chunk on its hands, or 0
          doneCh,     \* the content of the done channel
          closedOff,  \* items is closed
          consumer,   \* where the caller stands
          received,   \* the chunk the caller has taken, or 0
          inferred,   \* chunks whose vectors are in results, in order
          ctxDone,    \* the caller's context is cancelled
          cancelled,  \* the pipeline's own context is cancelled
          reply       \* what embedFixedPipeline returned

pipeVars == <<producer, produced, offered, doneCh, closedOff, consumer,
              received, inferred, ctxDone, cancelled, reply>>

----------------------------------------------------------------------------
(* Chunks and buckets. *)
MinOf(a, b) == IF a <= b THEN a ELSE b

(* tokenizer.go: a document longer than the maximum is cut. *)
EncodedLength(length, maxSeqLen) == MinOf(length, maxSeqLen)

Vector(doc, length, window) == <<doc, MinOf(length, window)>>

(* onnx.go: a run takes 1 to batchSize rows. *)
RowsFit(rows, batchSize) == 1 <= rows /\ rows <= batchSize

(* The chunks of a sequence of rows, each at most size long. *)
Chunks(rows, size) ==
    [k \in 1..((Len(rows) + size - 1) \div size) |->
        SubSeq(rows, (k - 1) * size + 1, MinOf(k * size, Len(rows)))]

EmbedChunks(lengths, size, maxSeqLen) ==
    LET docs == [i \in 1..Len(lengths) |-> Vector(i, lengths[i], maxSeqLen)]
    IN  FlattenSeq(Chunks(docs, size))

BucketSizes == <<64, 128, 256, 512>>

SequenceBucketTight(length, maxSeqLen) ==
    LET fits == {i \in 1..4 : length <= BucketSizes[i] + 1 \/ BucketSizes[i] >= maxSeqLen}
        first == CHOOSE i \in fits : \A j \in fits : i <= j
    IN  IF fits = {} THEN maxSeqLen ELSE MinOf(BucketSizes[first], maxSeqLen)
SequenceBucket(length, maxSeqLen) ==
    LET fits == {i \in 1..4 : length <= BucketSizes[i] \/ BucketSizes[i] >= maxSeqLen}
        first == CHOOSE i \in fits : \A j \in fits : i <= j
    IN  IF fits = {} THEN maxSeqLen ELSE MinOf(BucketSizes[first], maxSeqLen)

(* The indexes of a bucket's documents, in the order of the call. *)
BucketItems(lengths, maxSeqLen, bucket) ==
    SelectSeq([i \in 1..Len(lengths) |-> i],
              LAMBDA i : SequenceBucket(lengths[i], maxSeqLen) = bucket)

(* The results of one inference go back to the indexes its rows came from. *)
EmbedLengthBuckets(lengths, size, maxSeqLen) ==
    [i \in 1..Len(lengths) |->
        LET bucket == SequenceBucket(lengths[i], maxSeqLen)
            chunks == Chunks(BucketItems(lengths, maxSeqLen, bucket), size)
            k == CHOOSE k \in 1..Len(chunks) : i \in ToSet(chunks[k])
            row == CHOOSE row \in 1..Len(chunks[k]) : chunks[k][row] = i
        IN  IF RowsFit(Len(chunks[k]), size)
            THEN Vector(chunks[k][row], lengths[i], bucket) ELSE <<0, 0>>]

BatchCases ==
    UNION {[lengths : [1..n -> {1, 64, 65, 129, 600}], size : 1..2, maxSeqLen : {96, 512, 1000}] :
              n \in 0..MaxDocuments}

BatchesNext == Pick("batches", BatchCases)

(* Every mode gives each document its own vector, over all the tokens the  *)
(* tokenizer kept of it, whatever bucket or chunk it was computed in       *)
(* (embedder.go:743, :778, :837).                                          *)
EveryDocumentItsVector ==
    Picked("batches") =>
        LET c == case[1]
            kept == [i \in 1..Len(c.lengths) |-> EncodedLength(c.lengths[i], c.maxSeqLen)]
            want == [i \in 1..Len(kept) |-> <<i, kept[i]>>]
        IN  /\ EmbedChunks(kept, c.size, c.maxSeqLen) = want
            /\ EmbedLengthBuckets(kept, c.size, c.maxSeqLen) = want

----------------------------------------------------------------------------
(* The one-ahead pipeline. *)
PipeInit ==
    /\ producer = "produce" /\ produced = 0 /\ offered = 0
    /\ doneCh = <<>> /\ closedOff = FALSE
    /\ consumer = "range" /\ received = 0 /\ inferred = <<>>
    /\ ctxDone = FALSE /\ cancelled = FALSE /\ reply = "none"

PipelineCtxDone == ctxDone \/ cancelled

callerVars == <<consumer, received, inferred, reply>>
producerVars == <<producer, produced, offered, doneCh, closedOff>>

(* The producer sends its outcome before the deferred close of items. *)
Finish(outcome) == doneCh' = <<outcome>> /\ producer' = "close"

ProduceOneMore ==
    /\ producer = "produce" /\ produced <= MaxChunks
    /\ produced' = produced + 1 /\ offered' = produced + 1
    /\ producer' = "select" /\ UNCHANGED doneCh
    /\ UNCHANGED <<closedOff, callerVars, ctxDone, cancelled>>
Produce ==
    /\ producer = "produce"
    /\ IF produced = MaxChunks
       THEN Finish("nil") /\ UNCHANGED <<produced, offered>>
       ELSE \/ PipelineCtxDone /\ Finish("cancelled") /\ UNCHANGED <<produced, offered>>
            \/ ~PipelineCtxDone /\ Finish("tokenizer error") /\ UNCHANGED <<produced, offered>>
            \/ /\ ~PipelineCtxDone
               /\ produced' = produced + 1 /\ offered' = produced + 1
               /\ producer' = "select" /\ UNCHANGED doneCh
    /\ UNCHANGED <<closedOff, callerVars, ctxDone, cancelled>>

(* The unbuffered send: both sides move in one step. *)
HandOver ==
    /\ producer = "select" /\ consumer = "range"
    /\ received' = offered /\ offered' = 0
    /\ producer' = "produce" /\ consumer' = "check"
    /\ UNCHANGED <<produced, doneCh, closedOff, inferred, ctxDone, cancelled, reply>>

SelectParentDone ==
    /\ producer = "select" /\ ctxDone
    /\ Finish("cancelled") /\ offered' = 0
    /\ UNCHANGED <<produced, closedOff, callerVars, ctxDone, cancelled>>
SelectStopped ==
    /\ producer = "select" /\ PipelineCtxDone
    /\ Finish("cancelled") /\ offered' = 0
    /\ UNCHANGED <<produced, closedOff, callerVars, ctxDone, cancelled>>

CloseItems ==
    /\ producer = "close"
    /\ producer' = "ended" /\ closedOff' = TRUE
    /\ UNCHANGED <<produced, offered, doneCh, callerVars, ctxDone, cancelled>>

(* The caller has its next chunk: a cancelled context or a failed run ends *)
(* the call, through the deferred stop.                                    *)
Infer ==
    /\ consumer = "check"
    /\ \/ ctxDone /\ consumer' = "stop" /\ reply' = "cancelled" /\ UNCHANGED inferred
       \/ ~ctxDone /\ consumer' = "stop" /\ reply' = "run error" /\ UNCHANGED inferred
       \/ /\ ~ctxDone /\ consumer' = "range"
          /\ inferred' = Append(inferred, received) /\ UNCHANGED reply
    /\ received' = 0
    /\ UNCHANGED <<producerVars, ctxDone, cancelled>>

RangeEnds ==
    /\ consumer = "range" /\ closedOff
    /\ consumer' = "stop"
    /\ UNCHANGED <<producerVars, received, inferred, ctxDone, cancelled, reply>>

CancelUnjoined ==
    /\ consumer = "stop" /\ ~cancelled
    /\ cancelled' = TRUE /\ consumer' = IF reply = "none" THEN "stop" ELSE "returned"
    /\ UNCHANGED <<producerVars, received, inferred, reply, ctxDone>>
Cancel ==
    /\ consumer = "stop" /\ ~cancelled
    /\ cancelled' = TRUE
    /\ UNCHANGED <<producerVars, callerVars, ctxDone>>

(* stop joins the producer and returns its verdict. *)
JoinIgnoringVerdict ==
    /\ consumer = "stop" /\ cancelled /\ doneCh # <<>>
    /\ consumer' = "returned"
    /\ reply' = IF reply = "none" THEN "vectors" ELSE reply
    /\ UNCHANGED <<producerVars, received, inferred, ctxDone, cancelled>>
Join ==
    /\ consumer = "stop" /\ cancelled /\ doneCh # <<>>
    /\ consumer' = "returned"
    /\ reply' = IF reply # "none" THEN reply
                ELSE IF doneCh[1] = "nil" THEN "vectors" ELSE doneCh[1]
    /\ UNCHANGED <<producerVars, received, inferred, ctxDone, cancelled>>

CtxCancelled ==
    /\ ~ctxDone /\ ctxDone' = TRUE
    /\ UNCHANGED <<producerVars, callerVars, cancelled>>

PipeSteps == Produce \/ HandOver \/ SelectStopped \/ CloseItems \/ Infer \/ RangeEnds \/ Cancel \/ Join
PipeNext == PipeSteps \/ CtxCancelled

PipeTypeOK ==
    /\ producer \in {"produce", "select", "close", "ended"}
    /\ consumer \in {"range", "check", "stop", "returned"}
    /\ offered \in 0..MaxChunks /\ received \in 0..MaxChunks
    /\ produced \in 0..MaxChunks /\ Len(inferred) <= MaxChunks /\ Len(doneCh) <= 1

(* embedFixedPipeline returns vectors only for the whole call, in order:   *)
(* a producer that ended early, with an error or a cancelled context,      *)
(* never passes for the end of the input (pipeline.go:100, :119).          *)
VectorsAreWhole ==
    reply = "vectors" => inferred = [i \in 1..MaxChunks |-> i]

(* When the call has returned, and so released the embedder's lock, the    *)
(* producer no longer touches the tokenizer Close may drop; and it is      *)
(* never more than one chunk ahead of the inference (pipeline.go:45, :59). *)
ProducerJoined ==
    /\ consumer = "returned" => producer \in {"close", "ended"}
    /\ produced <= Len(inferred) + 2

(* No cancellation or failure leaves the caller and the producer waiting   *)
(* for each other: unless a step is possible both have ended               *)
(* (pipeline.go:45, :62, :100).                                            *)
PipelineNeverStuck ==
    part = "pipeline" /\ ~ENABLED PipeSteps => consumer = "returned" /\ producer = "ended"

(* The pipelined EmbedDocuments returns the vectors of the whole call or an  *)
(* error, and leaves no producer behind, in every interleaving with failures *)
(* and cancellation (pipeline.go:45-119).                                    *)
BatchesWhole ==
    /\ PipeTypeOK
    /\ VectorsAreWhole
    /\ ProducerJoined
=============================================================================

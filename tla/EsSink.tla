-------------------------------- MODULE EsSink --------------------------------
(***************************************************************************)
(* The es-sink service: documents that are ingested go to a work-queue     *)
(* stream; the consumer hands them to the module's loop over a channel and *)
(* acknowledges them; the loop gives them to the bulk indexer; documents   *)
(* refused for too many requests go back to the loop over another channel. *)
(*                                                                         *)
(* A batch of an indexer's worker is one document: its failures are        *)
(* handled one after the other anyway.                                     *)
(***************************************************************************)
EXTENDS Naturals, FiniteSets, Sequences

CONSTANTS Docs,
          BulkWorker,   \* workers of the bulk indexer
          InputCap,     \* capacity of inputChan
          RetryCap,     \* capacity of retryChan
          QueueCap,     \* capacity of the indexer's queue
          MaxDeliver    \* bound: deliveries of a message

ASSUME SinkAssumption ==
    /\ "none" \notin Docs
    /\ InputCap \in Nat /\ RetryCap \in Nat /\ QueueCap \in Nat \ {0} /\ MaxDeliver \in Nat

VARIABLES
    accepted,    \* documents the client was not told have failed
    stream,      \* messages that are not acknowledged
    delivered,   \* delivered[d]: deliveries so far
    handler,     \* the callback of the consumer: [pc, doc]
    inputChan, retryChan,
    inHand,      \* the document the loop adds to the indexer, or none
    queue,       \* the indexer's queue
    worker,      \* worker[w]: [pc, doc]
    settled      \* a ghost: documents of which a copy has come to an end the code knows

sinkMemory == <<handler, inputChan, retryChan, inHand, queue, worker>>
sinkVars == <<accepted, stream, delivered, sinkMemory, settled>>

NoDoc == "none"
Free == [pc |-> "idle", doc |-> NoDoc]
At(step, d) == [pc |-> step, doc |-> d]
InSeq(q) == {q[k] : k \in DOMAIN q}
InMemory == ({handler.doc, inHand} \cup InSeq(inputChan) \cup InSeq(retryChan) \cup InSeq(queue)
             \cup {worker[w].doc : w \in BulkWorker}) \ {NoDoc}

SinkInit ==
    /\ accepted = {} /\ stream = {}
    /\ delivered = [d \in Docs |-> 0]
    /\ handler = Free /\ inputChan = <<>> /\ retryChan = <<>> /\ inHand = NoDoc /\ queue = <<>>
    /\ worker = [w \in BulkWorker |-> Free]
    /\ settled = {}

End(d) == settled' = settled \cup {d}

---------------------------------------------------------------------------
(* Ingest, over HTTP and gRPC, and the stream. *)

Ingest(d) ==
    /\ d \notin accepted
    /\ accepted' = accepted \cup {d}
    /\ stream' = stream \cup {d}
    /\ UNCHANGED <<delivered, sinkMemory, settled>>

\* The document cannot be stored (the stream is full, or cannot be reached): the gRPC handler
\* does not look at the failed documents.
IngestUnstored(d) ==
    /\ d \notin accepted
    /\ accepted' = accepted \cup {d}
    /\ End(d)
    /\ UNCHANGED <<stream, delivered, sinkMemory>>

\* MaxAge: two days in the stream.
Expire(d) ==
    /\ d \in stream
    /\ stream' = stream \ {d}
    /\ End(d)
    /\ UNCHANGED <<accepted, delivered, sinkMemory>>

---------------------------------------------------------------------------
(* ConsumeCycle: one callback at a time. *)

\* A message that is not acknowledged in time comes again.
Deliver(d) ==
    /\ d \in stream /\ handler = Free /\ delivered[d] < MaxDeliver
    /\ delivered' = [delivered EXCEPT ![d] = @ + 1]
    /\ handler' = At("queue", d)
    /\ UNCHANGED <<accepted, stream, inputChan, retryChan, inHand, queue, worker, settled>>

QueueDoc ==
    /\ handler.pc = "queue" /\ Len(inputChan) < InputCap
    /\ inputChan' = Append(inputChan, handler.doc)
    /\ handler' = At("ack", handler.doc)
    /\ UNCHANGED <<accepted, stream, delivered, retryChan, inHand, queue, worker, settled>>

\* The acknowledgement may fail.
Ack ==
    /\ handler.pc = "ack"
    /\ stream' \in {stream, stream \ {handler.doc}}
    /\ handler' = Free
    /\ UNCHANGED <<accepted, delivered, inputChan, retryChan, inHand, queue, worker, settled>>

---------------------------------------------------------------------------
(* Start: the loop, which is the only one to take from the channels. *)

\* The index exists, or could be created.
TakeInput ==
    /\ inHand = NoDoc /\ inputChan # <<>>
    /\ inHand' = Head(inputChan) /\ inputChan' = Tail(inputChan)
    /\ UNCHANGED <<accepted, stream, delivered, handler, retryChan, queue, worker, settled>>

\* The index is missing and cannot be created, or the document not be marshaled.
SkipInput ==
    /\ inHand = NoDoc /\ inputChan # <<>>
    /\ inputChan' = Tail(inputChan)
    /\ End(Head(inputChan))
    /\ UNCHANGED <<accepted, stream, delivered, handler, retryChan, inHand, queue, worker>>

\* Mutant: the retries are looked at in the case of the input only.
TakeRetryWithInput ==
    /\ inHand = NoDoc /\ retryChan # <<>> /\ inputChan # <<>>
    /\ inHand' = Head(retryChan) /\ retryChan' = Tail(retryChan)
    /\ UNCHANGED <<accepted, stream, delivered, handler, inputChan, queue, worker, settled>>

TakeRetry ==
    /\ inHand = NoDoc /\ retryChan # <<>>
    /\ inHand' = Head(retryChan) /\ retryChan' = Tail(retryChan)
    /\ UNCHANGED <<accepted, stream, delivered, handler, inputChan, queue, worker, settled>>

\* indexer.Add waits for room.
Add ==
    /\ inHand # NoDoc /\ Len(queue) < QueueCap
    /\ queue' = Append(queue, inHand) /\ inHand' = NoDoc
    /\ UNCHANGED <<accepted, stream, delivered, handler, inputChan, retryChan, worker, settled>>

---------------------------------------------------------------------------
(* The bulk indexer's workers, which call handleFailure themselves. *)

Collect(w) ==
    /\ worker[w] = Free /\ queue # <<>>
    /\ worker' = [worker EXCEPT ![w] = At("flush", Head(queue))]
    /\ queue' = Tail(queue)
    /\ UNCHANGED <<accepted, stream, delivered, handler, inputChan, retryChan, inHand, settled>>

Index(w) ==
    /\ worker[w].pc = "flush"
    /\ worker' = [worker EXCEPT ![w] = Free]
    /\ End(worker[w].doc)
    /\ UNCHANGED <<accepted, stream, delivered, handler, inputChan, retryChan, inHand, queue>>

\* Refused for another reason, or the whole request failed: it is logged.
Refuse(w) ==
    /\ worker[w].pc = "flush"
    /\ worker' = [worker EXCEPT ![w] = Free]
    /\ End(worker[w].doc)
    /\ UNCHANGED <<accepted, stream, delivered, handler, inputChan, retryChan, inHand, queue>>

TooManyRequests(w) ==
    /\ worker[w].pc = "flush"
    /\ worker' = [worker EXCEPT ![w].pc = "refused"]
    /\ UNCHANGED <<accepted, stream, delivered, handler, inputChan, retryChan, inHand, queue, settled>>

\* Mutant: a worker does not wait for room in the channel.
RetryOrDrop(w) ==
    /\ worker[w].pc = "refused"
    /\ retryChan' = IF Len(retryChan) < RetryCap THEN Append(retryChan, worker[w].doc) ELSE retryChan
    /\ worker' = [worker EXCEPT ![w] = Free]
    /\ UNCHANGED <<accepted, stream, delivered, handler, inputChan, inHand, queue, settled>>

\* After five seconds; the worker waits for room in the channel.
Retry(w) ==
    /\ worker[w].pc = "refused" /\ Len(retryChan) < RetryCap
    /\ retryChan' = Append(retryChan, worker[w].doc)
    /\ worker' = [worker EXCEPT ![w] = Free]
    /\ UNCHANGED <<accepted, stream, delivered, handler, inputChan, inHand, queue, settled>>

---------------------------------------------------------------------------
\* The process ends, or its context: what it holds is gone.
StopSink ==
    /\ InMemory # {}
    /\ handler' = Free /\ inputChan' = <<>> /\ retryChan' = <<>> /\ inHand' = NoDoc /\ queue' = <<>>
    /\ worker' = [w \in BulkWorker |-> Free]
    /\ settled' = settled \cup (InMemory \ stream)
    /\ UNCHANGED <<accepted, stream, delivered>>

WorkerStep(w) == Collect(w) \/ Index(w) \/ Refuse(w) \/ TooManyRequests(w) \/ Retry(w)

SinkNext ==
    \/ \E d \in Docs : Ingest(d) \/ IngestUnstored(d) \/ Expire(d) \/ Deliver(d)
    \/ QueueDoc \/ Ack \/ TakeInput \/ SkipInput \/ TakeRetry \/ Add
    \/ \E w \in BulkWorker : WorkerStep(w)
    \/ StopSink

---------------------------------------------------------------------------
SinkTypeOK ==
    /\ accepted \in SUBSET Docs /\ stream \in SUBSET Docs
    /\ delivered \in [Docs -> Nat]
    /\ handler \in [pc : {"idle", "queue", "ack"}, doc : Docs \cup {NoDoc}]
    /\ inputChan \in Seq(Docs) /\ retryChan \in Seq(Docs) /\ queue \in Seq(Docs)
    /\ inHand \in Docs \cup {NoDoc}
    /\ worker \in [BulkWorker -> [pc : {"idle", "flush", "refused"}, doc : Docs \cup {NoDoc}]]
    /\ settled \in SUBSET Docs

\* A document the client believes to be ingested is never just gone: it is in the stream or
\* in the process, or it was indexed or refused, or lost in a way the code allows (the gRPC
\* handler that hides the failure, two days in the stream, an acknowledged document in the
\* memory of a process that ends).
AcceptedIsAccounted == accepted \subseteq stream \cup InMemory \cup settled

\* All workers wait for room in retryChan, and the loop, the only reader, for the workers.
Stuck ==
    /\ \A w \in BulkWorker : worker[w].pc = "refused"
    /\ Len(retryChan) = RetryCap
    /\ inHand # NoDoc /\ Len(queue) = QueueCap

\* A document that waits to be retried leaves the process in the end, unless the service
\* locks up, however often it is refused as long as that is not for ever.
RetriedEnds ==
    \A d \in Docs : (d \in InSeq(retryChan)) ~> (d \notin InMemory \/ Stuck)
=============================================================================

---------------------------- MODULE OutboxProcessor ----------------------------
(***************************************************************************)
(* The ontology outbox: the services insert events into ontology_outbox,   *)
(* and any number of ontologyworker processes drain it, batch by batch,    *)
(* into a stream and a triple store.  A batch is one transaction: SELECT   *)
(* .. FOR UPDATE SKIP LOCKED, then for each row the two sinks and an       *)
(* UPDATE, then COMMIT.  The sinks are not part of the transaction.        *)
(*                                                                         *)
(* A worker that meets an error rolls back and its process exits; whoever  *)
(* runs the process (systemd, Docker) starts it again.  The transaction,   *)
(* and with it the row locks, may also end under a worker that goes on: it *)
(* learns of it from its next statement.  A poll that finds nothing to     *)
(* lock changes nothing and is not a step.                                 *)
(***************************************************************************)
EXTENDS Naturals, Sequences, FiniteSets

CONSTANTS
    Event,       \* the events the services may emit
    Worker,      \* the ontologyworker processes
    BatchSize,   \* LIMIT of the SELECT
    MaxStamp,    \* bound: created_at is one of 1..MaxStamp
    MaxFaults,   \* bound: how many things go wrong
    Rejecting    \* may the triple store answer with an error status?

ASSUME WorkerAssumption == IsFiniteSet(Worker)
ASSUME BatchAssumption == BatchSize \in Nat \ {0}
ASSUME BoundsAssumption ==
    MaxStamp \in Nat \ {0} /\ MaxFaults \in Nat /\ Rejecting \in BOOLEAN

VARIABLES
    rows,      \* table ontology_outbox, as committed: is the event queued, delivered?
    createdAt, \* its column created_at
    worker,    \* where each worker is
    published, \* how often an event reached the stream
    posted,    \* how often it was POSTed to the triple store
    graph,     \* the events the triple store took in
    faults     \* how many things went wrong so far

sinks == <<published, posted, graph>>
table == <<rows, createdAt>>
vars == <<rows, createdAt, worker, published, posted, graph, faults>>

Serving == {"publish", "insert", "answer", "mark"}
InBatch == Serving \cup {"commit"}
Phase == InBatch \cup {"polling", "dead", "down"}
Batches == UNION {[1..n -> Event] : n \in 0..BatchSize}
Batch(b) == {b[i] : i \in DOMAIN b}
(* tx: the worker's transaction is alive, in its database session.         *)
WorkerState == [phase : Phase, batch : Batches, next : Nat, tx : BOOLEAN]

TypeOK ==
    /\ rows \in [Event -> {"absent", "queued", "delivered", "lost"}]
    /\ createdAt \in [Event -> 0..MaxStamp]
    /\ worker \in [Worker -> WorkerState]
    /\ \A w \in Worker : worker[w].phase \in Serving
                        => worker[w].next \in DOMAIN worker[w].batch
    /\ published \in [Event -> Nat] /\ posted \in [Event -> Nat]
    /\ graph \subseteq Event
    /\ faults \in Nat

Polling == [phase |-> "polling", batch |-> <<>>, next |-> 1, tx |-> FALSE]
Down == [phase |-> "down", batch |-> <<>>, next |-> 1, tx |-> FALSE]

Init ==
    /\ rows = [e \in Event |-> "absent"]
    /\ createdAt = [e \in Event |-> 0]
    /\ worker = [w \in Worker |-> Polling]
    /\ published = [e \in Event |-> 0] /\ posted = [e \in Event |-> 0]
    /\ graph = {}
    /\ faults = 0

-----------------------------------------------------------------------------
(* Emission.                                                               *)

(* created_at is the emitting process's clock before the INSERT: the order *)
(* of the column is not the order in which rows appear.                    *)
Emit(e) ==
    /\ rows[e] = "absent"
    /\ rows' = [rows EXCEPT ![e] = "queued"]
    /\ \E t \in 1..MaxStamp : createdAt' = [createdAt EXCEPT ![e] = t]
    /\ UNCHANGED <<worker, sinks, faults>>

GoesWrong == faults < MaxFaults /\ faults' = faults + 1

(* Every caller drops Emit's error, and the event with it.                 *)
EmitFails(e) ==
    /\ rows[e] = "absent" /\ GoesWrong
    /\ rows' = [rows EXCEPT ![e] = "lost"]
    /\ UNCHANGED <<createdAt, worker, sinks>>

-----------------------------------------------------------------------------
(* A worker's batch.                                                       *)

At(w, phase) == worker[w].phase = phase
Becomes(w, s) == worker' = [worker EXCEPT ![w] = s]
Current(w) == worker[w].batch[worker[w].next]
(* The rows its transaction has locked.                                    *)
Held(w) == IF worker[w].tx THEN Batch(worker[w].batch) ELSE {}
CutOff(w) == worker[w].phase \in InBatch /\ ~worker[w].tx
Marked(w) == {worker[w].batch[i] : i \in 1..worker[w].next - 1}

(* Rows that a SELECT of the moment may lock: READ COMMITTED tests the     *)
(* WHERE clause again on the row it locks.                                 *)
(* Mutant: FOR UPDATE SKIP LOCKED is forgotten.                            *)
FreeUnlocked == {e \in Event : rows[e] = "queued"}
Free == {e \in Event : rows[e] = "queued" /\ \A w \in Worker : e \notin Held(w)}

InOrder(b) ==
    \A i, j \in DOMAIN b : i < j => b[i] # b[j] /\ createdAt[b[i]] <= createdAt[b[j]]

(* As many as there are, up to the limit.                                  *)
(* Mutant: a poll waits for a full batch.                                  *)
FullBatch(b) == Len(b) = BatchSize
Limited(b) == Len(b) = BatchSize \/ Batch(b) = Free

BeginBatch(w) ==
    /\ At(w, "polling")
    /\ \E b \in Batches :
          /\ b # <<>> /\ Batch(b) \subseteq Free /\ InOrder(b) /\ Limited(b)
          /\ \A e \in Free \ Batch(b) : createdAt[b[Len(b)]] <= createdAt[e]
          /\ Becomes(w, [phase |-> "publish", batch |-> b, next |-> 1,
                        tx |-> TRUE])
    /\ UNCHANGED <<table, sinks, faults>>

(* Mutant: the stream is not configured.                                   *)
PublishSkipped(w) ==
    /\ At(w, "publish")
    /\ Becomes(w, [worker[w] EXCEPT !.phase = "insert"])
    /\ UNCHANGED <<table, sinks, faults>>
(* Mutant: a row that reached the stream is done.                          *)
PublishOnly(w) ==
    /\ At(w, "publish")
    /\ published' = [published EXCEPT ![Current(w)] = @ + 1]
    /\ Becomes(w, [worker[w] EXCEPT !.phase = "mark"])
    /\ UNCHANGED <<table, posted, graph, faults>>
Publish(w) ==
    /\ At(w, "publish")
    /\ published' = [published EXCEPT ![Current(w)] = @ + 1]
    /\ Becomes(w, [worker[w] EXCEPT !.phase = "insert"])
    /\ UNCHANGED <<table, posted, graph, faults>>

(* The POST reaches the triple store; its answer may never come.           *)
Insert(w) ==
    /\ At(w, "insert")
    /\ posted' = [posted EXCEPT ![Current(w)] = @ + 1]
    /\ \/ graph' = graph \cup {Current(w)}
       \/ Rejecting /\ UNCHANGED graph
    /\ Becomes(w, [worker[w] EXCEPT !.phase = "answer"])
    /\ UNCHANGED <<table, published, faults>>

(* Insert does not look at the status of the answer.                       *)
Answer(w) ==
    /\ At(w, "answer")
    /\ Becomes(w, [worker[w] EXCEPT !.phase = "mark"])
    /\ UNCHANGED <<table, sinks, faults>>

(* The UPDATE is seen by others once the transaction commits.              *)
(* Mutant: the loop runs one row too far.                                  *)
MarkRunsOver(w) ==
    /\ At(w, "mark") /\ worker[w].tx
    /\ LET s == worker[w] IN
       Becomes(w, [s EXCEPT !.next = @ + 1,
                            !.phase = IF s.next > Len(s.batch) THEN "commit"
                                      ELSE "publish"])
    /\ UNCHANGED <<table, sinks, faults>>
Mark(w) ==
    /\ At(w, "mark") /\ worker[w].tx
    /\ LET s == worker[w] IN
       Becomes(w, [s EXCEPT !.next = @ + 1,
                            !.phase = IF s.next = Len(s.batch) THEN "commit"
                                      ELSE "publish"])
    /\ UNCHANGED <<table, sinks, faults>>

(* A COMMIT that took effect, and whose reply may be lost.                 *)
Commit(w) ==
    /\ At(w, "commit") /\ worker[w].tx
    /\ rows' = [e \in Event |-> IF e \in Marked(w) THEN "delivered" ELSE rows[e]]
    /\ \/ Becomes(w, Polling) /\ UNCHANGED faults
       \/ Becomes(w, Down) /\ GoesWrong
    /\ UNCHANGED <<createdAt, sinks>>

(* The UPDATE or the COMMIT of a transaction that is gone is an error, and *)
(* Run returns it.                                                         *)
(* Mutant: the error of the UPDATE is dropped.                             *)
GivesUpLate(w) ==
    /\ CutOff(w) /\ At(w, "mark")
    /\ LET s == worker[w] IN
       Becomes(w, IF s.next = Len(s.batch) THEN Down
                  ELSE [s EXCEPT !.next = @ + 1, !.phase = "publish"])
    /\ UNCHANGED <<table, sinks, faults>>
GivesUp(w) ==
    /\ CutOff(w) /\ worker[w].phase \in {"mark", "commit"}
    /\ Becomes(w, Down)
    /\ UNCHANGED <<table, sinks, faults>>

(* The server ends the session of a worker in its batch (a restart, a      *)
(* failover, a broken connection), or the context is cancelled and         *)
(* database/sql rolls back: the rows are free, and the worker goes on.     *)
LosesSession(w) ==
    /\ worker[w].phase \in InBatch /\ worker[w].tx
    /\ GoesWrong
    /\ Becomes(w, [worker[w] EXCEPT !.tx = FALSE])
    /\ UNCHANGED <<table, sinks>>

(* A statement or a sink fails, or the process is told to stop: what is    *)
(* left of the transaction is rolled back and Run returns.                 *)
Fail(w) ==
    /\ worker[w].phase \notin {"dead", "down"}
    /\ GoesWrong \/ (CutOff(w) /\ UNCHANGED faults)
    /\ Becomes(w, Down)
    /\ UNCHANGED <<table, sinks>>

(* A process that is killed leaves its locks to its database session.      *)
Crash(w) ==
    /\ worker[w].phase \in InBatch /\ worker[w].tx
    /\ GoesWrong
    /\ Becomes(w, [worker[w] EXCEPT !.phase = "dead"])
    /\ UNCHANGED <<table, sinks>>

(* The server notices and aborts the transaction.                          *)
SessionEnds(w) ==
    /\ At(w, "dead")
    /\ Becomes(w, Down)
    /\ UNCHANGED <<table, sinks, faults>>

Restart(w) ==
    /\ At(w, "down")
    /\ Becomes(w, Polling)
    /\ UNCHANGED <<table, sinks, faults>>

(* Every event that will be emitted has been dealt with, and every worker  *)
(* finds nothing to do.                                                    *)
Drained ==
    /\ \A e \in Event : rows[e] \in {"delivered", "lost"}
    /\ \A w \in Worker : At(w, "polling")
    /\ UNCHANGED vars

WorkerStep(w) ==
    \/ BeginBatch(w) \/ Publish(w) \/ Insert(w) \/ Mark(w) \/ Commit(w)
    \/ GivesUp(w) \/ SessionEnds(w) \/ Restart(w)

WorkerNext(w) ==
    WorkerStep(w) \/ Answer(w) \/ LosesSession(w) \/ Fail(w) \/ Crash(w)

Next ==
    \/ \E e \in Event : Emit(e) \/ EmitFails(e)
    \/ \E w \in Worker : WorkerNext(w)
    \/ Drained

Spec == Init /\ [][Next]_vars

(* A worker keeps polling and serves its batch, a killed worker's session  *)
(* ends, and the supervisor starts the worker again.  Not the answer to a  *)
(* POST: http.Client has no timeout and Run's context no deadline.         *)
FairSpec == Spec /\ \A w \in Worker : WF_vars(WorkerStep(w))

-----------------------------------------------------------------------------
(* Properties.                                                             *)

(* Workers do not duplicate each other's work: an event reaches the stream *)
(* once, and once more for every failure or crash there was.  Neither two  *)
(* workers polling at the same time nor the re-reading of a row another    *)
(* worker has just committed adds a copy.                                  *)
CopiesNeedFaults ==
    \A e \in Event : published[e] <= 1 + faults

(* The graph never knows an event that the stream does not: the triple     *)
(* store comes second, on the first delivery and on every repetition.      *)
StreamFirst ==
    \A e \in Event : posted[e] <= published[e]

(* What a worker waits for when it waits for ever, holding e.              *)
HangsWith(w, e) == <>[](At(w, "answer") /\ e \in Held(w))
AllHang == \A w \in Worker : <>[]At(w, "answer")

(* Whatever was rolled back, cut off or killed on the way (finitely often: *)
(* MaxFaults), a queued event stays undelivered for one reason only: the   *)
(* triple store never answers a worker that holds it, or any worker.       *)
EveryEventDelivered ==
    \A e \in Event :
        <>[](rows[e] = "queued") => (\E w \in Worker : HangsWith(w, e)) \/ AllHang

(* Towards each sink the workers are an at-least-once channel: delivered   *)
(* rows were sent, and a delivered row is sent again only by a worker      *)
(* whose transaction ended with that row in hand before it was delivered.  *)
Accepted == {e \in Event : rows[e] \in {"queued", "delivered"}}
Settled == {e \in Event : rows[e] = "delivered"}
InHand(e, phases) ==
    {w \in Worker : worker[w].phase \in phases /\ CutOff(w) /\ Current(w) = e}
StreamStrays == [e \in Event |-> Cardinality(InHand(e, {"publish"}))]
TripleStoreStrays ==
    [e \in Event |-> Cardinality(InHand(e, {"publish", "insert"}))]
Stream == INSTANCE AtLeastOnce WITH
    accepted <- Accepted, sent <- published, settled <- Settled,
    stray <- StreamStrays
TripleStore == INSTANCE AtLeastOnce WITH
    accepted <- Accepted, sent <- posted, settled <- Settled,
    stray <- TripleStoreStrays
StreamSpec == Stream!ChannelSpec
TripleStoreSpec == TripleStore!ChannelSpec

-----------------------------------------------------------------------------
(* What the documentation says, and the code does not do.                  *)

(* ONTOLOGY_PIPELINE.md: SKIP LOCKED "prevents duplicate deliveries".  It  *)
(* keeps workers apart; a batch that is rolled back has been sent already. *)
NoDuplicateDelivery ==
    \A e \in Event : published[e] <= 1

(* ONTOLOGY_PIPELINE.md: "The outbox + worker guarantees delivery to Kafka *)
(* and the triple store."  An error status of the endpoint counts as       *)
(* delivered.                                                              *)
DeliveredIsInGraph ==
    Settled \subseteq graph
=============================================================================

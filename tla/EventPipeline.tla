---------------------------- MODULE EventPipeline ----------------------------
(***************************************************************************)
(* From a committed row to the sinks: the domain services, the emitters    *)
(* and the workers of OutboxProcessor together.  A call of CreateSession   *)
(* or RecordMatch saves a row, builds its event and hands it to the        *)
(* FanoutEmitter: first the outbox, in a statement of its own, then the    *)
(* log.  The emitter's error is dropped; the call has succeeded.           *)
(*                                                                         *)
(* Each event is that of one call.                                         *)
(***************************************************************************)
EXTENDS OutboxProcessor

CONSTANT Unmarshalable \* events that json.Marshal refuses: an infinite score

ASSUME UnmarshalableAssumption == Unmarshalable \subseteq Event
ASSUME EventAssumption == IsFiniteSet(Event)

VARIABLES
    call,   \* where the call of each event is
    saved,  \* the business rows that are committed
    logged, \* the events the JSONEmitter has logged
    mishaps \* how many things went wrong in the services, emission apart

service == <<call, saved, logged, mishaps>>
pipeline == <<vars, service>>

Calling == {"save", "outbox", "log"}
Over == {"succeeded", "failed", "crashed"}

PipelineTypeOK ==
    /\ call \in [Event -> {"idle"} \cup Calling \cup Over]
    /\ saved \subseteq Event /\ logged \subseteq Event
    /\ mishaps \in Nat
    /\ \A e \in Event : call[e] \in {"idle", "save", "outbox"} => rows[e] = "absent"

PipelineInit ==
    /\ Init
    /\ call = [e \in Event |-> "idle"]
    /\ saved = {} /\ logged = {}
    /\ mishaps = 0

CallAt(e, step) == call[e] = step
CallGoes(e, step) == call' = [call EXCEPT ![e] = step]
Mishap == mishaps < MaxFaults /\ mishaps' = mishaps + 1

BeginCall(e) ==
    /\ CallAt(e, "idle")
    /\ CallGoes(e, "save")
    /\ UNCHANGED <<vars, saved, logged, mishaps>>

(* The repository's statement, which may take effect and report an error:  *)
(* then the service returns, and builds no event.                          *)
(* Mutant: the service emits whatever the repository returned.             *)
SaveRegardless(e) ==
    /\ CallAt(e, "save")
    /\ CallGoes(e, "outbox")
    /\ \/ saved' = saved \cup {e} /\ UNCHANGED mishaps
       \/ UNCHANGED saved /\ Mishap
    /\ UNCHANGED <<vars, logged>>
Save(e) ==
    /\ CallAt(e, "save")
    /\ \/ saved' = saved \cup {e} /\ CallGoes(e, "outbox") /\ UNCHANGED mishaps
       \/ saved' = saved \cup {e} /\ CallGoes(e, "failed") /\ Mishap
       \/ UNCHANGED saved /\ CallGoes(e, "failed") /\ Mishap
    /\ UNCHANGED <<vars, logged>>

(* The OutboxEmitter: marshal and insert.  An INSERT that took effect may  *)
(* report an error as well.                                                *)
(* Mutant: the services have been given the NopEmitter.                    *)
EnqueueNothing(e) ==
    /\ CallAt(e, "outbox") /\ e \notin Unmarshalable
    /\ CallGoes(e, "succeeded")
    /\ UNCHANGED <<vars, saved, logged, mishaps>>
(* Mutant: the emitter tries again when the INSERT reports an error.        *)
EnqueueAgain(e) ==
    /\ CallAt(e, "outbox") /\ e \notin Unmarshalable
    /\ Emit(e)
    /\ \/ CallGoes(e, "log") /\ UNCHANGED mishaps
       \/ CallGoes(e, "outbox") /\ Mishap
    /\ UNCHANGED <<saved, logged>>
Enqueue(e) ==
    /\ CallAt(e, "outbox") /\ e \notin Unmarshalable
    /\ Emit(e)
    /\ \/ CallGoes(e, "log") /\ UNCHANGED mishaps
       \/ CallGoes(e, "succeeded") /\ Mishap
    /\ UNCHANGED <<saved, logged>>

(* FanoutEmitter stops at the first error, and the service drops it.       *)
EnqueueFails(e) ==
    /\ CallAt(e, "outbox") /\ e \notin Unmarshalable
    /\ EmitFails(e)
    /\ CallGoes(e, "succeeded")
    /\ UNCHANGED <<saved, logged, mishaps>>

(* An event without a form is refused before the INSERT, every time.       *)
MarshalFails(e) ==
    /\ CallAt(e, "outbox") /\ e \in Unmarshalable
    /\ CallGoes(e, "succeeded")
    /\ UNCHANGED <<vars, saved, logged, mishaps>>

(* The JSONEmitter after it.                                               *)
Log(e) ==
    /\ CallAt(e, "log")
    /\ logged' = logged \cup {e}
    /\ CallGoes(e, "succeeded")
    /\ UNCHANGED <<vars, saved, mishaps>>

(* The API process dies, between any two steps of the calls it serves: of  *)
(* all that are under way, of some if there are several processes, of one  *)
(* if it is the call that panics.                                          *)
ServiceCrash ==
    /\ Mishap
    /\ \E dead \in SUBSET {e \in Event : call[e] \in Calling} :
          /\ dead # {}
          /\ call' = [e \in Event |-> IF e \in dead THEN "crashed" ELSE call[e]]
    /\ UNCHANGED <<vars, saved, logged>>

CallStep(e) == Save(e) \/ Enqueue(e) \/ EnqueueFails(e) \/ MarshalFails(e) \/ Log(e)

(* Every call is over, and every worker finds nothing to do.               *)
PipelineDrained ==
    /\ \A e \in Event : call[e] \in Over /\ rows[e] # "queued"
    /\ \A w \in Worker : At(w, "polling")
    /\ UNCHANGED pipeline

PipelineNext ==
    \/ \E e \in Event : BeginCall(e) \/ CallStep(e)
    \/ ServiceCrash
    \/ (\E w \in Worker : WorkerNext(w)) /\ UNCHANGED service
    \/ PipelineDrained

PipelineSpec == PipelineInit /\ [][PipelineNext]_pipeline

(* As FairSpec, and a call that has begun goes on.                         *)
PipelineFairSpec ==
    /\ PipelineSpec
    /\ \A w \in Worker : WF_pipeline(WorkerStep(w) /\ UNCHANGED service)
    /\ \A e \in Event : WF_pipeline(CallStep(e))

-----------------------------------------------------------------------------
(* Properties.                                                             *)

(* The sinks and the log never hear of a row that does not exist: an event *)
(* follows its row's commit, and the log follows the outbox.               *)
EventsFollowRows ==
    /\ \A e \in Event : published[e] > 0 => e \in saved
    /\ logged \subseteq Accepted

(* A committed row whose call is over without an event in the outbox.      *)
Missing ==
    {e \in saved \ Unmarshalable : call[e] \in Over /\ rows[e] \notin {"queued", "delivered"}}

(* Those whose caller was answered: one row for each thing that failed, at *)
(* most.  Only the death of a process loses several events at once, those  *)
(* of all the rows it has saved and not announced, and then no caller got  *)
(* an answer.                                                              *)
Unannounced == {e \in Missing : call[e] # "crashed"}
MissingNeedsFault ==
    Cardinality(Unannounced) <= faults + mishaps

(* End to end: the event of every committed row is delivered, its emission *)
(* went wrong, or the triple store never answers a worker that holds it,   *)
(* or any worker.                                                          *)
EveryRowDelivered ==
    \A e \in Event \ Unmarshalable :
        <>[](e \in saved /\ rows[e] # "delivered" /\ e \notin Missing)
        => (\E w \in Worker : HangsWith(w, e)) \/ AllHang
=============================================================================

---------------------------- MODULE PipelineProofs ----------------------------
(***************************************************************************)
(* From row to sinks, for any number of calls, workers and failures: the   *)
(* pipeline implements OutboxProcessor, whose theorems it inherits, and    *)
(* the events follow the rows.                                             *)
(***************************************************************************)
EXTENDS EventPipeline, OutboxProofs

-----------------------------------------------------------------------------
(* The pipeline is an outbox.                                              *)

LEMMA PipelineStep == [PipelineNext]_pipeline => [Next]_vars
<1> SUFFICES ASSUME [PipelineNext]_pipeline
             PROVE  [Next]_vars
  OBVIOUS
<1>1. CASE UNCHANGED pipeline
  BY <1>1 DEF pipeline
<1>2. ASSUME NEW e \in Event, BeginCall(e) \/ CallStep(e)
      PROVE  [Next]_vars
  <2>1. UNCHANGED vars \/ Emit(e) \/ EmitFails(e)
    BY <1>2 DEF BeginCall, CallStep, Save, Enqueue, EnqueueFails, MarshalFails, Log
  <2> QED  BY <2>1 DEF Next
<1>3. CASE \E w \in Worker : WorkerNext(w)
  BY <1>3 DEF Next
<1>4. CASE PipelineDrained \/ ServiceCrash
  BY <1>4 DEF PipelineDrained, ServiceCrash, pipeline
<1> QED  BY <1>1, <1>2, <1>3, <1>4 DEF PipelineNext

(* The composition is a behaviour of the outbox alone: the services do     *)
(* nothing to the outbox that its specification does not allow.            *)
THEOREM PipelineIsOutbox == PipelineSpec => Spec
<1>1. PipelineInit => Init
  BY DEF PipelineInit
<1> QED  BY <1>1, PipelineStep, PTL DEF PipelineSpec, Spec

(* Whatever the services do, towards each sink the pipeline is an          *)
(* at-least-once channel, with the exception it makes for workers that are *)
(* cut off, the stream first.                                              *)
THEOREM PipelineDelivers ==
    PipelineSpec => StreamSpec /\ TripleStoreSpec /\ []StreamFirst
BY PipelineIsOutbox, StreamImplemented, TripleStoreImplemented, StreamComesFirst

-----------------------------------------------------------------------------
(* The inductive invariant.                                                *)

(* What a call has behind it.                                              *)
Behind ==
    \A e \in Event :
        /\ call[e] = "outbox" => e \in saved
        /\ rows[e] # "absent" => e \in saved
        /\ call[e] = "log" => e \in Accepted
        /\ published[e] > 0 => e \in Accepted

PipelineInv ==
    PipelineTypeOK /\ Behind /\ logged \subseteq Accepted /\ MissingNeedsFault

(* A worker's step delivers rows that are queued, and publishes only rows  *)
(* that were.                                                              *)
LEMMA WorkersFollow ==
    ASSUME OutboxInv, NEW w \in Worker, WorkerNext(w)
    PROVE  /\ \A e \in Event :
              rows'[e] # rows[e] => rows[e] = "queued" /\ rows'[e] = "delivered"
           /\ \A e \in Event : published'[e] = published[e] \/ e \in Accepted
           /\ faults' \in {faults, faults + 1}
<1>0. faults \in Nat /\ published \in [Event -> Nat]
  BY DEF OutboxInv, TypeOK
<1>1. faults' \in {faults, faults + 1}
  BY <1>0 DEF WorkerNext, WorkerStep, BeginBatch, Publish, Insert, Answer, Mark, Commit,
              GivesUp, SessionEnds, Restart, LosesSession, Fail, Crash, GoesWrong
<1>2. CASE Publish(w)
  <2>1. Current(w) \in Accepted
    BY <1>2, CurrentRow DEF Publish, At, Serving
  <2>2. /\ rows' = rows
        /\ \A e \in Event : e = Current(w) \/ published'[e] = published[e]
    BY <1>0, <1>2 DEF Publish, table
  <2> QED  BY <1>1, <2>1, <2>2
<1>3. CASE Commit(w)
  <2>1. \A e \in Marked(w) : rows[e] = "queued"
    BY <1>3, Committing DEF Commit, At
  <2>2. /\ published' = published
        /\ \A e \in Event : rows'[e] = IF e \in Marked(w) THEN "delivered" ELSE rows[e]
    BY <1>3 DEF Commit, sinks
  <2> QED  BY <1>1, <2>1, <2>2
<1>4. CASE \/ BeginBatch(w) \/ Answer(w) \/ Mark(w) \/ GivesUp(w) \/ SessionEnds(w)
           \/ Restart(w) \/ Insert(w) \/ LosesSession(w) \/ Fail(w) \/ Crash(w)
  <2>1. rows' = rows /\ published' = published
    BY <1>4 DEF BeginBatch, Answer, Mark, GivesUp, SessionEnds, Restart, Insert,
                LosesSession, Fail, Crash, table, sinks
  <2> QED  BY <1>1, <2>1
<1> QED  BY <1>2, <1>3, <1>4 DEF WorkerNext, WorkerStep

(* Rows of answered callers without an event are finitely many.            *)
LEMMA UnannouncedFinite ==
    ASSUME PipelineTypeOK
    PROVE  IsFiniteSet(Unannounced)
<1>1. Unannounced \in SUBSET Event
  BY DEF Unannounced, Missing, PipelineTypeOK
<1> QED  BY <1>1, EventAssumption, FS_Subset

(* One more of them costs one more fault or mishap.                        *)
LEMMA OneMoreUnannounced ==
    ASSUME PipelineTypeOK, TypeOK, MissingNeedsFault, NEW e,
           Unannounced' \subseteq Unannounced \cup {e},
           \/ faults' = faults + 1 /\ mishaps' = mishaps
           \/ faults' = faults /\ mishaps' = mishaps + 1
    PROVE  MissingNeedsFault'
<1>1. IsFiniteSet(Unannounced)
  BY UnannouncedFinite
<1>2. /\ IsFiniteSet(Unannounced \cup {e})
      /\ Cardinality(Unannounced) \in Nat
      /\ Cardinality(Unannounced \cup {e}) \in Nat
      /\ Cardinality(Unannounced \cup {e}) <= Cardinality(Unannounced) + 1
  <2> DEFINE more == Unannounced \cup {e}
  <2>1. /\ IsFiniteSet(more) /\ Cardinality(Unannounced) \in Nat
        /\ Cardinality(more) = IF e \in Unannounced THEN Cardinality(Unannounced)
                               ELSE Cardinality(Unannounced) + 1
    BY <1>1, FS_AddElement, FS_CardinalityType
  <2> HIDE DEF more
  <2>2. Cardinality(more) \in Nat /\ Cardinality(more) <= Cardinality(Unannounced) + 1
    BY <2>1
  <2> QED  BY <2>1, <2>2 DEF more
<1>3. Cardinality(Unannounced') \in Nat /\ Cardinality(Unannounced') <= Cardinality(Unannounced \cup {e})
  <2>1. Unannounced' \in SUBSET (Unannounced \cup {e})
    OBVIOUS
  <2> QED  BY <1>2, <2>1, FS_Subset, FS_CardinalityType
<1>4. faults \in Nat /\ mishaps \in Nat /\ Cardinality(Unannounced) <= faults + mishaps
  BY DEF MissingNeedsFault, TypeOK, PipelineTypeOK
<1> DEFINE new == Cardinality(Unannounced')  old == Cardinality(Unannounced)
<1>5. new \in Nat /\ old \in Nat /\ new <= old + 1 /\ old <= faults + mishaps
  BY <1>2, <1>3, <1>4
<1> HIDE DEF new, old
<1>6. new <= faults' + mishaps'
  BY <1>4, <1>5
<1> QED  BY <1>6 DEF MissingNeedsFault, new

(* And without one there are no more.                                      *)
LEMMA NoMoreUnannounced ==
    ASSUME PipelineTypeOK, TypeOK, MissingNeedsFault, Unannounced' \subseteq Unannounced,
           faults' = faults \/ faults' = faults + 1,
           mishaps' = mishaps \/ mishaps' = mishaps + 1
    PROVE  MissingNeedsFault'
<1>1. IsFiniteSet(Unannounced)
  BY UnannouncedFinite
<1>2. /\ Cardinality(Unannounced) \in Nat /\ Cardinality(Unannounced') \in Nat
      /\ Cardinality(Unannounced') <= Cardinality(Unannounced)
  <2>1. Unannounced' \in SUBSET Unannounced
    OBVIOUS
  <2> QED  BY <1>1, <2>1, FS_Subset, FS_CardinalityType
<1>3. faults \in Nat /\ mishaps \in Nat /\ Cardinality(Unannounced) <= faults + mishaps
  BY DEF MissingNeedsFault, TypeOK, PipelineTypeOK
<1> DEFINE new == Cardinality(Unannounced')  old == Cardinality(Unannounced)
<1>4. new \in Nat /\ old \in Nat /\ new <= old /\ old <= faults + mishaps
  BY <1>2, <1>3
<1> HIDE DEF new, old
<1>5. new <= faults' + mishaps'
  BY <1>3, <1>4
<1> QED  BY <1>5 DEF MissingNeedsFault, new

-----------------------------------------------------------------------------
(* Every step preserves the invariant.                                     *)

LEMMA SaveKeeps ==
    ASSUME PipelineInv, TypeOK, NEW e \in Event,
           BeginCall(e) \/ Save(e) \/ MarshalFails(e) \/ Log(e)
    PROVE  PipelineInv'
<1>1. UNCHANGED vars
  BY DEF BeginCall, Save, MarshalFails, Log
<1>2. UNCHANGED <<rows, published, faults>> /\ Accepted' = Accepted
  BY <1>1 DEF vars, Accepted
<1>3. PipelineTypeOK'
  BY <1>2 DEF PipelineInv, PipelineTypeOK, BeginCall, Save, MarshalFails, Log,
              CallAt, CallGoes, Calling, Over, Mishap
<1>4. Behind'
  BY <1>2 DEF PipelineInv, PipelineTypeOK, Behind, BeginCall, Save, MarshalFails, Log,
              CallAt, CallGoes, Calling, Over, Mishap
<1>5. logged' \subseteq Accepted'
  BY <1>2 DEF PipelineInv, Behind, BeginCall, Save, MarshalFails, Log, CallAt
<1>6. MissingNeedsFault'
  <2>1. CASE mishaps' = mishaps + 1
    <3>1. Unannounced' \subseteq Unannounced \cup {e}
      BY <1>2 DEF PipelineInv, PipelineTypeOK, Unannounced, Missing, BeginCall, Save, MarshalFails, Log,
                  CallAt, CallGoes
    <3> QED  BY <1>2, <2>1, <3>1, OneMoreUnannounced DEF PipelineInv, PipelineTypeOK, TypeOK
  <2>2. CASE mishaps' = mishaps
    <3>1. Unannounced' \subseteq Unannounced
      BY <1>2, <2>2 DEF PipelineInv, PipelineTypeOK, Behind, Unannounced, Missing, Accepted, BeginCall, Save,
                  MarshalFails, Log, CallAt, CallGoes, Mishap, Over
    <3> QED  BY <1>2, <2>2, <3>1, NoMoreUnannounced DEF PipelineInv, PipelineTypeOK, TypeOK
  <2> QED  BY <2>1, <2>2 DEF BeginCall, Save, MarshalFails, Log, Mishap
<1> QED  BY <1>3, <1>4, <1>5, <1>6 DEF PipelineInv

(* Calls that die with their process have no caller left to tell.          *)
LEMMA CrashKeeps ==
    ASSUME PipelineInv, TypeOK, ServiceCrash
    PROVE  PipelineInv'
<1>1. /\ UNCHANGED <<rows, published, faults, saved, logged>> /\ Accepted' = Accepted
      /\ mishaps' = mishaps + 1
  BY DEF ServiceCrash, Mishap, vars, sinks, Accepted
<1>2. /\ call' \in [Event -> {"idle"} \cup Calling \cup Over]
      /\ \A e \in Event : call'[e] = call[e] \/ call'[e] = "crashed"
  BY DEF ServiceCrash, PipelineInv, PipelineTypeOK, Over
<1>3. PipelineTypeOK'
  BY <1>1, <1>2 DEF PipelineInv, PipelineTypeOK
<1>4. Behind'
  BY <1>1, <1>2 DEF PipelineInv, Behind
<1>5. MissingNeedsFault'
  <2>1. Unannounced' \subseteq Unannounced
    BY <1>1, <1>2 DEF PipelineInv, PipelineTypeOK, Unannounced, Missing
  <2> QED  BY <1>1, <2>1, NoMoreUnannounced DEF PipelineInv
<1> QED  BY <1>1, <1>3, <1>4, <1>5 DEF PipelineInv

LEMMA EnqueueKeeps ==
    ASSUME PipelineInv, TypeOK, NEW e \in Event, Enqueue(e) \/ EnqueueFails(e)
    PROVE  PipelineInv'
<1>1. /\ rows[e] = "absent" /\ rows'[e] \in {"queued", "lost"}
      /\ \A d \in Event \ {e} : rows'[d] = rows[d]
      /\ call[e] = "outbox" /\ \A d \in Event \ {e} : call'[d] = call[d]
      /\ UNCHANGED <<published, saved, logged>>
  BY DEF PipelineInv, PipelineTypeOK, TypeOK, Enqueue, EnqueueFails, Emit, EmitFails,
         CallAt, CallGoes, sinks
<1>2. \/ /\ rows'[e] = "queued" /\ call'[e] \in {"log", "succeeded"}
         /\ faults' = faults /\ mishaps' \in {mishaps, mishaps + 1}
      \/ /\ rows'[e] = "lost" /\ call'[e] = "succeeded"
         /\ faults' = faults + 1 /\ mishaps' = mishaps
  BY DEF PipelineInv, PipelineTypeOK, TypeOK, Enqueue, EnqueueFails, Emit, EmitFails,
         CallAt, CallGoes, GoesWrong, Mishap
<1>3. Accepted \subseteq Accepted' /\ (rows'[e] = "queued" => e \in Accepted')
  BY <1>1 DEF Accepted
<1>4. PipelineTypeOK'
  <2>1. call' \in [Event -> {"idle"} \cup Calling \cup Over]
    BY DEF PipelineInv, PipelineTypeOK, Enqueue, EnqueueFails, CallGoes, Calling, Over
  <2> QED  BY <1>1, <1>2, <2>1 DEF PipelineInv, PipelineTypeOK
<1>5. Behind'
  BY <1>1, <1>2, <1>3 DEF PipelineInv, Behind
<1>6. logged' \subseteq Accepted'
  BY <1>1, <1>3 DEF PipelineInv
<1>7. MissingNeedsFault'
  <2>1. CASE rows'[e] = "lost"
    <3>1. Unannounced' \subseteq Unannounced \cup {e}
      BY <1>1 DEF PipelineInv, PipelineTypeOK, Unannounced, Missing
    <3> QED  BY <1>2, <2>1, <3>1, OneMoreUnannounced DEF PipelineInv, PipelineTypeOK, TypeOK
  <2>2. CASE rows'[e] = "queued"
    <3>1. Unannounced' \subseteq Unannounced
      BY <1>1, <2>2 DEF PipelineInv, PipelineTypeOK, Unannounced, Missing
    <3> QED  BY <1>2, <2>2, <3>1, NoMoreUnannounced DEF PipelineInv, PipelineTypeOK, TypeOK
  <2> QED  BY <1>1, <2>1, <2>2
<1> QED  BY <1>4, <1>5, <1>6, <1>7 DEF PipelineInv

LEMMA WorkersKeep ==
    ASSUME PipelineInv, OutboxInv, NEW w \in Worker,
           WorkerNext(w), UNCHANGED service
    PROVE  PipelineInv'
<1>0. TypeOK
  BY DEF OutboxInv
<1>1. UNCHANGED <<call, saved, logged, mishaps>>
  BY DEF service
<1>2. /\ \A e \in Event :
              rows'[e] # rows[e] => rows[e] = "queued" /\ rows'[e] = "delivered"
      /\ \A e \in Event : published'[e] = published[e] \/ e \in Accepted
      /\ faults' \in {faults, faults + 1}
  BY WorkersFollow
<1>3. Accepted' = Accepted
  BY <1>2 DEF Accepted
<1>4. PipelineTypeOK'
  BY <1>1, <1>2 DEF PipelineInv, PipelineTypeOK
<1>5. Behind'
  BY <1>1, <1>2, <1>3 DEF PipelineInv, Behind, Accepted
<1>6. logged' \subseteq Accepted'
  BY <1>1, <1>3 DEF PipelineInv
<1>7. MissingNeedsFault'
  <2>1. Unannounced' \subseteq Unannounced
    BY <1>1, <1>2 DEF Unannounced, Missing, PipelineInv, PipelineTypeOK
  <2> QED  BY <1>0, <1>1, <1>2, <2>1, NoMoreUnannounced DEF PipelineInv
<1> QED  BY <1>4, <1>5, <1>6, <1>7 DEF PipelineInv

LEMMA PipelineInvInit == PipelineInit => PipelineInv
<1> SUFFICES ASSUME PipelineInit
             PROVE  PipelineInv
  OBVIOUS
<1>1. PipelineTypeOK /\ Behind /\ logged \subseteq Accepted
  BY DEF PipelineInit, Init, PipelineTypeOK, Behind, Accepted
<1>2. MissingNeedsFault
  <2>1. Unannounced = {} /\ faults + mishaps = 0
    BY DEF PipelineInit, Init, Unannounced, Missing
  <2> QED  BY <2>1, FS_EmptySet DEF MissingNeedsFault
<1> QED  BY <1>1, <1>2 DEF PipelineInv

LEMMA PipelineInvNext ==
    PipelineInv /\ OutboxInv /\ [PipelineNext]_pipeline => PipelineInv'
<1> SUFFICES ASSUME PipelineInv, OutboxInv, [PipelineNext]_pipeline
             PROVE  PipelineInv'
  OBVIOUS
<1>0. TypeOK
  BY DEF OutboxInv
<1>1. ASSUME NEW e \in Event, BeginCall(e) \/ CallStep(e)
      PROVE  PipelineInv'
  BY <1>0, <1>1, SaveKeeps, EnqueueKeeps DEF CallStep
<1>2. CASE (\E w \in Worker : WorkerNext(w)) /\ UNCHANGED service
  BY <1>2, WorkersKeep
<1>3. CASE UNCHANGED pipeline \/ PipelineDrained
  <2>1. UNCHANGED <<rows, published, faults, call, saved, logged, mishaps>>
    BY <1>3 DEF PipelineDrained, pipeline, vars, service, sinks
  <2>2. Accepted' = Accepted /\ Unannounced' = Unannounced
    BY <2>1 DEF Accepted, Unannounced, Missing
  <2>3. PipelineTypeOK' /\ Behind'
    BY <2>1, <2>2 DEF PipelineInv, PipelineTypeOK, Behind
  <2>4. (logged \subseteq Accepted)' /\ MissingNeedsFault'
    BY <2>1, <2>2 DEF PipelineInv, MissingNeedsFault
  <2> QED  BY <2>3, <2>4 DEF PipelineInv
<1> QED  BY <1>0, <1>1, <1>2, <1>3, CrashKeeps DEF PipelineNext

LEMMA PipelineInvariant == PipelineSpec => []PipelineInv
<1>1. PipelineSpec => []OutboxInv
  BY PipelineIsOutbox, OutboxInvariant
<1> QED  BY <1>1, PipelineInvInit, PipelineInvNext, PTL DEF PipelineSpec

(* A call, its row and its log entry keep their types, and the outbox has  *)
(* no row of a call that has not come to the emitter.                      *)
THEOREM PipelineTypeCorrect == PipelineSpec => []PipelineTypeOK
<1>1. PipelineInv => PipelineTypeOK
  BY DEF PipelineInv
<1> QED  BY <1>1, PipelineInvariant, PTL

(* No sink and no log hears of a row that was not committed.               *)
THEOREM EventsFollow == PipelineSpec => []EventsFollowRows
<1>1. PipelineInv /\ OutboxInv => EventsFollowRows
  <2> SUFFICES ASSUME PipelineInv, OutboxInv, NEW e \in Event, published[e] > 0
               PROVE  e \in saved
    BY DEF PipelineInv, EventsFollowRows
  <2> QED  BY DEF PipelineInv, Behind, Accepted
<1>2. PipelineSpec => []OutboxInv
  BY PipelineIsOutbox, OutboxInvariant
<1> QED  BY <1>1, <1>2, PipelineInvariant, PTL

(* Rows whose caller was answered and that are without an event are at     *)
(* most as many as the things that went wrong.                             *)
THEOREM MissingBounded == PipelineSpec => []MissingNeedsFault
<1>1. PipelineInv => MissingNeedsFault
  BY DEF PipelineInv
<1> QED  BY <1>1, PipelineInvariant, PTL
=============================================================================

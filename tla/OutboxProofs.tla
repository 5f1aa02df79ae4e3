------------------------------ MODULE OutboxProofs ------------------------------
(***************************************************************************)
(* What the outbox and its workers guarantee for any number of events and  *)
(* workers, any batch size and any failures, proved.                       *)
(***************************************************************************)
EXTENDS OutboxProcessor, FiniteSetTheorems, TLAPS

-----------------------------------------------------------------------------
(* The inductive invariant, in parts.                                      *)

(* A worker holds rows only inside a transaction, and steps through them.  *)
Transaction(s) ==
    /\ s.phase \in {"polling", "down"} => s.batch = <<>> /\ ~s.tx
    /\ s.phase = "dead" => s.tx
    /\ s.phase \in Serving => s.next \in DOMAIN s.batch
    /\ s.phase = "commit" => s.next = Len(s.batch) + 1
    /\ \A i, j \in DOMAIN s.batch : i # j => s.batch[i] # s.batch[j]
Transactions == \A w \in Worker : Transaction(worker[w])

(* A row is locked by one worker, and until it is delivered; a worker that *)
(* has lost its locks still goes through rows that were queued once.       *)
Locks ==
    /\ \A v, w \in Worker : v # w => Held(v) \cap Held(w) = {}
    /\ \A w \in Worker : \A e \in Held(w) : rows[e] = "queued"
    /\ \A w \in Worker : Batch(worker[w].batch) \subseteq Accepted

(* Row i of the batch has been published, posted.                          *)
StreamDone(s, i) ==
    /\ i \in DOMAIN s.batch
    /\ i < s.next \/ (i = s.next /\ s.phase \in {"insert", "answer", "mark"})
GraphDone(s, i) ==
    /\ i \in DOMAIN s.batch
    /\ i < s.next \/ (i = s.next /\ s.phase \in {"answer", "mark"})

(* What a worker, or a committed transaction, has sent did go out.         *)
Progress ==
    /\ \A w \in Worker : \A i \in DOMAIN worker[w].batch :
          /\ StreamDone(worker[w], i) => published[worker[w].batch[i]] > 0
          /\ GraphDone(worker[w], i) => posted[worker[w].batch[i]] > 0
    /\ \A e \in Event : rows[e] = "delivered" => published[e] > 0 /\ posted[e] > 0

(* The copy that counts: the one whose transaction has not been undone.    *)
Sent(e) ==
    \/ rows[e] = "delivered"
    \/ \E w \in Worker :
          /\ worker[w].tx /\ worker[w].phase # "dead"
          /\ \E i \in DOMAIN worker[w].batch :
                worker[w].batch[i] = e /\ StreamDone(worker[w], i)

(* A fault pays for one copy that does not count, and that copy may still  *)
(* be in the hand of the worker that was cut off.                          *)
Copies ==
    \A e \in Event :
        published[e] + Cardinality(InHand(e, {"publish"}))
            <= faults + (IF Sent(e) THEN 1 ELSE 0)

(* Between the two sinks: every worker there will post the row once.       *)
Between(e) == {w \in Worker : At(w, "insert") /\ Current(w) = e}
Ahead ==
    \A e \in Event : posted[e] + Cardinality(Between(e)) <= published[e]

OutboxInv ==
    TypeOK /\ Transactions /\ Locks /\ Progress /\ Copies /\ Ahead

-----------------------------------------------------------------------------
(* Batches, counts, and workers that move.                                 *)

(* A batch is a sequence of events.                                        *)
LEMMA BatchFacts ==
    ASSUME NEW b \in Batches
    PROVE  /\ b \in Seq(Event) /\ Len(b) \in Nat
           /\ DOMAIN b = 1..Len(b)
           /\ \A i \in DOMAIN b : b[i] \in Event
<1>1. PICK n \in 0..BatchSize : b \in [1..n -> Event]
  BY DEF Batches
<1>2. n \in Nat
  BY BatchAssumption
<1>3. b \in Seq(Event)
  BY <1>1, <1>2
<1> QED  BY <1>3

(* A worker outside a transaction holds nothing.                           *)
LEMMA NoBatch == <<>> \in Batches /\ DOMAIN <<>> = {} /\ Batch(<<>>) = {}
<1>1. <<>> \in [1..0 -> Event] /\ 0 \in 0..BatchSize
  BY BatchAssumption
<1>2. DOMAIN <<>> = {}
  OBVIOUS
<1> QED  BY <1>1, <1>2 DEF Batches, Batch

(* Counting workers, of whom one moves.                                    *)
LEMMA Count ==
    ASSUME NEW S \in SUBSET Worker, NEW T \in SUBSET Worker, NEW w \in Worker,
           S \ {w} = T \ {w}
    PROVE  /\ Cardinality(S) \in Nat /\ Cardinality(T) \in Nat
           /\ w \in S => Cardinality(S) > 0
           /\ (w \in S <=> w \in T) => Cardinality(T) = Cardinality(S)
           /\ w \in S /\ w \notin T => Cardinality(T) = Cardinality(S) - 1
           /\ w \notin S /\ w \in T => Cardinality(T) = Cardinality(S) + 1
<1>1. IsFiniteSet(S) /\ IsFiniteSet(T)
  BY WorkerAssumption, FS_Subset
<1>2. Cardinality(S) \in Nat /\ Cardinality(T) \in Nat
  BY <1>1, FS_CardinalityType
<1>3. w \in S => Cardinality(S) > 0
  <2>1. w \in S => Cardinality(S) # 0
    BY <1>1, FS_EmptySet
  <2> QED  BY <1>2, <2>1
<1>4. ASSUME w \in S <=> w \in T PROVE S = T
  BY <1>4
<1>5. ASSUME w \in S, w \notin T PROVE Cardinality(T) = Cardinality(S) - 1
  <2>1. T = S \ {w}
    BY <1>5
  <2>2. Cardinality(S \ {w}) = Cardinality(S) - 1
    BY <1>1, <1>5, FS_RemoveElement
  <2> QED  BY <2>1, <2>2
<1>6. ASSUME w \notin S, w \in T PROVE Cardinality(T) = Cardinality(S) + 1
  <2>1. S = T \ {w}
    BY <1>6
  <2>2. Cardinality(T \ {w}) = Cardinality(T) - 1
    BY <1>1, <1>6, FS_RemoveElement
  <2>3. Cardinality(S) = Cardinality(T) - 1
    BY <2>1, <2>2
  <2> QED  BY <1>2, <2>3
<1> QED  BY <1>2, <1>3, <1>4, <1>5, <1>6

(* The sets the invariant counts are sets of workers.                      *)
LEMMA Counted ==
    ASSUME NEW e
    PROVE  /\ \A P : InHand(e, P) \in SUBSET Worker
           /\ Between(e) \in SUBSET Worker
           /\ Cardinality(InHand(e, {"publish"})) \in Nat
           /\ Cardinality(Between(e)) \in Nat
<1>1. \A P : InHand(e, P) \in SUBSET Worker
  BY DEF InHand
<1>2. Between(e) \in SUBSET Worker
  BY DEF Between
<1>3. IsFiniteSet(InHand(e, {"publish"})) /\ IsFiniteSet(Between(e))
  BY <1>1, <1>2, WorkerAssumption, FS_Subset
<1> QED  BY <1>1, <1>2, <1>3, FS_CardinalityType

(* The row a serving worker is at was queued once.                         *)
LEMMA CurrentRow ==
    ASSUME OutboxInv, NEW w \in Worker, worker[w].phase \in Serving
    PROVE  /\ worker[w].next \in DOMAIN worker[w].batch
           /\ Current(w) \in Event /\ Current(w) \in Batch(worker[w].batch)
           /\ Current(w) \in Accepted
<1>1. worker[w].batch \in Batches /\ worker[w].next \in DOMAIN worker[w].batch
  BY DEF OutboxInv, TypeOK, WorkerState
<1>2. Current(w) \in Event /\ Current(w) \in Batch(worker[w].batch)
  BY <1>1, BatchFacts DEF Current, Batch
<1> QED  BY <1>1, <1>2 DEF OutboxInv, Locks

(* While its transaction lives, it is queued, and locked by it alone.      *)
LEMMA LockedRow ==
    ASSUME OutboxInv, NEW w \in Worker, worker[w].phase \in Serving, worker[w].tx
    PROVE  /\ Current(w) \in Held(w) /\ rows[Current(w)] = "queued"
           /\ \A v \in Worker \ {w} : Current(w) \notin Held(v)
<1>1. Current(w) \in Held(w)
  BY CurrentRow DEF Held
<1> QED  BY <1>1 DEF OutboxInv, Locks

(* A locked row about to be published has no copy that counts.             *)
LEMMA CurrentNotSent ==
    ASSUME OutboxInv, NEW w \in Worker, worker[w].phase = "publish", worker[w].tx
    PROVE  ~Sent(Current(w))
<1>1. /\ worker[w].next \in DOMAIN worker[w].batch
      /\ rows[Current(w)] = "queued"
      /\ \A v \in Worker \ {w} : Current(w) \notin Held(v)
  BY CurrentRow, LockedRow DEF Serving
<1>2. ASSUME NEW v \in Worker, worker[v].tx, NEW i \in DOMAIN worker[v].batch,
             worker[v].batch[i] = Current(w), StreamDone(worker[v], i)
      PROVE  FALSE
  <2>1. v = w
    BY <1>1, <1>2 DEF Held, Batch
  <2>2. i = worker[w].next
    BY <1>1, <1>2, <2>1 DEF OutboxInv, Transactions, Transaction, Current
  <2>3. worker[w].next \in Nat
    BY DEF OutboxInv, TypeOK, WorkerState
  <2> QED  BY <1>2, <2>1, <2>2, <2>3 DEF StreamDone
<1> QED  BY <1>1, <1>2 DEF Sent

(* A worker that moves leaves the others, and the counts but for itself,   *)
(* alone.                                                                  *)
LEMMA Moves ==
    ASSUME OutboxInv, NEW w \in Worker, NEW s \in WorkerState, Becomes(w, s)
    PROVE  /\ worker' \in [Worker -> WorkerState] /\ worker'[w] = s
           /\ \A v \in Worker \ {w} : worker'[v] = worker[v]
           /\ \A v \in Worker \ {w} : Held(v)' = Held(v)
           /\ Held(w)' = IF s.tx THEN Batch(s.batch) ELSE {}
           /\ \A e, P : InHand(e, P)' \ {w} = InHand(e, P) \ {w}
           /\ \A e : Between(e)' \ {w} = Between(e) \ {w}
<1>1. worker' = [worker EXCEPT ![w] = s] /\ worker \in [Worker -> WorkerState]
  BY DEF Becomes, OutboxInv, TypeOK
<1>2. worker' \in [Worker -> WorkerState] /\ worker'[w] = s
      /\ \A v \in Worker \ {w} : worker'[v] = worker[v]
  BY <1>1
<1>3. \A v \in Worker \ {w} : Held(v)' = Held(v)
  BY <1>2 DEF Held
<1>4. Held(w)' = IF s.tx THEN Batch(s.batch) ELSE {}
  BY <1>2 DEF Held
<1>5. \A e, P : InHand(e, P)' \ {w} = InHand(e, P) \ {w}
  BY <1>2 DEF InHand, CutOff, Current
<1>6. \A e : Between(e)' \ {w} = Between(e) \ {w}
  BY <1>2 DEF Between, At, Current
<1> QED  BY <1>2, <1>3, <1>4, <1>5, <1>6

(* Copies that count keep counting, unless their transaction is undone.    *)
LEMMA SentKept ==
    ASSUME OutboxInv, NEW w \in Worker, NEW s \in WorkerState, Becomes(w, s),
           \A e \in Event : rows[e] = "delivered" => rows'[e] = "delivered",
           \A i \in DOMAIN worker[w].batch :
              worker[w].tx /\ worker[w].phase # "dead" /\ StreamDone(worker[w], i) =>
                 \/ rows'[worker[w].batch[i]] = "delivered"
                 \/ /\ s.tx /\ s.phase # "dead" /\ s.batch = worker[w].batch
                    /\ StreamDone(s, i)
    PROVE  \A e \in Event : Sent(e) => Sent(e)'
<1>1. worker'[w] = s /\ \A v \in Worker \ {w} : worker'[v] = worker[v]
  BY Moves
<1>2. ASSUME NEW e \in Event, NEW v \in Worker, worker[v].tx, worker[v].phase # "dead",
             NEW i \in DOMAIN worker[v].batch,
             worker[v].batch[i] = e, StreamDone(worker[v], i)
      PROVE  Sent(e)'
  <2>1. CASE v = w
    <3>1. CASE rows'[e] = "delivered"
      BY <3>1 DEF Sent
    <3>2. CASE /\ s.tx /\ s.phase # "dead" /\ s.batch = worker[w].batch
               /\ StreamDone(s, i)
      BY <1>1, <1>2, <2>1, <3>2 DEF Sent, StreamDone
    <3> QED  BY <1>2, <2>1, <3>1, <3>2
  <2>2. CASE v # w
    <3>1. worker'[v] = worker[v]
      BY <1>1, <2>2
    <3> QED  BY <1>2, <3>1 DEF Sent, StreamDone
  <2> QED  BY <2>1, <2>2
<1>3. ASSUME NEW e \in Event, rows[e] = "delivered" PROVE Sent(e)'
  BY <1>3 DEF Sent
<1> QED  BY <1>2, <1>3 DEF Sent

-----------------------------------------------------------------------------
(* A step that sends nothing and delivers nothing.                         *)

(* The count of the copies stays within its bound when those that count    *)
(* keep counting and nobody is cut off ...                                 *)
LEMMA CopiesKept ==
    ASSUME OutboxInv, NEW w \in Worker, NEW s \in WorkerState, Becomes(w, s),
           published' = published, faults' \in Nat, faults' >= faults,
           \A e \in Event : Sent(e) => Sent(e)',
           \A e \in Event : w \in InHand(e, {"publish"})' => w \in InHand(e, {"publish"})
    PROVE  Copies'
<1> SUFFICES ASSUME NEW e \in Event
             PROVE  published'[e] + Cardinality(InHand(e, {"publish"})')
                      <= faults' + (IF Sent(e)' THEN 1 ELSE 0)
  BY DEF Copies
<1> DEFINE S == InHand(e, {"publish"})  T == InHand(e, {"publish"})'
           m == Cardinality(S)  n == Cardinality(T)
<1>1. S \in SUBSET Worker /\ T \in SUBSET Worker /\ T \ {w} = S \ {w}
  <2>1. S \in SUBSET Worker /\ T \in SUBSET Worker
    BY DEF InHand
  <2>2. \A d, P : InHand(d, P)' \ {w} = InHand(d, P) \ {w}
    BY Moves
  <2>3. T \ {w} = S \ {w}
    BY <2>2
  <2> QED  BY <2>1, <2>3
<1>2. m \in Nat /\ n \in Nat /\ n <= m
  <2> HIDE DEF S, T
  <2>1. w \in T => w \in S
    BY DEF S, T
  <2>2. m \in Nat /\ n \in Nat /\ (n = m \/ n = m - 1)
    BY <1>1, <2>1, Count
  <2> HIDE DEF m, n
  <2> QED  BY <2>2
<1> HIDE DEF m, n
<1>3. published[e] \in Nat /\ faults \in Nat
  BY DEF OutboxInv, TypeOK
<1>4. published[e] + m <= faults + (IF Sent(e) THEN 1 ELSE 0)
  BY DEF OutboxInv, Copies, m
<1>5. published[e] + n <= faults' + (IF Sent(e)' THEN 1 ELSE 0)
  BY <1>2, <1>3, <1>4
<1> QED  BY <1>5 DEF n

(* ... or when a fault pays for the copy undone, and it was not yet sent   *)
(* if the worker may still send it.                                        *)
LEMMA CopiesPaid ==
    ASSUME OutboxInv, NEW w \in Worker, NEW s \in WorkerState, Becomes(w, s),
           published' = published, faults' = faults + 1,
           \A e \in Event : w \in InHand(e, {"publish"})'
                            => w \in InHand(e, {"publish"}) \/ ~Sent(e)
    PROVE  Copies'
<1> SUFFICES ASSUME NEW e \in Event
             PROVE  published'[e] + Cardinality(InHand(e, {"publish"})')
                      <= faults' + (IF Sent(e)' THEN 1 ELSE 0)
  BY DEF Copies
<1> DEFINE S == InHand(e, {"publish"})  T == InHand(e, {"publish"})'
           m == Cardinality(S)  n == Cardinality(T)
<1>1. S \in SUBSET Worker /\ T \in SUBSET Worker /\ T \ {w} = S \ {w}
  <2>1. S \in SUBSET Worker /\ T \in SUBSET Worker
    BY DEF InHand
  <2>2. \A d, P : InHand(d, P)' \ {w} = InHand(d, P) \ {w}
    BY Moves
  <2>3. T \ {w} = S \ {w}
    BY <2>2
  <2> QED  BY <2>1, <2>3
<1>2. m \in Nat /\ n \in Nat /\ n <= m + 1 /\ (Sent(e) => n <= m)
  <2> HIDE DEF S, T
  <2>1. w \in T => w \in S \/ ~Sent(e)
    BY DEF S, T
  <2>2. m \in Nat /\ n \in Nat /\ (n = m \/ n = m - 1 \/ (n = m + 1 /\ ~Sent(e)))
    BY <1>1, <2>1, Count
  <2> HIDE DEF m, n
  <2> QED  BY <2>2
<1> HIDE DEF m, n
<1>3. published[e] \in Nat /\ faults \in Nat
  BY DEF OutboxInv, TypeOK
<1>4. published[e] + m <= faults + (IF Sent(e) THEN 1 ELSE 0)
  BY DEF OutboxInv, Copies, m
<1>5. published[e] + n <= faults' + (IF Sent(e)' THEN 1 ELSE 0)
  BY <1>2, <1>3, <1>4
<1> QED  BY <1>5 DEF n

(* Nor does a worker that neither sends nor comes to the triple store      *)
(* disturb the order of the sinks.                                         *)
LEMMA AheadKept ==
    ASSUME OutboxInv, NEW w \in Worker, NEW s \in WorkerState, Becomes(w, s),
           UNCHANGED <<published, posted>>,
           \A e \in Event : w \in Between(e)' => w \in Between(e)
    PROVE  Ahead'
<1> SUFFICES ASSUME NEW e \in Event
             PROVE  posted[e] + Cardinality(Between(e)') <= published[e]
  BY DEF Ahead
<1> DEFINE S == Between(e)  T == Between(e)'
           m == Cardinality(S)  n == Cardinality(T)
<1>1. S \in SUBSET Worker /\ T \in SUBSET Worker /\ T \ {w} = S \ {w}
  <2>1. S \in SUBSET Worker /\ T \in SUBSET Worker
    BY DEF Between
  <2>2. \A d : Between(d)' \ {w} = Between(d) \ {w}
    BY Moves
  <2> QED  BY <2>1, <2>2
<1>2. m \in Nat /\ n \in Nat /\ n <= m
  <2> HIDE DEF S, T
  <2>1. w \in T => w \in S
    BY DEF S, T
  <2>2. m \in Nat /\ n \in Nat /\ (n = m \/ n = m - 1)
    BY <1>1, <2>1, Count
  <2> HIDE DEF m, n
  <2> QED  BY <2>2
<1> HIDE DEF m, n
<1>3. posted[e] \in Nat /\ published[e] \in Nat /\ posted[e] + m <= published[e]
  BY DEF OutboxInv, TypeOK, Ahead, m
<1>4. posted[e] + n <= published[e]
  BY <1>2, <1>3
<1> QED  BY <1>4 DEF n

(* A worker that takes no row, sends none and delivers none.               *)
LEMMA Quiet ==
    ASSUME OutboxInv, NEW w \in Worker, NEW s \in WorkerState, Becomes(w, s),
           UNCHANGED <<rows, createdAt, sinks>>, faults' \in Nat,
           Transaction(s), s.tx => worker[w].tx,
           \/ s.batch = <<>>
           \/ /\ s.batch = worker[w].batch
              /\ \A i \in DOMAIN s.batch :
                    /\ StreamDone(s, i) => StreamDone(worker[w], i)
                    /\ GraphDone(s, i) => GraphDone(worker[w], i),
           s.phase = "insert" => worker[w].phase = "insert" /\ s.next = worker[w].next
                                 /\ s.batch = worker[w].batch,
           Copies'
    PROVE  OutboxInv'
<1>1. TypeOK /\ Transactions /\ Locks /\ Progress /\ Ahead
  BY DEF OutboxInv
<1>2. /\ worker' \in [Worker -> WorkerState] /\ worker'[w] = s
      /\ \A v \in Worker \ {w} : worker'[v] = worker[v]
      /\ \A v \in Worker \ {w} : Held(v)' = Held(v)
      /\ Held(w)' = IF s.tx THEN Batch(s.batch) ELSE {}
      /\ \A e : Between(e)' \ {w} = Between(e) \ {w}
  BY Moves
<1>3. Transactions'
  BY <1>1, <1>2 DEF Transactions
<1>4. TypeOK'
  BY <1>1, <1>2, <1>3 DEF TypeOK, sinks, Transactions, Transaction
<1>5. Locks'
  <2>1. Batch(s.batch) \subseteq Batch(worker[w].batch)
    BY NoBatch
  <2>2. Held(w)' \subseteq Held(w)
    BY <1>2, <2>1 DEF Held
  <2>3. Accepted' = Accepted
    BY DEF Accepted
  <2> QED  BY <1>1, <1>2, <2>1, <2>2, <2>3 DEF Locks
<1>6. Progress'
  <2>1. ASSUME NEW i \in DOMAIN s.batch
        PROVE  /\ StreamDone(s, i) => published[s.batch[i]] > 0
               /\ GraphDone(s, i) => posted[s.batch[i]] > 0
    BY <1>1, <2>1, NoBatch DEF Progress
  <2>2. ASSUME NEW v \in Worker, NEW i \in DOMAIN worker'[v].batch
        PROVE  /\ StreamDone(worker'[v], i) => published[worker'[v].batch[i]] > 0
               /\ GraphDone(worker'[v], i) => posted[worker'[v].batch[i]] > 0
    BY <1>1, <1>2, <2>1, <2>2 DEF Progress
  <2> QED  BY <1>1, <2>2 DEF Progress, sinks
<1>7. Ahead'
  <2>1. \A e \in Event : w \in Between(e)' => w \in Between(e)
    BY <1>2 DEF Between, At, Current
  <2> QED  BY <2>1, AheadKept DEF sinks
<1> QED  BY <1>3, <1>4, <1>5, <1>6, <1>7 DEF OutboxInv

(* A worker that leaves its transaction holds nothing and has nothing in   *)
(* hand.                                                                   *)
LEMMA Outside ==
    ASSUME NEW s \in {Polling, Down}
    PROVE  /\ s \in WorkerState /\ s.phase \in {"polling", "down"} /\ ~s.tx
           /\ s.batch = <<>> /\ DOMAIN s.batch = {} /\ Transaction(s)
           /\ \A w : worker'[w] = s => \A e, P : P \subseteq Serving
                                         => w \notin InHand(e, P)'
           /\ \A w : worker'[w] = s => \A e : w \notin Between(e)'
<1>1. /\ s.phase \in {"polling", "down"} /\ s.batch = <<>> /\ s.next = 1 /\ ~s.tx
      /\ s \in WorkerState
  <2>1. Polling \in WorkerState /\ Down \in WorkerState
    BY NoBatch DEF Polling, Down, WorkerState, Phase
  <2>2. /\ s.phase \in {"polling", "down"} /\ s.batch = <<>> /\ s.next = 1
        /\ s.tx = FALSE
    BY DEF Polling, Down
  <2> QED  BY <2>1, <2>2
<1>2. DOMAIN s.batch = {}
  BY <1>1, NoBatch
<1>3. Transaction(s)
  BY <1>1, <1>2 DEF Transaction, Serving
<1>4. ASSUME NEW w, worker'[w] = s, NEW e, NEW P, P \subseteq Serving
      PROVE  w \notin InHand(e, P)'
  BY <1>1, <1>4 DEF InHand, Serving
<1>5. ASSUME NEW w, worker'[w] = s, NEW e PROVE w \notin Between(e)'
  BY <1>1, <1>5 DEF Between, At
<1> QED  BY <1>1, <1>2, <1>3, <1>4, <1>5

(* A worker fails: a transaction that lived is undone, and the fault pays  *)
(* for what it has sent.                                                   *)
LEMMA OutboxFail ==
    ASSUME OutboxInv, NEW w \in Worker, Fail(w)
    PROVE  OutboxInv'
<1>1. /\ Becomes(w, Down) /\ UNCHANGED <<rows, createdAt, sinks>>
      /\ faults \in Nat /\ published' = published
      /\ faults' = faults + 1 \/ (CutOff(w) /\ faults' = faults)
  BY DEF Fail, GoesWrong, table, sinks, OutboxInv, TypeOK
<1>2. /\ Down \in WorkerState /\ Down.phase = "down" /\ ~Down.tx
      /\ Down.batch = <<>> /\ Transaction(Down)
  BY Outside DEF Down
<1>3. \A e : w \notin InHand(e, {"publish"})'
  <2>1. worker'[w] = Down
    BY <1>1, <1>2, Moves
  <2> QED  BY <2>1, Outside DEF Serving
<1>4. Copies'
  <2>1. CASE faults' = faults + 1
    BY <1>1, <1>2, <1>3, <2>1, CopiesPaid
  <2>2. CASE CutOff(w) /\ faults' = faults
    <3>1. \A e \in Event : Sent(e) => Sent(e)'
      BY <1>1, <1>2, <2>2, SentKept DEF CutOff
    <3> QED  BY <1>1, <1>2, <1>3, <2>2, <3>1, CopiesKept
  <2> QED  BY <1>1, <2>1, <2>2
<1> QED  BY <1>1, <1>2, <1>4, Quiet

(* A worker whose transaction is gone stops, one that was killed gives its *)
(* locks back, and one that is down starts: nothing is undone.             *)
LEMMA OutboxRest ==
    ASSUME OutboxInv, NEW w \in Worker, GivesUp(w) \/ SessionEnds(w) \/ Restart(w)
    PROVE  OutboxInv'
<1>1. PICK s \in {Polling, Down} :
        /\ Becomes(w, s) /\ UNCHANGED <<rows, createdAt, sinks, faults>>
        /\ CutOff(w) \/ worker[w].phase \in {"dead", "down"}
  BY DEF GivesUp, SessionEnds, Restart, At, table
<1>2. /\ s \in WorkerState /\ s.phase \in {"polling", "down"} /\ ~s.tx
      /\ s.batch = <<>> /\ Transaction(s)
  BY Outside
<1>3. \A e \in Event : Sent(e) => Sent(e)'
  <2>1. ~worker[w].tx \/ worker[w].phase = "dead"
    BY <1>1 DEF CutOff, OutboxInv, Transactions, Transaction
  <2> QED  BY <1>1, <1>2, <2>1, SentKept
<1>4. \A e : w \notin InHand(e, {"publish"})'
  <2>1. worker'[w] = s
    BY <1>1, <1>2, Moves
  <2> QED  BY <2>1, Outside DEF Serving
<1>5. faults \in Nat /\ faults' = faults /\ published' = published
  BY <1>1 DEF sinks, OutboxInv, TypeOK
<1>6. Copies'
  BY <1>1, <1>2, <1>3, <1>4, <1>5, CopiesKept
<1> QED  BY <1>1, <1>2, <1>5, <1>6, Quiet

(* A worker that is cut off goes on; the fault pays for the copies it has  *)
(* sent, or for the one it may still send.                                 *)
LEMMA OutboxLoses ==
    ASSUME OutboxInv, NEW w \in Worker, LosesSession(w)
    PROVE  OutboxInv'
<1> DEFINE s == [worker[w] EXCEPT !.tx = FALSE]
<1>1. /\ Becomes(w, s) /\ UNCHANGED <<rows, createdAt, sinks>>
      /\ faults \in Nat /\ faults' = faults + 1 /\ published' = published
      /\ worker[w].phase \in InBatch /\ worker[w].tx
      /\ worker[w] \in WorkerState
  BY DEF LosesSession, GoesWrong, table, sinks, OutboxInv, TypeOK
<1>2. /\ s \in WorkerState /\ s.phase = worker[w].phase /\ s.batch = worker[w].batch
      /\ s.next = worker[w].next /\ ~s.tx
  BY <1>1 DEF WorkerState
<1> HIDE DEF s
<1>3. Transaction(s)
  BY <1>1, <1>2 DEF OutboxInv, Transactions, Transaction, InBatch, Serving
<1>4. worker'[w] = s
  BY <1>1, <1>2, Moves
<1>5. Copies'
  <2>1. ASSUME NEW e \in Event, w \in InHand(e, {"publish"})' PROVE ~Sent(e)
    <3>1. worker[w].phase = "publish" /\ Current(w) = e
      BY <1>2, <1>4, <2>1 DEF InHand, Current
    <3> QED  BY <1>1, <3>1, CurrentNotSent
  <2> QED  BY <1>1, <1>2, <2>1, CopiesPaid
<1>6. \A i \in DOMAIN s.batch : /\ StreamDone(s, i) => StreamDone(worker[w], i)
                                /\ GraphDone(s, i) => GraphDone(worker[w], i)
  BY <1>2 DEF StreamDone, GraphDone
<1> QED  BY <1>1, <1>2, <1>3, <1>5, <1>6, Quiet

(* A killed worker's rows stay locked; its copies no longer count.         *)
LEMMA OutboxCrash ==
    ASSUME OutboxInv, NEW w \in Worker, Crash(w)
    PROVE  OutboxInv'
<1> DEFINE s == [worker[w] EXCEPT !.phase = "dead"]
<1>1. /\ Becomes(w, s) /\ UNCHANGED <<rows, createdAt, sinks>>
      /\ faults \in Nat /\ faults' = faults + 1 /\ published' = published
      /\ worker[w].tx /\ worker[w] \in WorkerState
  BY DEF Crash, GoesWrong, table, sinks, OutboxInv, TypeOK
<1>2. /\ s \in WorkerState /\ s.phase = "dead" /\ s.batch = worker[w].batch
      /\ s.next = worker[w].next /\ s.tx
  BY <1>1 DEF WorkerState, Phase
<1> HIDE DEF s
<1>3. Transaction(s)
  BY <1>2 DEF OutboxInv, Transactions, Transaction, Serving
<1>4. Copies'
  <2>1. worker'[w] = s
    BY <1>1, <1>2, Moves
  <2>2. \A e : w \notin InHand(e, {"publish"})'
    BY <1>2, <2>1 DEF InHand
  <2> QED  BY <1>1, <1>2, <2>2, CopiesPaid
<1>5. \A i \in DOMAIN s.batch : /\ StreamDone(s, i) => StreamDone(worker[w], i)
                                /\ GraphDone(s, i) => GraphDone(worker[w], i)
  BY <1>2 DEF StreamDone, GraphDone
<1> QED  BY <1>1, <1>2, <1>3, <1>4, <1>5, Quiet

(* The answer to the POST, and the UPDATE of a row that both sinks have.   *)
LEMMA OutboxMark ==
    ASSUME OutboxInv, NEW w \in Worker, Answer(w) \/ Mark(w)
    PROVE  OutboxInv'
<1> DEFINE n == worker[w].next
           b == worker[w].batch
<1>1. /\ worker[w].phase \in {"answer", "mark"} /\ worker[w].phase \in Serving
      /\ UNCHANGED <<rows, createdAt, sinks, faults>>
      /\ faults \in Nat /\ faults' = faults /\ published' = published
      /\ worker[w] \in WorkerState
  BY DEF Answer, Mark, At, table, sinks, OutboxInv, TypeOK, Serving
<1>2. n \in DOMAIN b /\ n \in Nat /\ DOMAIN b = 1..Len(b) /\ Len(b) \in Nat
  BY <1>1, CurrentRow, BatchFacts DEF WorkerState
<1>3. PICK s \in WorkerState :
        /\ Becomes(w, s) /\ s.batch = b /\ s.tx = worker[w].tx
        /\ \/ s.phase = "mark" /\ worker[w].phase = "answer" /\ s.next = n
           \/ /\ worker[w].phase = "mark" /\ s.next = n + 1
              /\ s.phase = IF n = Len(b) THEN "commit" ELSE "publish"
              /\ worker[w].tx
  <2>1. CASE Answer(w)
    <3> DEFINE s == [worker[w] EXCEPT !.phase = "mark"]
    <3>1. Becomes(w, s) /\ worker[w].phase = "answer"
      BY <2>1 DEF Answer, At
    <3>2. s \in WorkerState /\ s.phase = "mark" /\ s.next = n /\ s.batch = b
          /\ s.tx = worker[w].tx
      BY <1>1 DEF WorkerState, Phase, InBatch, Serving
    <3> HIDE DEF s
    <3> QED  BY <3>1, <3>2
  <2>2. CASE Mark(w)
    <3> DEFINE ph == IF n = Len(b) THEN "commit" ELSE "publish"
               m == n + 1
               s == [worker[w] EXCEPT !.next = m, !.phase = ph]
    <3>1. ph \in Phase /\ m \in Nat
      BY <1>2 DEF Phase, InBatch, Serving
    <3>2. Becomes(w, s) /\ worker[w].phase = "mark" /\ worker[w].tx
      BY <1>1, <2>2 DEF Mark, At, WorkerState
    <3>3. s \in WorkerState /\ s.phase = ph /\ s.next = m /\ s.batch = b
          /\ s.tx = worker[w].tx
      <4> HIDE DEF ph, m
      <4> QED  BY <1>1, <3>1 DEF WorkerState
    <3> HIDE DEF s
    <3> QED  BY <3>2, <3>3
  <2> QED  BY <2>1, <2>2
<1>4. \A i \in DOMAIN b : /\ StreamDone(s, i) <=> StreamDone(worker[w], i)
                          /\ GraphDone(s, i) => GraphDone(worker[w], i)
  BY <1>1, <1>2, <1>3 DEF StreamDone, GraphDone
<1>5. Transaction(s)
  BY <1>2, <1>3 DEF OutboxInv, Transactions, Transaction, Serving
<1>6. Copies'
  <2>1. \A e \in Event : Sent(e) => Sent(e)'
    BY <1>1, <1>3, <1>4, SentKept
  <2>2. \A e : w \notin InHand(e, {"publish"})'
    <3>1. worker'[w] = s
      BY <1>3, Moves
    <3> QED  BY <1>3, <3>1 DEF InHand, CutOff
  <2> QED  BY <1>1, <1>3, <2>1, <2>2, CopiesKept
<1> QED  BY <1>1, <1>3, <1>4, <1>5, <1>6, Quiet

-----------------------------------------------------------------------------
(* The steps that take rows, send them and deliver them.                   *)

(* The SELECT: the rows locked are free, so no other worker has them.      *)
LEMMA OutboxBegin ==
    ASSUME OutboxInv, NEW w \in Worker, BeginBatch(w)
    PROVE  OutboxInv'
<1>1. TypeOK /\ Transactions /\ Locks /\ Progress
  BY DEF OutboxInv
<1>2. PICK b \in Batches :
        /\ b # <<>> /\ Batch(b) \subseteq Free /\ InOrder(b)
        /\ Becomes(w, [phase |-> "publish", batch |-> b, next |-> 1, tx |-> TRUE])
  BY DEF BeginBatch
<1> DEFINE s == [phase |-> "publish", batch |-> b, next |-> 1, tx |-> TRUE]
<1>3. /\ UNCHANGED <<rows, createdAt, sinks, faults>> /\ faults \in Nat
      /\ worker[w].phase = "polling" /\ DOMAIN worker[w].batch = {}
  BY <1>1, NoBatch DEF BeginBatch, At, table, Transactions, Transaction, TypeOK
<1>4. /\ s \in WorkerState /\ s.phase = "publish" /\ s.batch = b /\ s.next = 1
      /\ s.tx = TRUE
  BY DEF WorkerState, Phase, InBatch, Serving
<1>5. 1 \in DOMAIN b
  BY <1>2, BatchFacts
<1>6. Becomes(w, s)
  BY <1>2
<1> HIDE DEF s
<1>7. /\ worker' \in [Worker -> WorkerState] /\ worker'[w] = s
      /\ \A v \in Worker \ {w} : worker'[v] = worker[v]
      /\ \A v \in Worker \ {w} : Held(v)' = Held(v)
      /\ Held(w)' = Batch(b)
  BY <1>4, <1>6, Moves
<1>8. Transactions'
  <2>1. \A i, j \in DOMAIN b : i # j => b[i] # b[j]
    <3>1. \A i, j \in DOMAIN b : i < j \/ j < i \/ i = j
      BY BatchFacts
    <3> QED  BY <1>2, <3>1 DEF InOrder
  <2>2. Transaction(s)
    BY <1>4, <1>5, <2>1 DEF Transaction
  <2> QED  BY <1>1, <1>7, <2>2 DEF Transactions
<1>9. TypeOK'
  BY <1>1, <1>3, <1>7, <1>8 DEF TypeOK, sinks, Transactions, Transaction
<1>10. Locks'
  <2>1. \A e \in Batch(b) : rows[e] = "queued" /\ \A v \in Worker : e \notin Held(v)
    BY <1>2 DEF Free
  <2>2. Batch(b) \subseteq Event
    BY BatchFacts DEF Batch
  <2>3. Batch(b) \subseteq Accepted /\ Accepted' = Accepted
    BY <1>3, <2>1, <2>2 DEF Accepted
  <2> QED  BY <1>1, <1>3, <1>4, <1>7, <2>1, <2>3 DEF Locks
<1>11. Progress'
  <2>1. \A i \in DOMAIN b : ~StreamDone(s, i) /\ ~GraphDone(s, i)
    BY <1>4, BatchFacts DEF StreamDone, GraphDone
  <2> QED  BY <1>1, <1>3, <1>4, <1>7, <2>1 DEF Progress, sinks
<1>12. Copies'
  <2>1. \A e \in Event : Sent(e) => Sent(e)'
    BY <1>3, <1>4, <1>6, SentKept
  <2>2. \A e : w \notin InHand(e, {"publish"})'
    BY <1>4, <1>7 DEF InHand, CutOff
  <2> QED  BY <1>3, <1>4, <1>6, <2>1, <2>2, CopiesKept DEF sinks
<1>13. Ahead'
  <2>1. \A e : w \notin Between(e)'
    BY <1>4, <1>7 DEF Between, At
  <2> QED  BY <1>3, <1>4, <1>6, <2>1, AheadKept DEF sinks
<1> QED  BY <1>8, <1>9, <1>10, <1>11, <1>12, <1>13 DEF OutboxInv

(* A worker that goes on with its row, in the same transaction or without  *)
(* one, keeps what it holds.                                               *)
LEMMA Stay ==
    ASSUME OutboxInv, NEW w \in Worker, NEW s \in WorkerState, Becomes(w, s),
           UNCHANGED rows, worker[w].phase \in Serving, s.phase \in Serving,
           s.batch = worker[w].batch, s.next = worker[w].next, s.tx = worker[w].tx
    PROVE  Transactions' /\ Locks'
<1>1. /\ worker'[w] = s /\ \A v \in Worker \ {w} : worker'[v] = worker[v]
      /\ \A v \in Worker \ {w} : Held(v)' = Held(v)
      /\ Held(w)' = IF s.tx THEN Batch(s.batch) ELSE {}
  BY Moves
<1>2. Transaction(s)
  BY DEF OutboxInv, Transactions, Transaction, Serving
<1>3. Transactions'
  BY <1>1, <1>2 DEF OutboxInv, Transactions
<1>4. Held(w)' = Held(w) /\ Accepted' = Accepted
  BY <1>1 DEF Held, Accepted
<1>5. Locks'
  BY <1>1, <1>4 DEF OutboxInv, Locks
<1> QED  BY <1>3, <1>5

(* One more copy in the stream: the first that counts, or the one that a   *)
(* worker that was cut off still had in hand.                              *)
LEMMA OutboxPublish ==
    ASSUME OutboxInv, NEW w \in Worker, Publish(w)
    PROVE  OutboxInv'
<1>1. TypeOK /\ Transactions /\ Locks /\ Progress
  BY DEF OutboxInv
<1> DEFINE c == Current(w)
           s == [worker[w] EXCEPT !.phase = "insert"]
<1>2. /\ worker[w].phase = "publish" /\ worker[w].phase \in Serving
      /\ UNCHANGED <<rows, createdAt, posted, graph, faults>>
      /\ published' = [published EXCEPT ![c] = @ + 1]
      /\ Becomes(w, s)
  BY DEF Publish, At, table, Serving
<1>3. c \in Event /\ worker[w].next \in DOMAIN worker[w].batch
  BY <1>2, CurrentRow
<1>4. /\ published' \in [Event -> Nat] /\ published'[c] = published[c] + 1
      /\ \A e \in Event : e # c => published'[e] = published[e]
      /\ \A e \in Event : published[e] \in Nat /\ posted[e] \in Nat
      /\ faults \in Nat /\ worker[w] \in WorkerState
  BY <1>1, <1>2, <1>3 DEF TypeOK
<1>5. /\ s \in WorkerState /\ s.phase = "insert" /\ s.batch = worker[w].batch
      /\ s.next = worker[w].next /\ s.tx = worker[w].tx
  BY <1>4 DEF WorkerState, Phase, InBatch, Serving
<1> HIDE DEF s
<1>6. /\ worker' \in [Worker -> WorkerState] /\ worker'[w] = s
      /\ \A v \in Worker \ {w} : worker'[v] = worker[v]
      /\ \A e, P : InHand(e, P)' \ {w} = InHand(e, P) \ {w}
      /\ \A e : Between(e)' \ {w} = Between(e) \ {w}
  BY <1>2, <1>5, Moves
<1>7. Transactions' /\ Locks'
  BY <1>2, <1>5, Stay DEF Serving
<1>8. TypeOK'
  BY <1>1, <1>2, <1>4, <1>6, <1>7 DEF TypeOK, Transactions, Transaction
<1>9. Progress'
  <2>1. \A e \in Event : published[e] > 0 => published'[e] > 0
    BY <1>4
  <2>2. ASSUME NEW v \in Worker, NEW i \in DOMAIN worker'[v].batch
        PROVE  /\ StreamDone(worker'[v], i) => published'[worker'[v].batch[i]] > 0
               /\ GraphDone(worker'[v], i) => posted'[worker'[v].batch[i]] > 0
    <3> DEFINE e == worker[v].batch[i]
    <3>1. worker'[v].batch = worker[v].batch /\ e \in Event
      BY <1>1, <1>5, <1>6, <2>2, BatchFacts DEF TypeOK, WorkerState
    <3>2. StreamDone(worker'[v], i) => StreamDone(worker[v], i) \/ e = c
      BY <1>5, <1>6, <2>2 DEF StreamDone, Current
    <3>3. GraphDone(worker'[v], i) => GraphDone(worker[v], i)
      BY <1>5, <1>6, <2>2 DEF GraphDone
    <3>4. published'[c] > 0
      BY <1>3, <1>4
    <3> QED  BY <1>1, <1>2, <2>1, <2>2, <3>1, <3>2, <3>3, <3>4 DEF Progress
  <2> QED  BY <1>1, <1>2, <2>1, <2>2 DEF Progress
<1>10. \A e \in Event : Sent(e) => Sent(e)'
  <2>1. \A i \in DOMAIN worker[w].batch :
           StreamDone(worker[w], i) => StreamDone(s, i)
    BY <1>2, <1>5 DEF StreamDone
  <2> QED  BY <1>2, <1>5, <2>1, SentKept
<1>11. Copies'
  <2> SUFFICES ASSUME NEW e \in Event
               PROVE  published'[e] + Cardinality(InHand(e, {"publish"})')
                        <= faults + (IF Sent(e)' THEN 1 ELSE 0)
    BY <1>2 DEF Copies
  <2> DEFINE S == InHand(e, {"publish"})  T == InHand(e, {"publish"})'
             m == Cardinality(S)  n == Cardinality(T)
  <2>1. S \in SUBSET Worker /\ T \in SUBSET Worker /\ T \ {w} = S \ {w}
    <3>1. S \in SUBSET Worker /\ T \in SUBSET Worker
      BY DEF InHand
    <3> QED  BY <1>6, <3>1
  <2>2. w \notin T /\ (w \in S <=> e = c /\ ~worker[w].tx)
    BY <1>2, <1>5, <1>6 DEF InHand, CutOff, InBatch
  <2>3. /\ m \in Nat /\ n \in Nat
        /\ e = c /\ ~worker[w].tx => n = m - 1
        /\ e # c \/ worker[w].tx => n = m
    <3> HIDE DEF S, T
    <3> QED  BY <2>1, <2>2, Count
  <2> HIDE DEF S, T, m, n
  <2>4. published[e] + m <= faults + (IF Sent(e) THEN 1 ELSE 0)
    BY DEF OutboxInv, Copies, m, S
  <2>5. CASE e = c /\ worker[w].tx
    <3>1. ~Sent(e)
      BY <1>2, <2>5, CurrentNotSent
    <3>2. Sent(e)'
      <4>1. StreamDone(s, worker[w].next) /\ worker[w].batch[worker[w].next] = e
        BY <1>3, <1>5, <2>5 DEF StreamDone, Current
      <4> QED  BY <1>3, <1>5, <1>6, <2>5, <4>1 DEF Sent, StreamDone
    <3>3. published'[e] + n <= faults + 1
      BY <1>4, <2>3, <2>4, <2>5, <3>1
    <3> QED  BY <3>2, <3>3 DEF n, T
  <2>6. CASE e = c /\ ~worker[w].tx
    <3>1. published'[e] + n = published[e] + m
      BY <1>4, <2>3, <2>6
    <3> QED  BY <1>4, <1>10, <2>3, <2>4, <3>1 DEF n, T
  <2>7. CASE e # c
    <3>1. published'[e] + n = published[e] + m
      BY <1>4, <2>3, <2>7
    <3> QED  BY <1>4, <1>10, <2>3, <2>4, <3>1 DEF n, T
  <2> QED  BY <2>5, <2>6, <2>7
<1>12. Ahead'
  <2> SUFFICES ASSUME NEW e \in Event
               PROVE  posted[e] + Cardinality(Between(e)') <= published'[e]
    BY <1>2 DEF Ahead
  <2> DEFINE S == Between(e)  T == Between(e)'
             m == Cardinality(S)  n == Cardinality(T)
  <2>1. S \in SUBSET Worker /\ T \in SUBSET Worker /\ T \ {w} = S \ {w}
    <3>1. S \in SUBSET Worker /\ T \in SUBSET Worker
      BY DEF Between
    <3> QED  BY <1>6, <3>1
  <2>2. w \notin S /\ (w \in T <=> e = c)
    BY <1>2, <1>5, <1>6 DEF Between, At, Current
  <2>3. m \in Nat /\ n \in Nat /\ n = IF e = c THEN m + 1 ELSE m
    <3> HIDE DEF S, T
    <3> QED  BY <2>1, <2>2, Count
  <2> HIDE DEF S, T, m, n
  <2>4. posted[e] + m <= published[e]
    BY DEF OutboxInv, Ahead, m, S
  <2>5. posted[e] + n <= published'[e]
    BY <1>4, <2>3, <2>4
  <2> QED  BY <2>5 DEF n, T
<1> QED  BY <1>7, <1>8, <1>9, <1>11, <1>12 DEF OutboxInv

(* The triple store gets a row it is one copy behind on.                   *)
LEMMA OutboxInsert ==
    ASSUME OutboxInv, NEW w \in Worker, Insert(w)
    PROVE  OutboxInv'
<1>1. TypeOK /\ Transactions /\ Locks /\ Progress
  BY DEF OutboxInv
<1> DEFINE c == Current(w)
           s == [worker[w] EXCEPT !.phase = "answer"]
<1>2. /\ worker[w].phase = "insert" /\ worker[w].phase \in Serving
      /\ UNCHANGED <<rows, createdAt, published, faults>>
      /\ posted' = [posted EXCEPT ![c] = @ + 1]
      /\ graph' \subseteq graph \cup {c}
      /\ Becomes(w, s)
  BY DEF Insert, At, table, Serving
<1>3. c \in Event /\ worker[w].next \in DOMAIN worker[w].batch
  BY <1>2, CurrentRow
<1>4. /\ posted' \in [Event -> Nat] /\ posted'[c] = posted[c] + 1
      /\ \A e \in Event : e # c => posted'[e] = posted[e]
      /\ \A e \in Event : published[e] \in Nat /\ posted[e] \in Nat
      /\ graph' \subseteq Event /\ faults \in Nat /\ worker[w] \in WorkerState
  BY <1>1, <1>2, <1>3 DEF TypeOK
<1>5. /\ s \in WorkerState /\ s.phase = "answer" /\ s.batch = worker[w].batch
      /\ s.next = worker[w].next /\ s.tx = worker[w].tx
  BY <1>4 DEF WorkerState, Phase, InBatch, Serving
<1> HIDE DEF s
<1>6. /\ worker' \in [Worker -> WorkerState] /\ worker'[w] = s
      /\ \A v \in Worker \ {w} : worker'[v] = worker[v]
      /\ \A e : Between(e)' \ {w} = Between(e) \ {w}
  BY <1>2, <1>5, Moves
<1>7. Transactions' /\ Locks'
  BY <1>2, <1>5, Stay DEF Serving
<1>8. TypeOK'
  BY <1>1, <1>2, <1>4, <1>6, <1>7 DEF TypeOK, Transactions, Transaction
<1>9. Progress'
  <2>1. \A e \in Event : posted[e] > 0 => posted'[e] > 0
    BY <1>4
  <2>2. ASSUME NEW v \in Worker, NEW i \in DOMAIN worker'[v].batch
        PROVE  /\ StreamDone(worker'[v], i) => published'[worker'[v].batch[i]] > 0
               /\ GraphDone(worker'[v], i) => posted'[worker'[v].batch[i]] > 0
    <3> DEFINE e == worker[v].batch[i]
    <3>1. worker'[v].batch = worker[v].batch /\ e \in Event
      BY <1>1, <1>5, <1>6, <2>2, BatchFacts DEF TypeOK, WorkerState
    <3>2. StreamDone(worker'[v], i) => StreamDone(worker[v], i)
      BY <1>2, <1>5, <1>6, <2>2 DEF StreamDone
    <3>3. GraphDone(worker'[v], i) => GraphDone(worker[v], i) \/ e = c
      BY <1>5, <1>6, <2>2 DEF GraphDone, Current
    <3>4. posted'[c] > 0
      BY <1>3, <1>4
    <3> QED  BY <1>1, <1>2, <2>1, <2>2, <3>1, <3>2, <3>3, <3>4 DEF Progress
  <2> QED  BY <1>1, <1>2, <2>1, <2>2 DEF Progress
<1>10. Copies'
  <2>1. \A i \in DOMAIN worker[w].batch :
           StreamDone(worker[w], i) => StreamDone(s, i)
    BY <1>2, <1>5 DEF StreamDone
  <2>2. \A e \in Event : Sent(e) => Sent(e)'
    BY <1>2, <1>5, <2>1, SentKept
  <2>3. \A e : w \notin InHand(e, {"publish"})'
    BY <1>5, <1>6 DEF InHand
  <2> QED  BY <1>2, <1>4, <1>5, <2>2, <2>3, CopiesKept
<1>11. Ahead'
  <2> SUFFICES ASSUME NEW e \in Event
               PROVE  posted'[e] + Cardinality(Between(e)') <= published[e]
    BY <1>2 DEF Ahead
  <2> DEFINE S == Between(e)  T == Between(e)'
             m == Cardinality(S)  n == Cardinality(T)
  <2>1. S \in SUBSET Worker /\ T \in SUBSET Worker /\ T \ {w} = S \ {w}
    <3>1. S \in SUBSET Worker /\ T \in SUBSET Worker
      BY DEF Between
    <3> QED  BY <1>6, <3>1
  <2>2. w \notin T /\ (w \in S <=> e = c)
    BY <1>2, <1>5, <1>6 DEF Between, At, Current
  <2>3. m \in Nat /\ n \in Nat /\ n = IF e = c THEN m - 1 ELSE m
    <3> HIDE DEF S, T
    <3> QED  BY <2>1, <2>2, Count
  <2> HIDE DEF S, T, m, n
  <2>4. posted[e] + m <= published[e]
    BY DEF OutboxInv, Ahead, m, S
  <2>5. posted'[e] + n <= published[e]
    BY <1>4, <2>3, <2>4
  <2> QED  BY <2>5 DEF n, T
<1> QED  BY <1>7, <1>8, <1>9, <1>10, <1>11 DEF OutboxInv

(* What a commit makes visible is the whole batch, and all of it was sent. *)
LEMMA Committing ==
    ASSUME OutboxInv, NEW w \in Worker, worker[w].phase = "commit", worker[w].tx
    PROVE  /\ Marked(w) = Held(w)
           /\ \A e \in Held(w) : /\ e \in Event /\ rows[e] = "queued"
                                 /\ published[e] > 0 /\ posted[e] > 0
<1> DEFINE n == worker[w].next
           b == worker[w].batch
<1>1. b \in Batches /\ n = Len(b) + 1 /\ DOMAIN b = 1..Len(b) /\ Len(b) \in Nat
  BY BatchFacts DEF OutboxInv, TypeOK, WorkerState, Transactions, Transaction
<1>2. Marked(w) = Held(w)
  <2>1. 1..n - 1 = DOMAIN b
    BY <1>1
  <2> QED  BY <2>1 DEF Marked, Held, Batch
<1>3. \A i \in DOMAIN b : StreamDone(worker[w], i) /\ GraphDone(worker[w], i)
  BY <1>1 DEF StreamDone, GraphDone
<1>4. ASSUME NEW e \in Held(w)
      PROVE  e \in Event /\ rows[e] = "queued" /\ published[e] > 0 /\ posted[e] > 0
  <2>1. PICK i \in DOMAIN b : e = b[i]
    BY <1>4 DEF Held, Batch
  <2>2. e \in Event
    BY <1>1, <2>1, BatchFacts
  <2>3. published[e] > 0 /\ posted[e] > 0
    BY <1>3, <2>1 DEF OutboxInv, Progress
  <2> QED  BY <2>2, <2>3 DEF OutboxInv, Locks
<1> QED  BY <1>2, <1>4

(* The commit.                                                             *)
LEMMA OutboxCommit ==
    ASSUME OutboxInv, NEW w \in Worker, Commit(w)
    PROVE  OutboxInv'
<1>1. TypeOK /\ Transactions /\ Locks /\ Progress
  BY DEF OutboxInv
<1>2. PICK s \in {Polling, Down} : Becomes(w, s)
  BY DEF Commit
<1>3. /\ worker[w].phase = "commit" /\ worker[w].tx
      /\ UNCHANGED <<createdAt, published, posted, graph>>
      /\ rows' = [e \in Event |-> IF e \in Held(w) THEN "delivered" ELSE rows[e]]
      /\ faults \in Nat /\ faults' \in Nat /\ faults' >= faults
  BY <1>1, Committing DEF Commit, At, GoesWrong, TypeOK, sinks
<1>4. /\ s \in WorkerState /\ ~s.tx /\ s.batch = <<>> /\ DOMAIN s.batch = {}
      /\ Transaction(s)
  BY Outside
<1>5. /\ worker' \in [Worker -> WorkerState] /\ worker'[w] = s
      /\ \A v \in Worker \ {w} : worker'[v] = worker[v]
      /\ \A v \in Worker \ {w} : Held(v)' = Held(v)
      /\ Held(w)' = {}
  BY <1>2, <1>4, Moves
<1>6. Transactions'
  BY <1>1, <1>4, <1>5 DEF Transactions
<1>7. rows' \in [Event -> {"absent", "queued", "delivered", "lost"}]
  BY <1>1, <1>3 DEF TypeOK
<1>8. TypeOK'
  BY <1>1, <1>3, <1>5, <1>6, <1>7 DEF TypeOK, Transactions, Transaction
<1>9. Locks'
  <2>1. ASSUME NEW v \in Worker \ {w}, NEW e \in Held(v) PROVE rows'[e] = "queued"
    <3>1. e \notin Held(w) /\ rows[e] = "queued"
      BY <1>1, <2>1 DEF Locks
    <3>2. e \in Batch(worker[v].batch) /\ worker[v].batch \in Batches
      BY <1>1, <2>1 DEF Held, TypeOK, WorkerState
    <3>3. e \in Event
      BY <3>2, BatchFacts DEF Batch
    <3> QED  BY <1>3, <3>1, <3>3
  <2>2. Accepted' = Accepted
    BY <1>3, Committing DEF Accepted
  <2>3. Batch(s.batch) = {}
    BY <1>4, NoBatch
  <2> QED  BY <1>1, <1>5, <2>1, <2>2, <2>3 DEF Locks
<1>10. Progress'
  <2>1. \A e \in Event : rows'[e] = "delivered" => published[e] > 0 /\ posted[e] > 0
    BY <1>1, <1>3, Committing DEF Progress
  <2> QED  BY <1>1, <1>3, <1>4, <1>5, <2>1 DEF Progress, StreamDone, GraphDone
<1>11. Copies'
  <2>1. \A i \in DOMAIN worker[w].batch : rows'[worker[w].batch[i]] = "delivered"
    <3>1. \A i \in DOMAIN worker[w].batch : worker[w].batch[i] \in Held(w)
      BY <1>3 DEF Held, Batch
    <3> QED  BY <1>3, <3>1, Committing
  <2>2. \A e \in Event : rows[e] = "delivered" => rows'[e] = "delivered"
    BY <1>3
  <2>3. \A e \in Event : Sent(e) => Sent(e)'
    BY <1>2, <1>4, <2>1, <2>2, SentKept
  <2>4. \A e : w \notin InHand(e, {"publish"})'
    BY <1>5, Outside DEF Serving
  <2> QED  BY <1>2, <1>3, <1>4, <2>3, <2>4, CopiesKept
<1>12. Ahead'
  <2>1. \A e : w \notin Between(e)'
    BY <1>5, Outside
  <2> QED  BY <1>2, <1>3, <1>4, <2>1, AheadKept
<1> QED  BY <1>6, <1>8, <1>9, <1>10, <1>11, <1>12 DEF OutboxInv

(* Emission.                                                               *)
LEMMA OutboxEmit ==
    ASSUME OutboxInv, NEW e \in Event, Emit(e) \/ EmitFails(e)
    PROVE  OutboxInv'
<1>1. TypeOK /\ Transactions /\ Locks /\ Progress /\ Copies /\ Ahead
  BY DEF OutboxInv
<1>2. /\ UNCHANGED <<worker, published, posted, graph>>
      /\ faults \in Nat /\ faults' \in Nat
      /\ faults' >= faults /\ rows[e] = "absent"
      /\ \E x \in {"queued", "lost"} : rows' = [rows EXCEPT ![e] = x]
  BY <1>1 DEF Emit, EmitFails, GoesWrong, sinks, TypeOK
<1>3. createdAt' \in [Event -> 0..MaxStamp]
  BY <1>1 DEF Emit, EmitFails, TypeOK
<1>4. TypeOK'
  BY <1>1, <1>2, <1>3 DEF TypeOK
<1>5. Transactions'
  BY <1>1, <1>2 DEF Transactions
<1>6. \A d \in Event : /\ rows[d] = "queued" => rows'[d] = "queued"
                       /\ rows[d] = "delivered" <=> rows'[d] = "delivered"
  BY <1>1, <1>2 DEF TypeOK
<1>7. \A w \in Worker : Held(w)' = Held(w) /\ Held(w) \subseteq Event
  BY <1>1, <1>2, BatchFacts DEF TypeOK, WorkerState, Held, Batch
<1>8. Locks'
  <2>1. Accepted \subseteq Accepted'
    BY <1>6 DEF Accepted
  <2> QED  BY <1>1, <1>2, <1>6, <1>7, <2>1 DEF Locks
<1>9. Progress'
  BY <1>1, <1>2, <1>6 DEF Progress, StreamDone, GraphDone
<1>10. Copies'
  <2> SUFFICES ASSUME NEW d \in Event
               PROVE  published[d] + Cardinality(InHand(d, {"publish"}))
                        <= faults' + (IF Sent(d)' THEN 1 ELSE 0)
    BY <1>2 DEF Copies, InHand, CutOff, Current
  <2>1. Sent(d)' <=> Sent(d)
    BY <1>2, <1>6 DEF Sent, StreamDone
  <2> DEFINE m == Cardinality(InHand(d, {"publish"}))
  <2>2. m \in Nat /\ published[d] \in Nat
    BY <1>1, Counted DEF TypeOK
  <2>3. published[d] + m <= faults + (IF Sent(d) THEN 1 ELSE 0)
    BY <1>1 DEF Copies
  <2> HIDE DEF m
  <2>4. published[d] + m <= faults' + (IF Sent(d) THEN 1 ELSE 0)
    BY <1>2, <2>2, <2>3
  <2> QED  BY <2>1, <2>4 DEF m
<1>11. Ahead'
  BY <1>1, <1>2 DEF Ahead, Between, At, Current
<1> QED  BY <1>4, <1>5, <1>8, <1>9, <1>10, <1>11 DEF OutboxInv

-----------------------------------------------------------------------------
(* The theorems.                                                           *)

(* Nothing is queued at the start and nobody holds anything.               *)
LEMMA OutboxInit == Init => OutboxInv
<1> SUFFICES ASSUME Init PROVE OutboxInv
  OBVIOUS
<1>1. \A w \in Worker : worker[w] = Polling
  BY DEF Init
<1>2. /\ Polling.phase = "polling" /\ Polling.batch = <<>> /\ ~Polling.tx
      /\ Polling \in WorkerState /\ Transaction(Polling)
  BY Outside DEF Polling
<1>3. \A w \in Worker : /\ Held(w) = {} /\ DOMAIN worker[w].batch = {}
                        /\ Batch(worker[w].batch) = {}
  BY <1>1, <1>2, NoBatch DEF Held
<1>4. TypeOK
  BY <1>1, <1>2, BoundsAssumption DEF Init, TypeOK, Serving
<1>5. Transactions /\ Locks
  BY <1>1, <1>2, <1>3 DEF Transactions, Locks
<1>6. Progress
  BY <1>3 DEF Init, Progress
<1>7. \A e : InHand(e, {"publish"}) = {} /\ Between(e) = {}
  BY <1>1, <1>2 DEF InHand, Between, At
<1>8. Copies
  <2>1. \A e \in Event : published[e] = 0 /\ Cardinality(InHand(e, {"publish"})) = 0
    BY <1>7, FS_EmptySet DEF Init
  <2> QED  BY <2>1 DEF Copies, Init
<1>9. Ahead
  <2>1. \A e \in Event : published[e] = 0 /\ posted[e] = 0 /\ Cardinality(Between(e)) = 0
    BY <1>7, FS_EmptySet DEF Init
  <2> QED  BY <2>1 DEF Ahead
<1> QED  BY <1>4, <1>5, <1>6, <1>8, <1>9 DEF OutboxInv

(* Every step preserves the invariant.                                     *)
LEMMA OutboxNext == OutboxInv /\ [Next]_vars => OutboxInv'
<1> SUFFICES ASSUME OutboxInv, [Next]_vars PROVE OutboxInv'
  OBVIOUS
<1>1. CASE \E e \in Event : Emit(e) \/ EmitFails(e)
  BY <1>1, OutboxEmit
<1>2. ASSUME NEW w \in Worker, WorkerNext(w) PROVE OutboxInv'
  BY <1>2, OutboxBegin, OutboxPublish, OutboxInsert, OutboxMark, OutboxCommit,
     OutboxRest, OutboxLoses, OutboxFail, OutboxCrash DEF WorkerNext, WorkerStep
<1>3. ASSUME UNCHANGED vars PROVE OutboxInv'
  <2>1. /\ TypeOK' /\ Transactions' /\ Accepted' = Accepted
        /\ \A w \in Worker : Held(w)' = Held(w)
    BY <1>3 DEF vars, OutboxInv, TypeOK, Transactions, Held, Accepted
  <2>2. Locks'
    BY <1>3, <2>1 DEF vars, OutboxInv, Locks
  <2>3. Progress'
    BY <1>3 DEF vars, OutboxInv, Progress, StreamDone, GraphDone
  <2>4. \A e \in Event : /\ Sent(e)' = Sent(e) /\ Between(e)' = Between(e)
                         /\ InHand(e, {"publish"})' = InHand(e, {"publish"})
    BY <1>3 DEF vars, Sent, StreamDone, InHand, CutOff, Current, Between, At
  <2>5. Copies' /\ Ahead'
    BY <1>3, <2>4 DEF vars, OutboxInv, Copies, Ahead
  <2> QED  BY <2>1, <2>2, <2>3, <2>5 DEF OutboxInv
<1> QED  BY <1>1, <1>2, <1>3 DEF Next, Drained

(* Hence it always holds.                                                  *)
LEMMA OutboxInvariant == Spec => []OutboxInv
BY OutboxInit, OutboxNext, PTL DEF Spec

(* Workers keep to the rows of their batches, from the first to the last.  *)
THEOREM OutboxTypeCorrect == Spec => []TypeOK
<1>1. OutboxInv => TypeOK
  BY DEF OutboxInv
<1> QED  BY <1>1, OutboxInvariant, PTL

(* However many workers poll, and whoever loses a transaction, an event    *)
(* reaches the stream once, and once more for every failure at most.       *)
THEOREM WorkersDoNotDuplicate == Spec => []CopiesNeedFaults
<1>1. ASSUME OutboxInv, NEW e \in Event PROVE published[e] <= 1 + faults
  <2> DEFINE m == Cardinality(InHand(e, {"publish"}))
  <2>1. m \in Nat /\ published[e] \in Nat /\ faults \in Nat
    BY <1>1, Counted DEF OutboxInv, TypeOK
  <2>2. published[e] + m <= faults + (IF Sent(e) THEN 1 ELSE 0)
    BY <1>1 DEF OutboxInv, Copies
  <2> HIDE DEF m
  <2> QED  BY <2>1, <2>2
<1>2. OutboxInv => CopiesNeedFaults
  BY <1>1 DEF CopiesNeedFaults
<1> QED  BY <1>2, OutboxInvariant, PTL

(* The triple store never has a copy of an event that the stream has not.  *)
THEOREM StreamComesFirst == Spec => []StreamFirst
<1>1. ASSUME OutboxInv, NEW e \in Event PROVE posted[e] <= published[e]
  <2> DEFINE m == Cardinality(Between(e))
  <2>1. m \in Nat /\ published[e] \in Nat /\ posted[e] \in Nat
    BY <1>1, Counted DEF OutboxInv, TypeOK
  <2>2. posted[e] + m <= published[e]
    BY <1>1 DEF OutboxInv, Ahead
  <2> HIDE DEF m
  <2> QED  BY <2>1, <2>2
<1>2. OutboxInv => StreamFirst
  BY <1>1 DEF StreamFirst
<1> QED  BY <1>2, OutboxInvariant, PTL

-----------------------------------------------------------------------------
(* The outbox as a channel.  Neither sink is sent a row that is not        *)
(* queued, but by a worker that was cut off, and a commit settles only     *)
(* rows that both were sent.                                               *)

Strays(P) == [e \in Event |-> Cardinality(InHand(e, P))]
AnyPhases == {{"publish"}, {"publish", "insert"}}

LEMMA StraysAre ==
    /\ StreamStrays = Strays({"publish"})
    /\ TripleStoreStrays = Strays({"publish", "insert"})
    /\ StreamStrays' = Strays({"publish"})'
    /\ TripleStoreStrays' = Strays({"publish", "insert"})'
BY DEF StreamStrays, TripleStoreStrays, Strays

(* How one worker's step changes the counts of rows in hand: not at all,   *)
(* if the worker has the same row in hand before and after, or none.       *)
LEMMA StraysKept ==
    ASSUME OutboxInv, NEW w \in Worker, NEW s \in WorkerState, Becomes(w, s),
           NEW P, \A e \in Event : w \in InHand(e, P)' <=> w \in InHand(e, P)
    PROVE  Strays(P)' = Strays(P)
<1> SUFFICES ASSUME NEW e \in Event
             PROVE  Cardinality(InHand(e, P)') = Cardinality(InHand(e, P))
  BY DEF Strays
<1> DEFINE S == InHand(e, P)  T == InHand(e, P)'
<1>1. S \in SUBSET Worker /\ T \in SUBSET Worker
  BY DEF InHand
<1>2. T \ {w} = S \ {w}
  BY Moves
<1>3. w \in S <=> w \in T
  OBVIOUS
<1> HIDE DEF S, T
<1>4. Cardinality(T) = Cardinality(S)
  BY <1>1, <1>2, <1>3, Count
<1> QED  BY <1>4 DEF S, T

(* The row a worker has in hand is the one it is at, if it is cut off.     *)
LEMMA RowInHand ==
    ASSUME NEW w \in Worker, NEW P, NEW s, worker'[w] = s
    PROVE  /\ \A e : w \in InHand(e, P)
                    <=> worker[w].phase \in P /\ CutOff(w) /\ e = Current(w)
           /\ \A e : w \in InHand(e, P)'
                    <=> /\ s.phase \in P /\ s.phase \in InBatch /\ ~s.tx
                        /\ e = s.batch[s.next]
<1>1. \A e : w \in InHand(e, P)
             <=> worker[w].phase \in P /\ CutOff(w) /\ e = Current(w)
  BY DEF InHand
<1>2. \A e : w \in InHand(e, P)'
             <=> /\ s.phase \in P /\ s.phase \in InBatch /\ ~s.tx
                 /\ e = s.batch[s.next]
  BY DEF InHand, CutOff, Current
<1> QED  BY <1>1, <1>2

(* By one, for the row that the worker has in hand after or before.        *)
LEMMA StraysChange ==
    ASSUME OutboxInv, NEW w \in Worker, NEW s \in WorkerState, Becomes(w, s),
           NEW P, NEW c \in Event,
           \A e \in Event \ {c} : w \notin InHand(e, P)' /\ w \notin InHand(e, P)
    PROVE  /\ w \in InHand(c, P)' /\ w \notin InHand(c, P)
                => Strays(P)' = [Strays(P) EXCEPT ![c] = @ + 1]
           /\ w \notin InHand(c, P)' /\ w \in InHand(c, P)
                => Strays(P)[c] > 0 /\ Strays(P)' = [Strays(P) EXCEPT ![c] = @ - 1]
<1>1. ASSUME NEW e \in Event
      PROVE  /\ e # c => Cardinality(InHand(e, P)') = Cardinality(InHand(e, P))
             /\ w \in InHand(e, P)' /\ w \notin InHand(e, P)
                  => Cardinality(InHand(e, P)') = Cardinality(InHand(e, P)) + 1
             /\ w \notin InHand(e, P)' /\ w \in InHand(e, P)
                  => /\ Cardinality(InHand(e, P)) > 0
                     /\ Cardinality(InHand(e, P)') = Cardinality(InHand(e, P)) - 1
  <2> DEFINE S == InHand(e, P)  T == InHand(e, P)'
  <2>1. S \in SUBSET Worker /\ T \in SUBSET Worker
    BY DEF InHand
  <2>2. T \ {w} = S \ {w}
    BY Moves
  <2>3. e # c => w \notin S /\ w \notin T
    OBVIOUS
  <2> HIDE DEF S, T
  <2>4. /\ e # c => Cardinality(T) = Cardinality(S)
        /\ w \in T /\ w \notin S => Cardinality(T) = Cardinality(S) + 1
        /\ w \notin T /\ w \in S
             => Cardinality(S) > 0 /\ Cardinality(T) = Cardinality(S) - 1
    BY <2>1, <2>2, <2>3, Count
  <2> QED  BY <2>4 DEF S, T
<1> QED  BY <1>1 DEF Strays

(* Every step of the outbox is a step of both channels, or of one, or of   *)
(* none.                                                                   *)
StreamStep == [Stream!ChannelNext]_<<Accepted, published, Settled, StreamStrays>>
TripleStoreStep ==
    [TripleStore!ChannelNext]_<<Accepted, posted, Settled, TripleStoreStrays>>

(* A worker that has no row in hand, before or after, and sends nothing.   *)
LEMMA ChannelIdle ==
    ASSUME OutboxInv, NEW w \in Worker, NEW s \in WorkerState, Becomes(w, s),
           worker[w].tx \/ worker[w].phase \notin {"publish", "insert"},
           s.tx \/ s.phase \notin {"publish", "insert"}
    PROVE  UNCHANGED <<StreamStrays, TripleStoreStrays>>
<1>1. worker'[w] = s
  BY Moves
<1>2. \A P \in AnyPhases : \A e : w \notin InHand(e, P) /\ w \notin InHand(e, P)'
  BY <1>1 DEF AnyPhases, InHand, CutOff
<1>3. \A P \in AnyPhases : Strays(P)' = Strays(P)
  <2> SUFFICES ASSUME NEW P \in AnyPhases PROVE Strays(P)' = Strays(P)
    OBVIOUS
  <2> QED  BY <1>2, StraysKept
<1> QED  BY <1>3, StraysAre DEF AnyPhases

LEMMA ChannelEmit ==
    ASSUME OutboxInv, NEW e \in Event, Emit(e) \/ EmitFails(e)
    PROVE  StreamStep /\ TripleStoreStep
<1>1. UNCHANGED <<StreamStrays, TripleStoreStrays, published, posted>>
  <2>1. worker' = worker /\ UNCHANGED <<published, posted>>
    BY DEF Emit, EmitFails, sinks
  <2> QED  BY <2>1 DEF StreamStrays, TripleStoreStrays, InHand, CutOff, Current
<1>2. CASE Emit(e)
  <2>1. e \notin Accepted /\ Accepted' = Accepted \cup {e} /\ Settled' = Settled
    BY <1>2 DEF Emit, Accepted, Settled, OutboxInv, TypeOK
  <2>2. Stream!Accept(e) /\ TripleStore!Accept(e)
    BY <1>1, <2>1 DEF Stream!Accept, TripleStore!Accept
  <2> QED  BY <2>2 DEF StreamStep, TripleStoreStep, Stream!ChannelNext,
                       TripleStore!ChannelNext
<1>3. CASE EmitFails(e)
  <2>1. Accepted' = Accepted /\ Settled' = Settled
    BY <1>3 DEF EmitFails, Accepted, Settled, OutboxInv, TypeOK
  <2> QED  BY <1>1, <2>1 DEF StreamStep, TripleStoreStep
<1> QED  BY <1>2, <1>3

LEMMA ChannelPublish ==
    ASSUME OutboxInv, NEW w \in Worker, Publish(w)
    PROVE  StreamStep /\ TripleStoreStep
<1> DEFINE s == [worker[w] EXCEPT !.phase = "insert"]
<1>0. PICK c \in Event : c = Current(w)
  BY CurrentRow DEF Publish, At, Serving
<1>1. /\ worker[w].phase = "publish" /\ worker[w] \in WorkerState
      /\ UNCHANGED <<rows, posted>> /\ Becomes(w, s)
      /\ published' = [published EXCEPT ![c] = @ + 1]
  BY <1>0 DEF Publish, At, table, OutboxInv, TypeOK
<1>2. /\ s \in WorkerState /\ s.phase = "insert" /\ s.batch = worker[w].batch
      /\ s.next = worker[w].next /\ s.tx = worker[w].tx
  BY <1>1 DEF WorkerState, Phase, InBatch, Serving
<1> HIDE DEF s
<1>3. UNCHANGED <<Accepted, Settled>>
  BY <1>1 DEF Accepted, Settled
<1>4. worker'[w] = s
  BY <1>1, <1>2, Moves
<1>5. TripleStoreStrays' = TripleStoreStrays
  <2> DEFINE P == {"publish", "insert"}
  <2>1. \A e : w \in InHand(e, P)' <=> w \in InHand(e, P)
    BY <1>1, <1>2, <1>4 DEF InHand, CutOff, Current, InBatch, Serving
  <2>2. Strays(P)' = Strays(P)
    BY <1>1, <1>2, <2>1, StraysKept
  <2> QED  BY <2>2, StraysAre
<1>6. TripleStoreStep
  BY <1>1, <1>3, <1>5 DEF TripleStoreStep
<1>7. CASE worker[w].tx
  <2>1. c \in Accepted \ Settled
    <3>1. rows[c] = "queued"
      BY <1>0, <1>1, <1>7, LockedRow DEF Serving
    <3> QED  BY <3>1 DEF Accepted, Settled
  <2>2. StreamStrays' = StreamStrays
    BY <1>1, <1>2, <1>7, ChannelIdle
  <2>3. Stream!Send(c)
    BY <1>1, <1>3, <2>1, <2>2 DEF Stream!Send
  <2> QED  BY <1>1, <1>6, <2>3 DEF StreamStep, Stream!ChannelNext
<1>8. CASE ~worker[w].tx
  <2> DEFINE P == {"publish"}
  <2>1. /\ \A e \in Event \ {c} : w \notin InHand(e, P)' /\ w \notin InHand(e, P)
        /\ w \notin InHand(c, P)' /\ w \in InHand(c, P)
    <3>1. /\ \A e : w \in InHand(e, P)
                    <=> worker[w].phase \in P /\ CutOff(w) /\ e = Current(w)
          /\ \A e : w \in InHand(e, P)'
                    <=> /\ s.phase \in P /\ s.phase \in InBatch /\ ~s.tx
                        /\ e = s.batch[s.next]
      BY <1>4, RowInHand
    <3>2. worker[w].phase \in P /\ CutOff(w) /\ s.phase \notin P
      BY <1>1, <1>2, <1>8 DEF CutOff, InBatch, Serving
    <3> HIDE DEF P
    <3> QED  BY <1>0, <3>1, <3>2
  <2>2. Strays(P)[c] > 0 /\ Strays(P)' = [Strays(P) EXCEPT ![c] = @ - 1]
    BY <1>1, <1>2, <2>1, StraysChange
  <2>3. StreamStrays[c] > 0 /\ StreamStrays' = [StreamStrays EXCEPT ![c] = @ - 1]
    BY <2>2, StraysAre
  <2>4. Stream!StraySend(c)
    BY <1>1, <1>3, <2>3 DEF Stream!StraySend
  <2> QED  BY <1>1, <1>6, <2>4 DEF StreamStep, Stream!ChannelNext
<1> QED  BY <1>7, <1>8

LEMMA ChannelInsert ==
    ASSUME OutboxInv, NEW w \in Worker, Insert(w)
    PROVE  StreamStep /\ TripleStoreStep
<1> DEFINE s == [worker[w] EXCEPT !.phase = "answer"]
<1>0. PICK c \in Event : c = Current(w)
  BY CurrentRow DEF Insert, At, Serving
<1>1. /\ worker[w].phase = "insert" /\ worker[w] \in WorkerState
      /\ UNCHANGED <<rows, published>> /\ Becomes(w, s)
      /\ posted' = [posted EXCEPT ![c] = @ + 1]
  BY <1>0 DEF Insert, At, table, OutboxInv, TypeOK
<1>2. /\ s \in WorkerState /\ s.phase = "answer"
  BY <1>1 DEF WorkerState, Phase, InBatch, Serving
<1> HIDE DEF s
<1>3. UNCHANGED <<Accepted, Settled>>
  BY <1>1 DEF Accepted, Settled
<1>4. worker'[w] = s
  BY <1>1, <1>2, Moves
<1>5. StreamStrays' = StreamStrays
  <2> DEFINE P == {"publish"}
  <2>1. \A e : w \in InHand(e, P)' <=> w \in InHand(e, P)
    BY <1>1, <1>2, <1>4 DEF InHand
  <2>2. Strays(P)' = Strays(P)
    BY <1>1, <1>2, <2>1, StraysKept
  <2> QED  BY <2>2, StraysAre
<1>6. StreamStep
  BY <1>1, <1>3, <1>5 DEF StreamStep
<1>7. CASE worker[w].tx
  <2>1. c \in Accepted \ Settled
    <3>1. rows[c] = "queued"
      BY <1>0, <1>1, <1>7, LockedRow DEF Serving
    <3> QED  BY <3>1 DEF Accepted, Settled
  <2>2. TripleStoreStrays' = TripleStoreStrays
    BY <1>1, <1>2, <1>7, ChannelIdle
  <2>3. TripleStore!Send(c)
    BY <1>1, <1>3, <2>1, <2>2 DEF TripleStore!Send
  <2> QED  BY <1>1, <1>6, <2>3 DEF TripleStoreStep, TripleStore!ChannelNext
<1>8. CASE ~worker[w].tx
  <2> DEFINE P == {"publish", "insert"}
  <2>1. /\ \A e \in Event \ {c} : w \notin InHand(e, P)' /\ w \notin InHand(e, P)
        /\ w \notin InHand(c, P)' /\ w \in InHand(c, P)
    <3>1. /\ \A e : w \in InHand(e, P)
                    <=> worker[w].phase \in P /\ CutOff(w) /\ e = Current(w)
          /\ \A e : w \in InHand(e, P)'
                    <=> /\ s.phase \in P /\ s.phase \in InBatch /\ ~s.tx
                        /\ e = s.batch[s.next]
      BY <1>4, RowInHand
    <3>2. worker[w].phase \in P /\ CutOff(w) /\ s.phase \notin P
      BY <1>1, <1>2, <1>8 DEF CutOff, InBatch, Serving
    <3> HIDE DEF P
    <3> QED  BY <1>0, <3>1, <3>2
  <2>2. Strays(P)[c] > 0 /\ Strays(P)' = [Strays(P) EXCEPT ![c] = @ - 1]
    BY <1>1, <1>2, <2>1, StraysChange
  <2>3. /\ TripleStoreStrays[c] > 0
        /\ TripleStoreStrays' = [TripleStoreStrays EXCEPT ![c] = @ - 1]
    BY <2>2, StraysAre
  <2>4. TripleStore!StraySend(c)
    BY <1>1, <1>3, <2>3 DEF TripleStore!StraySend
  <2> QED  BY <1>1, <1>6, <2>4 DEF TripleStoreStep, TripleStore!ChannelNext
<1> QED  BY <1>7, <1>8

(* A worker is cut off with a row in hand, or was and stops.               *)
LEMMA ChannelCutOff ==
    ASSUME OutboxInv, NEW w \in Worker, LosesSession(w)
    PROVE  StreamStep /\ TripleStoreStep
<1> DEFINE s == [worker[w] EXCEPT !.tx = FALSE]
<1>1. /\ UNCHANGED <<rows, published, posted>> /\ Becomes(w, s)
      /\ worker[w] \in WorkerState /\ worker[w].tx
  BY DEF LosesSession, table, sinks, OutboxInv, TypeOK
<1>2. /\ s \in WorkerState /\ s.phase = worker[w].phase /\ s.batch = worker[w].batch
      /\ s.next = worker[w].next /\ ~s.tx
  BY <1>1 DEF WorkerState
<1> HIDE DEF s
<1>3. UNCHANGED <<Accepted, Settled, published, posted>> /\ worker'[w] = s
  BY <1>1, <1>2, Moves DEF Accepted, Settled
<1>4. ASSUME NEW P \in AnyPhases
      PROVE  \/ Strays(P)' = Strays(P)
             \/ \E c \in Accepted \ Settled :
                   Strays(P)' = [Strays(P) EXCEPT ![c] = @ + 1]
  <2>1. CASE worker[w].phase \in P
    <3>1. worker[w].phase \in Serving
      BY <1>4, <2>1 DEF AnyPhases, Serving
    <3>2. PICK c \in Accepted \ Settled : c = Current(w) /\ c \in Event
      BY <1>1, <3>1, CurrentRow, LockedRow DEF Settled
    <3>3. /\ \A e \in Event \ {c} : w \notin InHand(e, P)' /\ w \notin InHand(e, P)
          /\ w \in InHand(c, P)' /\ w \notin InHand(c, P)
      <4>1. /\ \A e : w \in InHand(e, P)
                      <=> worker[w].phase \in P /\ CutOff(w) /\ e = Current(w)
            /\ \A e : w \in InHand(e, P)'
                      <=> /\ s.phase \in P /\ s.phase \in InBatch /\ ~s.tx
                          /\ e = s.batch[s.next]
        BY <1>3, RowInHand
      <4>2. /\ s.phase \in P /\ s.phase \in InBatch /\ ~s.tx /\ c = s.batch[s.next]
            /\ ~CutOff(w)
        BY <1>1, <1>2, <2>1, <3>1, <3>2 DEF CutOff, Current, InBatch
      <4> QED  BY <3>2, <4>1, <4>2
    <3>4. Strays(P)' = [Strays(P) EXCEPT ![c] = @ + 1]
      BY <1>1, <1>2, <3>2, <3>3, StraysChange
    <3> QED  BY <3>4
  <2>2. CASE worker[w].phase \notin P
    <3>1. \A e : w \in InHand(e, P)' <=> w \in InHand(e, P)
      BY <1>2, <1>3, <2>2 DEF InHand
    <3> QED  BY <1>1, <1>2, <3>1, StraysKept
  <2> QED  BY <2>1, <2>2
<1>5. StreamStep
  <2>1. \/ StreamStrays' = StreamStrays
        \/ \E c \in Accepted \ Settled :
              StreamStrays' = [StreamStrays EXCEPT ![c] = @ + 1]
    BY <1>4, StraysAre DEF AnyPhases
  <2> QED  BY <1>3, <2>1 DEF Accepted, StreamStep, Stream!ChannelNext, Stream!CutOff
<1>6. TripleStoreStep
  <2>1. \/ TripleStoreStrays' = TripleStoreStrays
        \/ \E c \in Accepted \ Settled :
              TripleStoreStrays' = [TripleStoreStrays EXCEPT ![c] = @ + 1]
    BY <1>4, StraysAre DEF AnyPhases
  <2> QED  BY <1>3, <2>1 DEF Accepted, TripleStoreStep, TripleStore!ChannelNext, TripleStore!CutOff
<1> QED  BY <1>5, <1>6

LEMMA ChannelFail ==
    ASSUME OutboxInv, NEW w \in Worker, Fail(w)
    PROVE  StreamStep /\ TripleStoreStep
<1>1. UNCHANGED <<rows, published, posted>> /\ Becomes(w, Down)
  BY DEF Fail, table, sinks
<1>2. /\ Down \in WorkerState /\ Down.phase = "down" /\ ~Down.tx
  BY Outside DEF Down
<1>3. UNCHANGED <<Accepted, Settled, published, posted>> /\ worker'[w] = Down
  BY <1>1, <1>2, Moves DEF Accepted, Settled
<1>4. ASSUME NEW P \in AnyPhases
      PROVE  \/ Strays(P)' = Strays(P)
             \/ \E c \in Event : /\ Strays(P)[c] > 0
                                 /\ Strays(P)' = [Strays(P) EXCEPT ![c] = @ - 1]
  <2>0. \A e : w \notin InHand(e, P)'
    <3>1. "down" \notin P
      BY <1>4 DEF AnyPhases
    <3> QED  BY <1>2, <1>3, <3>1 DEF InHand
  <2>1. CASE worker[w].phase \in P /\ CutOff(w)
    <3>1. worker[w].phase \in Serving
      BY <1>4, <2>1 DEF AnyPhases, Serving
    <3>2. PICK c \in Event : c = Current(w)
      BY <3>1, CurrentRow
    <3>3. /\ \A e \in Event \ {c} : w \notin InHand(e, P)' /\ w \notin InHand(e, P)
          /\ w \notin InHand(c, P)' /\ w \in InHand(c, P)
      <4>1. \A e : w \in InHand(e, P)
                   <=> worker[w].phase \in P /\ CutOff(w) /\ e = Current(w)
        BY <1>3, RowInHand
      <4> QED  BY <2>0, <2>1, <3>2, <4>1
    <3>4. Strays(P)[c] > 0 /\ Strays(P)' = [Strays(P) EXCEPT ![c] = @ - 1]
      BY <1>1, <1>2, <3>2, <3>3, StraysChange
    <3> QED  BY <3>2, <3>4
  <2>2. CASE ~(worker[w].phase \in P /\ CutOff(w))
    <3>1. \A e : w \in InHand(e, P)' <=> w \in InHand(e, P)
      BY <2>0, <2>2 DEF InHand
    <3> QED  BY <1>1, <1>2, <3>1, StraysKept
  <2> QED  BY <2>1, <2>2
<1>5. StreamStep
  <2>1. \/ StreamStrays' = StreamStrays
        \/ \E c \in Event : /\ StreamStrays[c] > 0
                            /\ StreamStrays' = [StreamStrays EXCEPT ![c] = @ - 1]
    BY <1>4, StraysAre DEF AnyPhases
  <2> QED  BY <1>3, <2>1 DEF StreamStep, Stream!ChannelNext, Stream!StrayStops
<1>6. TripleStoreStep
  <2>1. \/ TripleStoreStrays' = TripleStoreStrays
        \/ \E c \in Event : /\ TripleStoreStrays[c] > 0
                            /\ TripleStoreStrays' = [TripleStoreStrays EXCEPT ![c] = @ - 1]
    BY <1>4, StraysAre DEF AnyPhases
  <2> QED  BY <1>3, <2>1 DEF TripleStoreStep, TripleStore!ChannelNext,
                             TripleStore!StrayStops
<1> QED  BY <1>5, <1>6

LEMMA ChannelCommit ==
    ASSUME OutboxInv, NEW w \in Worker, Commit(w)
    PROVE  StreamStep /\ TripleStoreStep
<1>1. PICK s \in {Polling, Down} : Becomes(w, s)
  BY DEF Commit
<1>2. /\ s \in WorkerState /\ s.phase \in {"polling", "down"}
      /\ worker[w].tx /\ worker[w].phase = "commit"
      /\ UNCHANGED <<published, posted>>
  BY Outside DEF Commit, At, sinks
<1>3. UNCHANGED <<StreamStrays, TripleStoreStrays>>
  BY <1>1, <1>2, ChannelIdle
<1>4. /\ Marked(w) = Held(w)
      /\ \A e \in Held(w) : /\ e \in Event /\ rows[e] = "queued"
                            /\ published[e] > 0 /\ posted[e] > 0
  BY <1>2, Committing
<1>5. /\ Held(w) \subseteq Accepted \ Settled
      /\ Accepted' = Accepted /\ Settled' = Settled \cup Held(w)
  BY <1>4 DEF Commit, Accepted, Settled, OutboxInv, TypeOK
<1>6. Held(w) \in SUBSET Event
  BY <1>4
<1>7. Stream!Settle(Held(w)) /\ TripleStore!Settle(Held(w))
  BY <1>2, <1>3, <1>4, <1>5 DEF Stream!Settle, TripleStore!Settle
<1> QED  BY <1>6, <1>7 DEF StreamStep, TripleStoreStep, Stream!ChannelNext,
                           TripleStore!ChannelNext

LEMMA ChannelQuiet ==
    ASSUME OutboxInv, NEW w \in Worker,
           \/ BeginBatch(w) \/ Answer(w) \/ Mark(w) \/ GivesUp(w) \/ Crash(w)
           \/ SessionEnds(w) \/ Restart(w)
    PROVE  StreamStep /\ TripleStoreStep
<1>1. UNCHANGED <<rows, published, posted>> /\ worker[w] \in WorkerState
  BY DEF BeginBatch, Answer, Mark, GivesUp, Crash, SessionEnds, Restart, table, sinks,
         OutboxInv, TypeOK
<1>2. PICK s \in WorkerState :
        /\ Becomes(w, s)
        /\ worker[w].tx \/ worker[w].phase \notin {"publish", "insert"}
        /\ s.tx \/ s.phase \notin {"publish", "insert"}
  <2>1. CASE BeginBatch(w)
    <3>1. PICK b \in Batches :
            Becomes(w, [phase |-> "publish", batch |-> b, next |-> 1, tx |-> TRUE])
      BY <2>1 DEF BeginBatch
    <3> DEFINE s == [phase |-> "publish", batch |-> b, next |-> 1, tx |-> TRUE]
    <3>2. s \in WorkerState /\ s.tx = TRUE
      BY DEF WorkerState, Phase, InBatch, Serving
    <3>3. worker[w].phase = "polling"
      BY <2>1 DEF BeginBatch, At
    <3> QED  BY <3>1, <3>2, <3>3
  <2>2. CASE Answer(w)
    <3> DEFINE s == [worker[w] EXCEPT !.phase = "mark"]
    <3>1. s \in WorkerState /\ s.phase = "mark"
      BY <1>1 DEF WorkerState, Phase, InBatch, Serving
    <3> QED  BY <2>2, <3>1 DEF Answer, At
  <2>3. CASE Mark(w)
    <3> DEFINE n == worker[w].next
               b == worker[w].batch
               ph == IF n = Len(b) THEN "commit" ELSE "publish"
               m == n + 1
               s == [worker[w] EXCEPT !.next = m, !.phase = ph]
    <3>1. ph \in Phase /\ m \in Nat
      BY <1>1 DEF Phase, InBatch, Serving, WorkerState
    <3>2. s \in WorkerState /\ s.tx = worker[w].tx
      <4> HIDE DEF ph, m
      <4> QED  BY <1>1, <3>1 DEF WorkerState
    <3>3. Becomes(w, s) /\ worker[w].tx
      BY <2>3 DEF Mark
    <3> HIDE DEF s
    <3> QED  BY <3>2, <3>3
  <2>4. CASE Crash(w)
    <3> DEFINE s == [worker[w] EXCEPT !.phase = "dead"]
    <3>1. s \in WorkerState /\ s.phase = "dead"
      BY <1>1 DEF WorkerState, Phase
    <3> QED  BY <2>4, <3>1 DEF Crash
  <2>5. CASE GivesUp(w) \/ SessionEnds(w) \/ Restart(w)
    <3>1. PICK s \in {Polling, Down} : Becomes(w, s)
      BY <2>5 DEF GivesUp, SessionEnds, Restart
    <3>2. s \in WorkerState /\ s.phase \in {"polling", "down"}
      BY Outside
    <3>3. worker[w].phase \notin {"publish", "insert"}
      BY <2>5 DEF GivesUp, SessionEnds, Restart, At
    <3> QED  BY <3>1, <3>2, <3>3
  <2> QED  BY <2>1, <2>2, <2>3, <2>4, <2>5
<1>3. UNCHANGED <<StreamStrays, TripleStoreStrays>>
  BY <1>2, ChannelIdle
<1>4. UNCHANGED <<Accepted, Settled>>
  BY <1>1 DEF Accepted, Settled
<1> QED  BY <1>1, <1>3, <1>4 DEF StreamStep, TripleStoreStep

LEMMA ChannelStep ==
    OutboxInv /\ [Next]_vars => StreamStep /\ TripleStoreStep
<1> SUFFICES ASSUME OutboxInv, [Next]_vars PROVE StreamStep /\ TripleStoreStep
  OBVIOUS
<1>1. CASE \E e \in Event : Emit(e) \/ EmitFails(e)
  BY <1>1, ChannelEmit
<1>2. ASSUME NEW w \in Worker, WorkerNext(w) PROVE StreamStep /\ TripleStoreStep
  BY <1>2, ChannelPublish, ChannelInsert, ChannelCutOff, ChannelFail, ChannelCommit,
     ChannelQuiet DEF WorkerNext, WorkerStep
<1>3. ASSUME UNCHANGED vars PROVE StreamStep /\ TripleStoreStep
  <2>1. UNCHANGED <<Accepted, published, posted, Settled, StreamStrays, TripleStoreStrays>>
    BY <1>3 DEF vars, Accepted, Settled, StreamStrays, TripleStoreStrays, InHand, CutOff,
                Current
  <2> QED  BY <2>1 DEF StreamStep, TripleStoreStep
<1> QED  BY <1>1, <1>2, <1>3 DEF Next, Drained

LEMMA ChannelStart == Init => Stream!ChannelInit /\ TripleStore!ChannelInit
<1> SUFFICES ASSUME Init PROVE Stream!ChannelInit /\ TripleStore!ChannelInit
  OBVIOUS
<1>1. \A e, P : InHand(e, P) = {}
  BY DEF Init, InHand, CutOff, Polling, InBatch, Serving
<1>2. /\ StreamStrays = [e \in Event |-> 0] /\ TripleStoreStrays = [e \in Event |-> 0]
  BY <1>1, FS_EmptySet DEF StreamStrays, TripleStoreStrays
<1> QED  BY <1>2 DEF Init, Accepted, Settled, Stream!ChannelInit, TripleStore!ChannelInit

(* Towards the stream, the outbox implements an at-least-once channel: a   *)
(* worker whose transaction is gone sends the row in its hand and no more. *)
THEOREM StreamImplemented == Spec => StreamSpec
BY ChannelStart, ChannelStep, OutboxInvariant, PTL
   DEF Spec, StreamSpec, Stream!ChannelSpec, StreamStep

(* And so it does towards the triple store, with its POST.                 *)
THEOREM TripleStoreImplemented == Spec => TripleStoreSpec
BY ChannelStart, ChannelStep, OutboxInvariant, PTL
   DEF Spec, TripleStoreSpec, TripleStore!ChannelSpec, TripleStoreStep
=============================================================================

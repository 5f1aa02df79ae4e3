--------------------------- MODULE LifecycleProofs ---------------------------
(***************************************************************************)
(* Any number of API processes of any builds, which migrate one database,  *)
(* serve and stop, whatever fails.                                         *)
(***************************************************************************)
EXTENDS ServerLifecycle, TLAPS

-----------------------------------------------------------------------------
(* The inductive invariant.                                                *)

(* The recorded versions are 0..v.                                         *)
Contiguous == applied = <<>> \/ \E v \in 0..Last : Recorded = 0..v

Wired == {"untrapped", "serving", "draining", "cleanup"}
Answering == {"untrapped", "serving", "draining"}

(* What a process knows of the schema, and what it has open.               *)
Fit(p) ==
    /\ p.phase \in {"list", "migrate", "tx"} => applied # <<>>
    /\ p.phase \in {"migrate", "tx"} => 0..p.todo - 1 \subseteq Recorded
    /\ p.phase = "tx" => p.todo <= p.build
    /\ p.phase \in {"wire"} \cup Wired => 1..p.build \subseteq Recorded
    /\ p.phase \in Wired => p.pools = Pools
    /\ p.listener = "open" => p.phase \in {"untrapped", "serving"}

(* A migration that may not run twice is nobody else's while it is open.   *)
Alone(i, p) ==
    p.phase = "tx" /\ p.todo \notin Repeatable =>
        p.todo \notin Recorded /\ ~RunsToo(i, p.todo)

Held ==
    \A r \in Request : req[r].at = "running" =>
        req[r].on \in Instance /\ inst[req[r].on].phase \in Answering

LifeInv ==
    /\ TypeOK /\ Contiguous /\ MigratedOnce
    /\ \A i \in Instance : Fit(inst[i]) /\ Alone(i, inst[i])
    /\ Held /\ GracefulStopCutsNothing

-----------------------------------------------------------------------------
(* The versions table.                                                     *)

LEMMA Top ==
    ASSUME NEW v \in Nat
    PROVE  (CHOOSE m \in 0..v : \A w \in 0..v : w <= m) = v
<1>1. v \in 0..v /\ \A w \in 0..v : w <= v
  OBVIOUS
<1>2. \A m \in 0..v : (\A w \in 0..v : w <= m) => m = v
  BY <1>1
<1> QED  BY <1>1, <1>2

LEMMA Recording ==
    ASSUME applied \in Seq(0..Last), NEW k \in 0..Last, applied' = Append(applied, k)
    PROVE  /\ applied' \in Seq(0..Last) /\ applied' # <<>>
           /\ Recorded' = Recorded \cup {k}
           /\ DOMAIN applied' = 1..Len(applied) + 1 /\ DOMAIN applied = 1..Len(applied)
           /\ Len(applied) \in Nat
           /\ \A n \in DOMAIN applied : applied'[n] = applied[n]
           /\ applied'[Len(applied) + 1] = k
<1>1. /\ applied' \in Seq(0..Last) /\ Len(applied') = Len(applied) + 1
      /\ DOMAIN applied' = 1..Len(applied) + 1 /\ DOMAIN applied = 1..Len(applied)
      /\ Len(applied) \in Nat
      /\ \A n \in DOMAIN applied : applied'[n] = applied[n]
      /\ applied'[Len(applied) + 1] = k
  OBVIOUS
<1>2. applied' # <<>>
  BY <1>1
<1>3. Recorded' = Recorded \cup {k}
  BY <1>1 DEF Recorded
<1> QED  BY <1>1, <1>2, <1>3

(* What a step of i may do to the table.                                   *)
Grown(i) ==
    /\ applied' \in Seq(0..Last) /\ Contiguous' /\ MigratedOnce'
    /\ Recorded \subseteq Recorded'
    /\ applied # <<>> => applied' # <<>>
    /\ \A j \in Instance \ {i} :
          inst[j].phase = "tx" /\ inst[j].todo \notin Repeatable
          => inst[j].todo \notin Recorded'

LEMMA NotGrown ==
    ASSUME LifeInv, NEW i \in Instance, applied' = applied
    PROVE  Grown(i)
<1>1. Recorded' = Recorded
  BY DEF Recorded
<1>2. Contiguous' /\ MigratedOnce'
  BY <1>1 DEF LifeInv, Contiguous, MigratedOnce
<1> QED  BY <1>1, <1>2 DEF LifeInv, TypeOK, Grown, Alone

LEMMA FirstRow ==
    ASSUME LifeInv, NEW i \in Instance, applied = <<>>, applied' = << 0 >>
    PROVE  Grown(i)
<1>1. 0 \in 0..Last /\ applied' \in Seq(0..Last) /\ applied' # <<>>
      /\ DOMAIN applied' = {1} /\ applied'[1] = 0
  BY VersionsAssumption
<1>2. Recorded = {} /\ Recorded' = {0} /\ 0..0 = {0}
  BY <1>1 DEF Recorded
<1>3. Contiguous' /\ MigratedOnce'
  BY <1>1, <1>2 DEF Contiguous, MigratedOnce
<1>4. \A j \in Instance : inst[j].phase = "tx" => inst[j].todo # 0
  BY DEF LifeInv, TypeOK, Process
<1> QED  BY <1>1, <1>2, <1>3, <1>4 DEF Grown

LEMMA NextRow ==
    ASSUME LifeInv, NEW i \in Instance, At(i, "tx"),
           applied' = Append(applied, inst[i].todo)
    PROVE  Grown(i) /\ inst[i].todo \in Recorded'
<1> DEFINE k == inst[i].todo
<1>1. k \in 1..Last /\ applied \in Seq(0..Last) /\ applied # <<>>
      /\ 0..k - 1 \subseteq Recorded
  BY VersionsAssumption DEF LifeInv, TypeOK, Process, Fit, At
<1>2. Alone(i, inst[i])
  BY DEF LifeInv
<1> HIDE DEF k
<1>3. /\ applied' \in Seq(0..Last) /\ applied' # <<>>
      /\ Recorded' = Recorded \cup {k}
      /\ DOMAIN applied' = 1..Len(applied) + 1 /\ DOMAIN applied = 1..Len(applied)
      /\ Len(applied) \in Nat
      /\ \A n \in DOMAIN applied : applied'[n] = applied[n]
      /\ applied'[Len(applied) + 1] = k
  BY <1>1, Recording DEF k
<1>4. Contiguous'
  <2>1. PICK v \in 0..Last : Recorded = 0..v
    BY <1>1 DEF LifeInv, Contiguous
  <2>2. k - 1 \in 0..v
    BY <1>1, <2>1
  <2>3. k \in 0..v \/ k = v + 1
    BY <1>1, <2>2
  <2>4. Recorded' = 0..v \/ (Recorded' = 0..v + 1 /\ v + 1 \in 0..Last)
    BY <1>1, <1>3, <2>1, <2>3
  <2> QED  BY <2>1, <2>4 DEF Contiguous
<1>5. MigratedOnce'
  <2> SUFFICES ASSUME NEW m \in DOMAIN applied', NEW n \in DOMAIN applied', m # n,
                      applied'[m] = applied'[n]
               PROVE  applied'[m] \in Repeatable
    BY DEF MigratedOnce
  <2>1. CASE m \in DOMAIN applied /\ n \in DOMAIN applied
    BY <1>3, <2>1 DEF LifeInv, MigratedOnce
  <2>2. CASE ~(m \in DOMAIN applied /\ n \in DOMAIN applied)
    <3>1. applied'[m] = k /\ k \in Recorded
      BY <1>3, <2>2 DEF Recorded
    <3> QED  BY <1>2, <3>1 DEF Alone, At, k
  <2> QED  BY <2>1, <2>2
<1>6. ASSUME NEW j \in Instance \ {i}, inst[j].phase = "tx", inst[j].todo \notin Repeatable
      PROVE  inst[j].todo \notin Recorded'
  <2>1. inst[j].todo \notin Recorded /\ ~RunsToo(j, inst[j].todo)
    BY <1>6 DEF LifeInv, Alone
  <2>2. inst[j].todo # k
    BY <2>1 DEF RunsToo, At, k
  <2> QED  BY <1>3, <2>1, <2>2
<1> QED  BY <1>3, <1>4, <1>5, <1>6 DEF Grown, k

-----------------------------------------------------------------------------
(* A process that moves, and one that ends.                                *)

(* Only process i moves.                                                   *)
Moved(i) ==
    /\ inst' \in [Instance -> Process]
    /\ \A j \in Instance \ {i} : inst'[j] = inst[j]

(* It holds no lock, or one that nobody else holds or wants.               *)
Locks(i) ==
    inst'[i].phase = "tx" =>
        \/ inst'[i].todo \in Repeatable
        \/ inst'[i].todo \notin Recorded' /\ ~RunsToo(i, inst'[i].todo)

LEMMA OthersFit ==
    ASSUME LifeInv, NEW i \in Instance, Moved(i), Grown(i), Fit(inst[i])', Locks(i)
    PROVE  \A j \in Instance : Fit(inst[j])' /\ Alone(j, inst[j])'
<1>1. ASSUME NEW j \in Instance \ {i}
      PROVE  Fit(inst[j])'
  <2>1. Fit(inst[j]) /\ Recorded \subseteq Recorded' /\ (applied # <<>> => applied' # <<>>)
    BY DEF LifeInv, Grown
  <2> QED  BY <2>1 DEF Fit, Moved
<1>2. ASSUME NEW d \in Instance \ {i}, inst[d].phase = "tx", inst[d].todo \notin Repeatable
      PROVE  inst[d].todo \notin Recorded' /\ ~RunsToo(d, inst[d].todo)
  BY <1>2 DEF LifeInv, Alone, Grown
<1>3. Alone(i, inst[i])'
  <2> SUFFICES ASSUME inst'[i].phase = "tx", inst'[i].todo \notin Repeatable
               PROVE  inst'[i].todo \notin Recorded' /\ ~(RunsToo(i, inst[i].todo)')
    BY DEF Alone
  <2>1. inst'[i].todo \notin Recorded' /\ ~RunsToo(i, inst'[i].todo)
    BY DEF Locks
  <2> QED  BY <2>1 DEF RunsToo, At, Moved
<1>4. ASSUME NEW j \in Instance \ {i}
      PROVE  Alone(j, inst[j])'
  <2> SUFFICES ASSUME inst'[j].phase = "tx", inst'[j].todo \notin Repeatable
               PROVE  inst'[j].todo \notin Recorded' /\ ~(RunsToo(j, inst[j].todo)')
    BY DEF Alone
  <2>1. inst[j].todo \notin Recorded' /\ ~RunsToo(j, inst[j].todo)
    BY <1>2 DEF Moved
  <2>2. ~(inst'[i].phase = "tx" /\ inst'[i].todo = inst[j].todo)
    BY DEF Locks, RunsToo, At, Moved
  <2> QED  BY <2>1, <2>2 DEF RunsToo, At, Moved
<1> QED  BY <1>1, <1>3, <1>4

(* A process that goes on keeps its requests while it may answer them.     *)
LEMMA Lives ==
    ASSUME LifeInv, NEW i \in Instance, Moved(i), Grown(i), Fit(inst[i])', Locks(i),
           UNCHANGED req, InFlight(i) # {} => inst'[i].phase \in Answering,
           database' \in {"up", "unreachable"}, faults' \in Nat
    PROVE  LifeInv'
<1>1. \A j \in Instance : Fit(inst[j])' /\ Alone(j, inst[j])'
  BY OthersFit
<1>2. Held'
  BY DEF LifeInv, Held, InFlight, Moved
<1>3. TypeOK' /\ GracefulStopCutsNothing'
  BY DEF LifeInv, TypeOK, GracefulStopCutsNothing, Grown, Moved
<1> QED  BY <1>1, <1>2, <1>3 DEF LifeInv, Grown

(* One that ends cuts off what it has not answered.                        *)
LEMMA Ends ==
    ASSUME LifeInv, NEW i \in Instance, NEW status \in Statuses, Exit(i, status), Grown(i),
           status = "success" => InFlight(i) = {},
           database' \in {"up", "unreachable"}, faults' \in Nat
    PROVE  LifeInv'
<1> DEFINE p == [inst[i] EXCEPT !.phase = "down", !.tries = 1, !.todo = 1,
                                !.pools = {}, !.listener = "none"]
<1>1. p \in Process /\ p.phase = "down" /\ p.listener = "none"
  <2>1. inst[i] \in Process
    BY DEF LifeInv, TypeOK
  <2>2. 1 \in 1..Retries /\ 1 \in 1..Last + 1 /\ {} \in SUBSET Pools
    BY RetriesAssumption, VersionsAssumption
  <2> QED  BY <2>1, <2>2 DEF Process
<1>2. Becomes(i, p)
  BY DEF Exit
<1> HIDE DEF p
<1>3. Moved(i) /\ inst'[i] = p
  BY <1>1, <1>2 DEF Becomes, Moved, LifeInv, TypeOK
<1>4. \A j \in Instance : Fit(inst[j])' /\ Alone(j, inst[j])'
  <2>1. Fit(inst[i])' /\ Locks(i)
    BY <1>1, <1>3 DEF Fit, Locks, Wired
  <2> QED  BY <1>3, <2>1, OthersFit
<1>5. \A r \in Request : req'[r] = IF r \in InFlight(i) THEN Ended(status) ELSE req[r]
  BY DEF Exit
<1>6. Held'
  <2> SUFFICES ASSUME NEW r \in Request, req'[r].at = "running"
               PROVE  req'[r].on \in Instance /\ inst'[req'[r].on].phase \in Answering
    BY DEF Held
  <2>1. r \notin InFlight(i) /\ req'[r] = req[r]
    BY <1>5 DEF Ended, Statuses
  <2> QED  BY <1>3, <2>1 DEF LifeInv, Held, InFlight, Moved
<1>7. req' \in [Request -> [at : {"idle", "running", "answered"} \cup Statuses,
                           on : Instance \cup {"client"}]]
  BY DEF Exit, Ended, LifeInv, TypeOK
<1>8. GracefulStopCutsNothing'
  BY <1>5 DEF GracefulStopCutsNothing, LifeInv, Ended
<1> QED  BY <1>3, <1>4, <1>6, <1>7, <1>8 DEF LifeInv, TypeOK, Grown, Moved

-----------------------------------------------------------------------------
(* The actions.                                                            *)

LEMMA Exits ==
    ASSUME LifeInv, NEW i \in Instance, NEW status \in {"failure", "killed"},
           Exit(i, status), applied' = applied,
           database' = database, faults' = faults \/ GoesWrong
    PROVE  LifeInv'
<1>1. faults' \in Nat /\ database' \in {"up", "unreachable"}
  BY DEF LifeInv, TypeOK, GoesWrong
<1> QED  BY <1>1, NotGrown, Ends DEF Statuses

(* Goes and Becomes, when only the phase and what goes with it change.     *)
LEMMA Steps ==
    ASSUME LifeInv, NEW i \in Instance, NEW p, p \in Process, Becomes(i, p),
           applied' = applied, UNCHANGED <<database, req>>, faults' = faults \/ GoesWrong,
           p.phase \in {"list", "migrate", "tx"} => applied # <<>>,
           p.phase \in {"migrate", "tx"} => 0..p.todo - 1 \subseteq Recorded,
           p.phase = "tx" => p.todo <= p.build,
           p.phase \in {"wire"} \cup Wired => 1..p.build \subseteq Recorded,
           p.phase \in Wired => p.pools = Pools,
           p.listener = "open" => p.phase \in {"untrapped", "serving"},
           p.phase = "tx" => p.todo \in Repeatable
                             \/ (p.todo \notin Recorded /\ ~RunsToo(i, p.todo)),
           InFlight(i) # {} => p.phase \in Answering
    PROVE  LifeInv'
<1>1. Moved(i) /\ inst'[i] = p
  BY DEF Becomes, Moved, LifeInv, TypeOK
<1>2. Recorded' = Recorded
  BY DEF Recorded
<1>3. Fit(inst[i])' /\ Locks(i)
  BY <1>1, <1>2 DEF Fit, Locks
<1>4. faults' \in Nat /\ database' \in {"up", "unreachable"}
  BY DEF LifeInv, TypeOK, GoesWrong
<1> QED  BY <1>1, <1>3, <1>4, NotGrown, Lives

(* A process that has requests in flight is answering.                     *)
LEMMA Flying ==
    ASSUME LifeInv, NEW i \in Instance, InFlight(i) # {}
    PROVE  inst[i].phase \in Answering
BY DEF LifeInv, Held, InFlight

LEMMA Connecting ==
    ASSUME LifeInv, NEW i \in Instance,
           Start(i) \/ Ping(i) \/ EnsureVersion(i) \/ Stop(i) \/ Deploy(i)
    PROVE  LifeInv'
<1>0. inst[i] \in Process /\ Fit(inst[i]) /\ Alone(i, inst[i])
  BY DEF LifeInv, TypeOK
<1>1. CASE Start(i)
  <2> DEFINE p == [inst[i] EXCEPT !.phase = "ping", !.pools = {"pgx"}]
  <2>1. p \in Process /\ p.phase = "ping" /\ p.listener = inst[i].listener
    BY <1>0 DEF Process, Pools, Alive, Starting
  <2>2. inst[i].phase = "down" /\ Becomes(i, p) /\ UNCHANGED <<database, applied, req, faults>>
    BY <1>1 DEF Start, At
  <2> HIDE DEF p
  <2> QED  BY <1>0, <2>1, <2>2, Steps, Flying DEF Fit, Answering, Wired
<1>2. CASE Ping(i)
  <2>1. UNCHANGED <<database, applied, faults>> /\ inst[i].phase = "ping"
    BY <1>2 DEF Ping, At
  <2>2. CASE Exit(i, "failure")
    BY <2>1, <2>2, Exits
  <2>3. CASE /\ Becomes(i, [inst[i] EXCEPT !.phase = "version", !.tries = 1])
             /\ UNCHANGED req
    <3> DEFINE p == [inst[i] EXCEPT !.phase = "version", !.tries = 1]
    <3>0. 1 \in 1..Retries
      BY RetriesAssumption
    <3>1. p \in Process /\ p.phase = "version" /\ p.listener = inst[i].listener
      BY <1>0, <3>0 DEF Process, Alive, Starting, Migrating
    <3>2. Becomes(i, p)
      BY <2>3
    <3> HIDE DEF p
    <3> QED  BY <1>0, <2>1, <2>3, <3>1, <3>2, Steps, Flying DEF Fit, Answering, Wired
  <2>4. CASE /\ inst[i].tries < Retries /\ UNCHANGED req
             /\ Becomes(i, [inst[i] EXCEPT !.tries = @ + 1])
    <3> DEFINE p == [inst[i] EXCEPT !.tries = @ + 1]
    <3>1. p \in Process /\ p.phase = "ping" /\ p.listener = inst[i].listener
      BY <1>0, <2>1, <2>4, RetriesAssumption DEF Process
    <3>2. Becomes(i, p)
      BY <2>4
    <3> HIDE DEF p
    <3> QED  BY <1>0, <2>1, <2>4, <3>1, <3>2, Steps, Flying DEF Fit, Answering, Wired
  <2> QED  BY <1>2, <2>2, <2>3, <2>4 DEF Ping
<1>3. CASE EnsureVersion(i)
  <2> DEFINE p == [inst[i] EXCEPT !.phase = IF applied = <<>> THEN "create" ELSE "list"]
  <2>1. p \in Process /\ p.phase \in {"create", "list"}
        /\ (p.phase = "list" => applied # <<>>) /\ p.listener = inst[i].listener
    BY <1>0 DEF Process, Alive, Starting, Migrating
  <2>2. inst[i].phase = "version" /\ Becomes(i, p) /\ UNCHANGED <<database, applied, req, faults>>
    BY <1>3 DEF EnsureVersion, At, Goes
  <2> HIDE DEF p
  <2> QED  BY <1>0, <2>1, <2>2, Steps, Flying DEF Fit, Answering, Wired
<1>4. CASE Stop(i)
  <2> DEFINE p == [inst[i] EXCEPT !.told = TRUE]
  <2>1. p \in Process /\ p.phase = inst[i].phase /\ p.listener = inst[i].listener
        /\ p.todo = inst[i].todo /\ p.build = inst[i].build /\ p.pools = inst[i].pools
    BY <1>0 DEF Process
  <2>2. TRUE /\ Becomes(i, p) /\ UNCHANGED <<database, applied, req, faults>>
    BY <1>4 DEF Stop
  <2> HIDE DEF p
  <2> QED  BY <1>0, <2>1, <2>2, Steps, Flying DEF Fit, Answering, Wired, Alone
<1>5. CASE Deploy(i)
  <2> DEFINE p == Down(inst[i].build + 1)
  <2>1. p \in Process /\ p.phase = "down" /\ p.listener = "none"
    BY <1>0, <1>5, VersionsAssumption, RetriesAssumption DEF Process, Deploy, Down
  <2>2. inst[i].phase = "down" /\ Becomes(i, p) /\ UNCHANGED <<database, applied, req, faults>>
    BY <1>5 DEF Deploy, At
  <2> HIDE DEF p
  <2> QED  BY <1>0, <2>1, <2>2, Steps, Flying DEF Fit, Answering, Wired
<1> QED  BY <1>1, <1>2, <1>3, <1>4, <1>5

LEMMA Current ==
    ASSUME LifeInv, applied # <<>>
    PROVE  /\ DBMaxVersion \in 0..Last /\ Recorded = 0..DBMaxVersion
<1>1. PICK v \in 0..Last : Recorded = 0..v
  BY DEF LifeInv, Contiguous
<1>2. (CHOOSE m \in 0..v : \A w \in 0..v : w <= m) = v
  BY Top
<1>3. DBMaxVersion = v
  BY <1>1, <1>2 DEF DBMaxVersion
<1> QED  BY <1>1, <1>3

LEMMA Listing ==
    ASSUME LifeInv, NEW i \in Instance, ListVersions(i) \/ RunStatements(i) \/ Migrated(i)
    PROVE  LifeInv'
<1>0. inst[i] \in Process /\ Fit(inst[i]) /\ Alone(i, inst[i])
  BY DEF LifeInv, TypeOK
<1>1. CASE ListVersions(i)
  <2>1. /\ inst[i].phase = "list" /\ applied # <<>>
        /\ UNCHANGED <<database, applied, faults>>
    BY <1>0, <1>1 DEF ListVersions, At, Fit
  <2>2. CASE Exit(i, "failure")
    BY <2>1, <2>2, Exits
  <2>3. CASE /\ Becomes(i, [inst[i] EXCEPT !.phase = "migrate", !.todo = DBMaxVersion + 1])
             /\ UNCHANGED req
    <3> DEFINE v == DBMaxVersion
               p == [inst[i] EXCEPT !.phase = "migrate", !.todo = v + 1]
    <3>1. v \in 0..Last /\ Recorded = 0..v
      BY <2>1, Current
    <3>2. Becomes(i, p)
      BY <2>3
    <3> HIDE DEF v
    <3>3. v + 1 \in 1..Last + 1 /\ 0..(v + 1) - 1 = 0..v
      BY <3>1, VersionsAssumption
    <3>4. /\ p \in Process /\ p.phase = "migrate" /\ p.listener = inst[i].listener
          /\ p.todo = v + 1
      BY <1>0, <3>3 DEF Process, Alive, Starting, Migrating
    <3> HIDE DEF p
    <3> QED  BY <1>0, <2>1, <2>3, <3>1, <3>2, <3>3, <3>4, Steps, Flying
             DEF Fit, Answering, Wired
  <2> QED  BY <1>1, <2>2, <2>3 DEF ListVersions
<1>2. CASE RunStatements(i)
  <2> DEFINE p == [inst[i] EXCEPT !.phase = "tx"]
  <2>3. /\ inst[i].todo <= inst[i].build
        /\ inst[i].todo \in Repeatable
           \/ (inst[i].todo \notin Recorded /\ ~RunsToo(i, inst[i].todo))
    BY <1>2 DEF RunStatements
  <2>1. p \in Process /\ p.phase = "tx" /\ p.listener = inst[i].listener
        /\ p.todo = inst[i].todo /\ p.build = inst[i].build
    BY <1>0 DEF Process, Alive, Starting, Migrating
  <2>2. inst[i].phase = "migrate" /\ Becomes(i, p) /\ UNCHANGED <<database, applied, req, faults>>
    BY <1>2 DEF RunStatements, At, Goes
  <2> HIDE DEF p
  <2> QED  BY <1>0, <2>1, <2>2, <2>3, Steps, Flying DEF Fit, Answering, Wired
<1>3. CASE Migrated(i)
  <2> DEFINE p == [inst[i] EXCEPT !.phase = "wire"]
  <2>3. 1..inst[i].build \subseteq Recorded
    <3>1. 1..inst[i].build \subseteq 0..inst[i].todo - 1
      BY <1>0, <1>3, VersionsAssumption DEF Migrated, Process
    <3> QED  BY <1>0, <1>3, <3>1 DEF Migrated, At, Fit
  <2>1. p \in Process /\ p.phase = "wire" /\ p.listener = inst[i].listener
        /\ p.build = inst[i].build
    BY <1>0 DEF Process, Alive, Starting
  <2>2. inst[i].phase = "migrate" /\ Becomes(i, p) /\ UNCHANGED <<database, applied, req, faults>>
    BY <1>3 DEF Migrated, At, Goes
  <2> HIDE DEF p
  <2> QED  BY <1>0, <2>1, <2>2, <2>3, Steps, Flying DEF Fit, Answering, Wired
<1> QED  BY <1>1, <1>2, <1>3

LEMMA Running ==
    ASSUME LifeInv, NEW i \in Instance,
           Wire(i) \/ Listen(i) \/ TrapSignals(i) \/ BeginShutdown(i) \/ Drained(i)
    PROVE  LifeInv'
<1>0. inst[i] \in Process /\ Fit(inst[i]) /\ Alone(i, inst[i])
  BY DEF LifeInv, TypeOK
<1>1. CASE Wire(i)
  <2> DEFINE p == [inst[i] EXCEPT !.phase = "untrapped", !.pools = Pools]
  <2>1. p \in Process /\ p.phase = "untrapped" /\ p.pools = Pools
        /\ p.build = inst[i].build
    BY <1>0 DEF Process, Alive, Starting
  <2>2. inst[i].phase = "wire" /\ Becomes(i, p) /\ UNCHANGED <<database, applied, req, faults>>
    BY <1>1 DEF Wire, At
  <2> HIDE DEF p
  <2> QED  BY <1>0, <2>1, <2>2, Steps, Flying DEF Fit, Answering, Wired
<1>2. CASE Listen(i)
  <2>1. PICK l \in {"open", "failed"} : Becomes(i, [inst[i] EXCEPT !.listener = l])
    BY <1>2 DEF Listen
  <2> DEFINE p == [inst[i] EXCEPT !.listener = l]
  <2>2. /\ p \in Process /\ p.phase = inst[i].phase /\ p.pools = inst[i].pools
        /\ p.build = inst[i].build
    BY <1>0 DEF Process
  <2>3. /\ inst[i].phase \in {"untrapped", "serving"} /\ Becomes(i, p)
        /\ UNCHANGED <<database, applied, req>> /\ (faults' = faults \/ GoesWrong)
    BY <1>2, <2>1 DEF Listen
  <2> HIDE DEF p
  <2> QED  BY <1>0, <2>2, <2>3, Steps, Flying DEF Fit, Answering, Wired
<1>3. CASE TrapSignals(i)
  <2> DEFINE p == [inst[i] EXCEPT !.phase = "serving"]
  <2>1. p \in Process /\ p.phase = "serving" /\ p.pools = inst[i].pools
        /\ p.build = inst[i].build
    BY <1>0 DEF Process, Alive
  <2>2. inst[i].phase = "untrapped" /\ Becomes(i, p) /\ UNCHANGED <<database, applied, req, faults>>
    BY <1>3 DEF TrapSignals, At, Goes
  <2> HIDE DEF p
  <2> QED  BY <1>0, <2>1, <2>2, Steps, Flying DEF Fit, Answering, Wired
<1>4. CASE BeginShutdown(i)
  <2> DEFINE p == [inst[i] EXCEPT !.phase = "draining", !.listener = "closed"]
  <2>1. p \in Process /\ p.phase = "draining" /\ p.listener = "closed"
        /\ p.pools = inst[i].pools /\ p.build = inst[i].build
    BY <1>0 DEF Process, Alive
  <2>2. inst[i].phase = "serving" /\ Becomes(i, p) /\ UNCHANGED <<database, applied, req, faults>>
    BY <1>4 DEF BeginShutdown, At
  <2> HIDE DEF p
  <2> QED  BY <1>0, <2>1, <2>2, Steps, Flying DEF Fit, Answering, Wired
<1>5. CASE Drained(i)
  <2> DEFINE p == [inst[i] EXCEPT !.phase = "cleanup"]
  <2>1. p \in Process /\ p.phase = "cleanup" /\ p.listener = inst[i].listener
        /\ p.pools = inst[i].pools /\ p.build = inst[i].build
    BY <1>0 DEF Process, Alive
  <2>2. inst[i].phase = "draining" /\ InFlight(i) = {} /\ Becomes(i, p) /\ UNCHANGED <<database, applied, req, faults>>
    BY <1>5 DEF Drained, At, Goes
  <2> HIDE DEF p
  <2> QED  BY <1>0, <2>1, <2>2, Steps, Flying DEF Fit, Answering, Wired
<1> QED  BY <1>1, <1>2, <1>3, <1>4, <1>5

LEMMA Migrations ==
    ASSUME LifeInv, NEW i \in Instance, CreateVersionTable(i) \/ CommitMigration(i)
    PROVE  LifeInv'
<1>0. inst[i] \in Process /\ Fit(inst[i]) /\ Alone(i, inst[i])
  BY DEF LifeInv, TypeOK
<1>1. CASE applied # <<>> /\ CreateVersionTable(i)
  <2>1. Exit(i, "failure") /\ UNCHANGED <<database, applied, faults>>
    BY <1>1 DEF CreateVersionTable
  <2> QED  BY <2>1, Exits
<1>2. CASE applied = <<>> /\ CreateVersionTable(i)
  <2> DEFINE p == [inst[i] EXCEPT !.phase = "list"]
  <2>1. p \in Process /\ p.phase = "list" /\ p.listener = inst[i].listener
    BY <1>0 DEF Process, Alive, Starting, Migrating
  <2>2. /\ inst[i].phase = "create" /\ Returns(i, p) /\ database' = database
        /\ applied' = << 0 >>
    BY <1>2 DEF CreateVersionTable, At
  <2> HIDE DEF p
  <2>3. Grown(i) /\ applied' # <<>>
    BY <1>2, <2>2, FirstRow
  <2>4. CASE Becomes(i, p) /\ UNCHANGED <<req, faults>>
    <3>1. Moved(i) /\ inst'[i] = p
      BY <2>1, <2>4 DEF Becomes, Moved, LifeInv, TypeOK
    <3>2. Fit(inst[i])' /\ Locks(i) /\ InFlight(i) = {}
      BY <1>0, <2>1, <2>2, <2>3, <3>1, Flying DEF Fit, Locks, Wired, Answering
    <3> QED  BY <2>2, <2>3, <2>4, <3>1, <3>2, Lives DEF LifeInv, TypeOK
  <2>5. CASE Exit(i, "failure") /\ GoesWrong
    BY <2>2, <2>3, <2>5, Ends DEF GoesWrong, LifeInv, TypeOK, Statuses
  <2> QED  BY <2>2, <2>4, <2>5 DEF Returns
<1>3. CASE CommitMigration(i)
  <2> DEFINE p == [inst[i] EXCEPT !.phase = "migrate", !.todo = @ + 1]
  <2>1. /\ inst[i].phase = "tx" /\ Returns(i, p) /\ database' = database
        /\ applied' = Append(applied, inst[i].todo)
    BY <1>3 DEF CommitMigration, At
  <2>2. inst[i].todo \in 1..Last /\ inst[i].todo + 1 \in 1..Last + 1
    BY <1>0, <2>1, VersionsAssumption DEF Process, Fit
  <2>3. /\ p \in Process /\ p.phase = "migrate" /\ p.listener = inst[i].listener
        /\ p.todo = inst[i].todo + 1
    BY <1>0, <2>2 DEF Process, Alive, Starting, Migrating
  <2> HIDE DEF p
  <2>4. Grown(i) /\ inst[i].todo \in Recorded' /\ applied' # <<>>
    BY <1>0, <2>1, NextRow DEF At, Grown, Fit
  <2>5. CASE Becomes(i, p) /\ UNCHANGED <<req, faults>>
    <3>1. Moved(i) /\ inst'[i] = p
      BY <2>3, <2>5 DEF Becomes, Moved, LifeInv, TypeOK
    <3>2. 0..p.todo - 1 \subseteq Recorded'
      <4>1. 0..inst[i].todo - 1 \subseteq Recorded'
        BY <1>0, <2>1, <2>4 DEF Fit, Grown
      <4>2. \A u \in 0..p.todo - 1 : u \in 0..inst[i].todo - 1 \/ u = inst[i].todo
        BY <2>2, <2>3
      <4> QED  BY <2>4, <4>1, <4>2
    <3>3. Fit(inst[i])' /\ Locks(i) /\ InFlight(i) = {}
      BY <1>0, <2>1, <2>3, <2>4, <3>1, <3>2, Flying DEF Fit, Locks, Wired, Answering
    <3> QED  BY <2>1, <2>4, <2>5, <3>1, <3>3, Lives DEF LifeInv, TypeOK
  <2>6. CASE Exit(i, "failure") /\ GoesWrong
    BY <2>1, <2>4, <2>6, Ends DEF GoesWrong, LifeInv, TypeOK, Statuses
  <2> QED  BY <2>1, <2>5, <2>6 DEF Returns
<1> QED  BY <1>1, <1>2, <1>3

LEMMA Stopping ==
    ASSUME LifeInv, NEW i \in Instance,
           \/ Clash(i) \/ StartupFails(i) \/ ServerFails(i) \/ Terminate(i)
           \/ TimesOut(i) \/ Cleanup(i) \/ Kill(i)
    PROVE  LifeInv'
<1>1. CASE Cleanup(i)
  <2>1. InFlight(i) = {}
    BY <1>1, Flying DEF Cleanup, At, Answering
  <2>2. Exit(i, "success") /\ UNCHANGED <<database, applied, faults>>
    BY <1>1 DEF Cleanup
  <2> QED  BY <2>1, <2>2, NotGrown, Ends DEF LifeInv, TypeOK, Statuses
<1>2. CASE Clash(i) \/ ServerFails(i) \/ Terminate(i) \/ TimesOut(i)
  <2>1. /\ Exit(i, "failure") \/ Exit(i, "killed")
        /\ UNCHANGED <<database, applied, faults>>
    BY <1>2 DEF Clash, ServerFails, Terminate, TimesOut
  <2> QED  BY <2>1, Exits
<1>3. CASE StartupFails(i) \/ Kill(i)
  <2>1. /\ Exit(i, "failure") \/ Exit(i, "killed")
        /\ UNCHANGED <<database, applied>> /\ (faults' = faults \/ GoesWrong)
    BY <1>3 DEF StartupFails, Kill
  <2> QED  BY <2>1, Exits
<1> QED  BY <1>1, <1>2, <1>3

(* Nothing happens to any process.                                         *)
LEMMA Around ==
    ASSUME LifeInv, UNCHANGED <<applied, inst>>,
           database' \in {"up", "unreachable"}, faults' \in Nat,
           req' \in [Request -> [at : {"idle", "running", "answered"} \cup Statuses,
                                on : Instance \cup {"client"}]],
           Held', GracefulStopCutsNothing'
    PROVE  LifeInv'
<1>1. Recorded' = Recorded
  BY DEF Recorded
<1>2. TypeOK' /\ Contiguous' /\ MigratedOnce'
  BY <1>1 DEF LifeInv, TypeOK, Contiguous, MigratedOnce
<1>3. \A i \in Instance : Fit(inst[i])' /\ Alone(i, inst[i])'
  BY <1>1 DEF LifeInv, Fit, Alone, RunsToo, At
<1> QED  BY <1>2, <1>3 DEF LifeInv

LEMMA Requests ==
    ASSUME LifeInv,
           \/ \E r \in Request : Answer(r) \/ \E i \in Instance : Accept(r, i)
           \/ DatabaseUp \/ DatabaseDown \/ Retired \/ UNCHANGED vars
    PROVE  LifeInv'
<1>1. ASSUME NEW r \in Request, Answer(r)
      PROVE  LifeInv'
  <2>1. /\ UNCHANGED <<database, applied, inst, faults>>
        /\ req' = [req EXCEPT ![r] = [at |-> "answered", on |-> "client"]]
    BY <1>1 DEF Answer, Ended
  <2> QED  BY <2>1, Around DEF LifeInv, TypeOK, Held, GracefulStopCutsNothing
<1>2. ASSUME NEW r \in Request, NEW i \in Instance, Accept(r, i)
      PROVE  LifeInv'
  <2>1. /\ UNCHANGED <<database, applied, inst, faults>>
        /\ req' = [req EXCEPT ![r] = [at |-> "running", on |-> i]]
        /\ inst[i].phase \in Answering
    BY <1>2 DEF Accept, LifeInv, Fit, Answering
  <2> QED  BY <2>1, Around DEF LifeInv, TypeOK, Held, GracefulStopCutsNothing
<1>3. CASE DatabaseUp \/ DatabaseDown \/ Retired \/ UNCHANGED vars
  <2>1. /\ UNCHANGED <<applied, inst, req>> /\ (faults' = faults \/ GoesWrong)
        /\ database' \in {"up", "unreachable", database}
    BY <1>3 DEF DatabaseUp, DatabaseDown, Retired, vars
  <2>2. faults' \in Nat
    BY <2>1 DEF GoesWrong, LifeInv, TypeOK
  <2> QED  BY <2>1, <2>2, Around DEF LifeInv, TypeOK, Held, GracefulStopCutsNothing
<1> QED  BY <1>1, <1>2, <1>3

LEMMA LifeInit == Init => LifeInv
<1> SUFFICES ASSUME Init
             PROVE  LifeInv
  OBVIOUS
<1>1. ASSUME NEW i \in Instance
      PROVE  inst[i] \in Process /\ inst[i].phase = "down" /\ inst[i].listener = "none"
  <2>1. PICK b \in Oldest..Last : inst[i] = Down(b)
    BY DEF Init
  <2>2. 1 \in 1..Retries /\ 1 \in 1..Last + 1
    BY VersionsAssumption, RetriesAssumption
  <2> QED  BY <2>1, <2>2 DEF Down, Process
<1>2. TypeOK
  BY <1>1 DEF Init, TypeOK
<1>3. Contiguous /\ MigratedOnce
  BY DEF Init, Contiguous, MigratedOnce
<1>4. \A i \in Instance : Fit(inst[i]) /\ Alone(i, inst[i])
  BY <1>1 DEF Fit, Alone, Wired
<1>5. Held /\ GracefulStopCutsNothing
  BY DEF Init, Held, GracefulStopCutsNothing
<1> QED  BY <1>2, <1>3, <1>4, <1>5 DEF LifeInv

LEMMA LifeNext == LifeInv /\ [Next]_vars => LifeInv'
BY Connecting, Listing, Running, Migrations, Stopping, Requests DEF Next, Step

LEMMA LifeInvariant == Spec => []LifeInv
BY LifeInit, LifeNext, PTL DEF Spec

-----------------------------------------------------------------------------
(* What follows.                                                           *)

(* Processes, their pools and listeners, the table and the requests keep   *)
(* their types; a process does not try to connect more than Retries times. *)
THEOREM LifecycleTypeCorrect == Spec => []TypeOK
<1>1. LifeInv => TypeOK
  BY DEF LifeInv
<1> QED  BY <1>1, LifeInvariant, PTL

(* Whichever processes migrate at once, a listener is open only over the   *)
(* schema its build needs.                                                 *)
THEOREM SchemaServed == Spec => []ServesCurrentSchema
<1>1. LifeInv => ServesCurrentSchema
  BY DEF LifeInv, Fit, ServesCurrentSchema, Wired
<1> QED  BY <1>1, LifeInvariant, PTL

(* Without a lock of goose's own, no migration that must run once runs     *)
(* twice.                                                                  *)
THEOREM MigratedOnly == Spec => []MigratedOnce
<1>1. LifeInv => MigratedOnce
  BY DEF LifeInv
<1> QED  BY <1>1, LifeInvariant, PTL

(* The pools are open as long as a request of the process is in flight.    *)
THEOREM PoolsOutlive == Spec => []PoolsOutliveRequests
<1>1. LifeInv => PoolsOutliveRequests
  <2> SUFFICES ASSUME LifeInv, NEW i \in Instance, InFlight(i) # {}
               PROVE  inst[i].pools = Pools
    BY DEF PoolsOutliveRequests
  <2>1. inst[i].phase \in Answering
    BY Flying
  <2> QED  BY <2>1 DEF LifeInv, Fit, Answering, Wired
<1> QED  BY <1>1, LifeInvariant, PTL

(* A stop that cut a request off does not report success.                  *)
THEOREM StopsGracefully == Spec => []GracefulStopCutsNothing
<1>1. LifeInv => GracefulStopCutsNothing
  BY DEF LifeInv
<1> QED  BY <1>1, LifeInvariant, PTL

(* What a step does to the table.                                          *)
LEMMA TableMoves ==
    ASSUME LifeInv, [Next]_vars
    PROVE  \/ applied' = applied
           \/ applied = <<>> /\ applied' = << 0 >>
           \/ \E i \in Instance :
                 At(i, "tx") /\ applied' = Append(applied, inst[i].todo)
<1>1. ASSUME NEW i \in Instance, CreateVersionTable(i)
      PROVE  applied' = applied \/ (applied = <<>> /\ applied' = << 0 >>)
  BY <1>1 DEF CreateVersionTable
<1>2. ASSUME NEW i \in Instance, CommitMigration(i)
      PROVE  At(i, "tx") /\ applied' = Append(applied, inst[i].todo)
  BY <1>2 DEF CommitMigration
<1>3. ASSUME NEW i \in Instance, Step(i), ~CreateVersionTable(i), ~CommitMigration(i)
      PROVE  applied' = applied
  BY <1>3 DEF Step, Start, Ping, EnsureVersion, ListVersions, RunStatements, Clash, Migrated,
              Wire, Listen, TrapSignals, ServerFails, Terminate, BeginShutdown, Drained,
              TimesOut, Cleanup
<1>4. ASSUME NEW i \in Instance, StartupFails(i) \/ Kill(i) \/ Stop(i) \/ Deploy(i)
      PROVE  applied' = applied
  BY <1>4 DEF StartupFails, Kill, Stop, Deploy
<1>5. ASSUME \/ \E r \in Request : Answer(r) \/ \E i \in Instance : Accept(r, i)
             \/ DatabaseUp \/ DatabaseDown \/ Retired \/ UNCHANGED vars
      PROVE  applied' = applied
  BY <1>5 DEF Answer, Accept, DatabaseUp, DatabaseDown, Retired, vars
<1> QED  BY <1>1, <1>2, <1>3, <1>4, <1>5 DEF Next

LEMMA VersionMoves ==
    ASSUME LifeInv, LifeInv', [Next]_vars
    PROVE  Version' = Version \/ (Version < Last /\ Version' = Version + 1)
<1>1. CASE applied' = applied
  BY <1>1 DEF Version, DBMaxVersion, Recorded
<1>2. CASE applied = <<>> /\ applied' = << 0 >>
  <2>1. 0 \in 0..Last /\ applied' # <<>> /\ DOMAIN applied' = {1} /\ applied'[1] = 0
    BY <1>2, VersionsAssumption
  <2>2. Recorded' = {0} /\ 0..0 = {0}
    BY <2>1 DEF Recorded
  <2>3. DBMaxVersion' = 0
    BY <2>2 DEF DBMaxVersion
  <2> QED  BY <1>2, <2>1, <2>3 DEF Version
<1>3. ASSUME NEW i \in Instance, At(i, "tx"), applied' = Append(applied, inst[i].todo)
      PROVE  Version' = Version \/ (Version < Last /\ Version' = Version + 1)
  <2> DEFINE k == inst[i].todo
  <2>1. k \in 1..Last /\ applied \in Seq(0..Last) /\ applied # <<>>
        /\ 0..k - 1 \subseteq Recorded
    BY <1>3, VersionsAssumption DEF LifeInv, TypeOK, Process, Fit, At
  <2> HIDE DEF k
  <2>2. applied' # <<>> /\ Recorded' = Recorded \cup {k}
    BY <1>3, <2>1, Recording DEF k
  <2>3. PICK v \in 0..Last : v = DBMaxVersion /\ Recorded = 0..v
    BY <2>1, Current
  <2>4. PICK u \in 0..Last : u = DBMaxVersion' /\ Recorded' = 0..u
    <3>1. \E w \in 0..Last : Recorded' = 0..w
      BY <2>2 DEF LifeInv, Contiguous
    <3>2. PICK w \in 0..Last : Recorded' = 0..w
      BY <3>1
    <3>3. DBMaxVersion' = w
      BY <3>2, Top DEF DBMaxVersion
    <3> QED  BY <3>2, <3>3
  <2>5. k - 1 \in 0..v /\ 0..u = (0..v) \cup {k}
    BY <2>1, <2>2, <2>3, <2>4
  <2>6. u = v \/ (v < Last /\ u = v + 1)
    <3>1. u \in 0..u /\ v \in 0..v
      OBVIOUS
    <3>2. (u \in 0..v \/ u = k) /\ v \in 0..u
      BY <2>5, <3>1
    <3>3. k <= v + 1
      BY <2>1, <2>5
    <3> QED  BY <2>1, <3>2, <3>3, VersionsAssumption
  <2>7. Version = v /\ Version' = u
    BY <2>1, <2>2, <2>3, <2>4 DEF Version
  <2> QED  BY <2>6, <2>7
<1> QED  BY <1>1, <1>2, <1>3, TableMoves

(* The processes together implement the one sequence of versions.          *)
THEOREM SchemaImplemented == Spec => SchemaSpec
<1>1. Init => Schema!VersionInit
  BY DEF Init, Version, Schema!VersionInit
<1>2. LifeInv /\ LifeInv' /\ [Next]_vars => [Schema!Migrate]_Version
  BY VersionMoves DEF Schema!Migrate
<1> QED  BY <1>1, <1>2, LifeInvariant, PTL DEF Spec, SchemaSpec, Schema!VersionSpec
=============================================================================

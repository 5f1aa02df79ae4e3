--------------------------- MODULE ServerLifecycle ---------------------------
(***************************************************************************)
(* The API processes from their start to their end: connect to the         *)
(* database, migrate its schema, wire the services, serve, and on a signal *)
(* drain and close.  Several instances run over one database, of           *)
(* different builds while a deployment is under way, and each migrates at  *)
(* its start: goose takes no lock, so two of them may run one migration.   *)
(* What keeps them apart is PostgreSQL: each migration and its row in      *)
(* goose_db_version are one transaction, and creating a thing that another *)
(* transaction is creating waits for it, and then fails.                   *)
(*                                                                         *)
(* A process that meets an error exits; its supervisor starts it again     *)
(* unless an operator told it to stop.                                     *)
(***************************************************************************)
EXTENDS Naturals, Sequences, FiniteSets

CONSTANTS
    Instance,    \* the API processes
    Request,     \* the requests clients send
    Last,        \* the newest migration; build b embeds 1..b
    Oldest,      \* the oldest build that runs
    Repeatable,  \* migrations every statement of which may run twice
    Retries,     \* defaultRetries: pings of WaitForDB
    MaxFaults    \* bound: how many things go wrong

ASSUME VersionsAssumption ==
    Last \in Nat /\ Oldest \in 1..Last /\ Repeatable \subseteq 1..Last
ASSUME RetriesAssumption == Retries \in Nat \ {0} /\ MaxFaults \in Nat

VARIABLES
    database, \* does PostgreSQL accept connections?
    applied,  \* the versions in goose_db_version, by id; <<>>: no such table
    inst,     \* where each process is
    req,      \* where each request is, and which process accepted it
    faults    \* how many things went wrong so far

vars == <<database, applied, inst, req, faults>>

Migrating == {"version", "create", "list", "migrate", "tx"}
Starting == Migrating \cup {"ping", "wire", "untrapped"}
Alive == Starting \cup {"serving", "draining", "cleanup"}
Pools == {"pgx", "sql"}
Statuses == {"success", "failure", "killed"}

Process ==
    [phase : Alive \cup {"down"}, build : Oldest..Last, tries : 1..Retries,
     todo : 1..Last + 1, pools : SUBSET Pools,
     listener : {"none", "open", "failed", "closed"}, told : BOOLEAN]

TypeOK ==
    /\ database \in {"up", "unreachable"}
    /\ applied \in Seq(0..Last)
    /\ inst \in [Instance -> Process]
    /\ req \in [Request -> [at : {"idle", "running", "answered"} \cup Statuses,
                            on : Instance \cup {"client"}]]
    /\ faults \in Nat

Down(b) == [phase |-> "down", build |-> b, tries |-> 1, todo |-> 1, pools |-> {},
            listener |-> "none", told |-> FALSE]

Init ==
    /\ database = "unreachable"
    /\ applied = <<>>
    /\ inst \in [Instance -> {Down(b) : b \in Oldest..Last}]
    /\ req = [r \in Request |-> [at |-> "idle", on |-> "client"]]
    /\ faults = 0

-----------------------------------------------------------------------------
At(i, phase) == inst[i].phase = phase
Becomes(i, p) == inst' = [inst EXCEPT ![i] = p]
Goes(i, phase) == Becomes(i, [inst[i] EXCEPT !.phase = phase])
GoesWrong == faults < MaxFaults /\ faults' = faults + 1
Recorded == {applied[n] : n \in DOMAIN applied}
InFlight(i) == {r \in Request : req[r].at = "running" /\ req[r].on = i}

Ended(how) == [at |-> how, on |-> "client"]

(* The process is gone, and with it its connections, its transaction and   *)
(* the requests it has not answered.                                       *)
Exit(i, status) ==
    /\ Becomes(i, [inst[i] EXCEPT !.phase = "down", !.tries = 1, !.todo = 1,
                                  !.pools = {}, !.listener = "none"])
    /\ req' = [r \in Request |->
                 IF r \in InFlight(i) THEN Ended(status) ELSE req[r]]

(* A statement that took effect, and whose reply may be lost.              *)
Returns(i, p) ==
    \/ Becomes(i, p) /\ UNCHANGED <<req, faults>>
    \/ Exit(i, "failure") /\ GoesWrong

-----------------------------------------------------------------------------
(* Connecting.                                                             *)

Start(i) ==
    /\ At(i, "down") /\ ~inst[i].told
    /\ Becomes(i, [inst[i] EXCEPT !.phase = "ping", !.pools = {"pgx"}])
    /\ UNCHANGED <<database, applied, req, faults>>

(* WaitForDB; the pause after a failed ping is time passing.               *)
(* Mutant: the loop runs once too often.                                   *)
PingOnceMore(i) ==
    /\ At(i, "ping")
    /\ \/ /\ database = "up"
          /\ Becomes(i, [inst[i] EXCEPT !.phase = "version", !.tries = 1])
          /\ UNCHANGED req
       \/ /\ database # "up" /\ inst[i].tries <= Retries
          /\ Becomes(i, [inst[i] EXCEPT !.tries = @ + 1])
          /\ UNCHANGED req
       \/ /\ database # "up" /\ inst[i].tries > Retries
          /\ Exit(i, "failure")
    /\ UNCHANGED <<database, applied, faults>>
Ping(i) ==
    /\ At(i, "ping")
    /\ \/ /\ database = "up"
          /\ Becomes(i, [inst[i] EXCEPT !.phase = "version", !.tries = 1])
          /\ UNCHANGED req
       \/ /\ database # "up" /\ inst[i].tries < Retries
          /\ Becomes(i, [inst[i] EXCEPT !.tries = @ + 1])
          /\ UNCHANGED req
       \/ /\ database # "up" /\ inst[i].tries = Retries
          /\ Exit(i, "failure")
    /\ UNCHANGED <<database, applied, faults>>

-----------------------------------------------------------------------------
(* Migrating.                                                              *)

(* EnsureDBVersion looks for the table, and then creates it.               *)
EnsureVersion(i) ==
    /\ At(i, "version") /\ database = "up"
    /\ Goes(i, IF applied = <<>> THEN "create" ELSE "list")
    /\ UNCHANGED <<database, applied, req, faults>>

CreateVersionTable(i) ==
    /\ At(i, "create") /\ database = "up"
    /\ \/ /\ applied = <<>>
          /\ applied' = << 0 >>
          /\ Returns(i, [inst[i] EXCEPT !.phase = "list"])
       \/ /\ applied # <<>>
          /\ Exit(i, "failure")
          /\ UNCHANGED <<applied, faults>>
    /\ UNCHANGED database

(* The version a process takes for the current one.                        *)
(* Mutant: that of the row added last.                                     *)
LatestRow == applied[Len(applied)]
(* Mutant: the number of rows, less the row of version 0.                  *)
RowCount == Len(applied) - 1
DBMaxVersion == CHOOSE v \in Recorded : \A w \in Recorded : w <= v

Missing(i) == {v \in 1..inst[i].build : v \notin Recorded /\ v < DBMaxVersion}

ListVersions(i) ==
    /\ At(i, "list") /\ database = "up"
    /\ IF Missing(i) = {}
       THEN Becomes(i, [inst[i] EXCEPT !.phase = "migrate", !.todo = DBMaxVersion + 1])
            /\ UNCHANGED req
       ELSE Exit(i, "failure")
    /\ UNCHANGED <<database, applied, faults>>

RunsToo(i, k) == \E j \in Instance \ {i} : At(j, "tx") /\ inst[j].todo = k

(* The statements of the next migration succeed, uncommitted.  While       *)
(* another process has run them, they wait, unless they may run twice.     *)
(* Mutant: every statement may run twice, and nothing waits.               *)
RunRegardless(i) ==
    /\ At(i, "migrate") /\ database = "up" /\ inst[i].todo <= inst[i].build
    /\ Goes(i, "tx")
    /\ UNCHANGED <<database, applied, req, faults>>
RunStatements(i) ==
    LET k == inst[i].todo IN
    /\ At(i, "migrate") /\ database = "up" /\ k <= inst[i].build
    /\ k \in Repeatable \/ (k \notin Recorded /\ ~RunsToo(i, k))
    /\ Goes(i, "tx")
    /\ UNCHANGED <<database, applied, req, faults>>

(* They find that another process's have been committed.                   *)
(* Mutant: an error of goose.Up is logged only.                            *)
ClashIgnored(i) ==
    /\ At(i, "migrate") /\ database = "up" /\ inst[i].todo <= inst[i].build
    /\ inst[i].todo \in Recorded
    /\ Goes(i, "wire")
    /\ UNCHANGED <<database, applied, req, faults>>
Clash(i) ==
    /\ At(i, "migrate") /\ database = "up" /\ inst[i].todo <= inst[i].build
    /\ inst[i].todo \in Recorded
    /\ Exit(i, "failure")
    /\ UNCHANGED <<database, applied, faults>>

CommitMigration(i) ==
    /\ At(i, "tx") /\ database = "up"
    /\ applied' = Append(applied, inst[i].todo)
    /\ Returns(i, [inst[i] EXCEPT !.phase = "migrate", !.todo = @ + 1])
    /\ UNCHANGED database

Migrated(i) ==
    /\ At(i, "migrate") /\ inst[i].todo > inst[i].build
    /\ Goes(i, "wire")
    /\ UNCHANGED <<database, applied, req, faults>>

(* The database cannot be reached, or a statement fails.                   *)
StartupFails(i) ==
    /\ inst[i].phase \in Migrating \cup {"wire"}
    /\ \/ database # "up" /\ UNCHANGED faults
       \/ GoesWrong
    /\ Exit(i, "failure")
    /\ UNCHANGED <<database, applied>>

-----------------------------------------------------------------------------
(* Serving.                                                                *)

(* A second pool for the repositories, the services and the router; then   *)
(* runServer starts the listener's goroutine.                              *)
Wire(i) ==
    /\ At(i, "wire") /\ database = "up"
    /\ Becomes(i, [inst[i] EXCEPT !.phase = "untrapped", !.pools = Pools])
    /\ UNCHANGED <<database, applied, req, faults>>

(* The goroutine listens before or after the signals are trapped.          *)
Listen(i) ==
    /\ inst[i].phase \in {"untrapped", "serving"} /\ inst[i].listener = "none"
    /\ \/ Becomes(i, [inst[i] EXCEPT !.listener = "open"]) /\ UNCHANGED faults
       \/ Becomes(i, [inst[i] EXCEPT !.listener = "failed"]) /\ GoesWrong
    /\ UNCHANGED <<database, applied, req>>

TrapSignals(i) ==
    /\ At(i, "untrapped")
    /\ Goes(i, "serving")
    /\ UNCHANGED <<database, applied, req, faults>>

ServerFails(i) ==
    /\ At(i, "serving") /\ inst[i].listener = "failed"
    /\ Exit(i, "failure")
    /\ UNCHANGED <<database, applied, faults>>

Accept(r, i) ==
    /\ req[r].at = "idle" /\ inst[i].listener = "open"
    /\ req' = [req EXCEPT ![r] = [at |-> "running", on |-> i]]
    /\ UNCHANGED <<database, applied, inst, faults>>

Answer(r) ==
    /\ req[r].at = "running"
    /\ req' = [req EXCEPT ![r] = Ended("answered")]
    /\ UNCHANGED <<database, applied, inst, faults>>

-----------------------------------------------------------------------------
(* Stopping.                                                               *)

(* The signal finds no handler yet, and ends the process.                  *)
Terminate(i) ==
    /\ inst[i].told /\ inst[i].phase \in Starting
    /\ Exit(i, "killed")
    /\ UNCHANGED <<database, applied, faults>>

(* srv.Shutdown closes the listener and waits for idle connections.        *)
(* Mutant: the deferred Cleanup runs on the signal.                        *)
BeginShutdownUnpooled(i) ==
    /\ At(i, "serving") /\ inst[i].told
    /\ Becomes(i, [inst[i] EXCEPT !.phase = "draining", !.listener = "closed",
                                  !.pools = {}])
    /\ UNCHANGED <<database, applied, req, faults>>
BeginShutdown(i) ==
    /\ At(i, "serving") /\ inst[i].told
    /\ Becomes(i, [inst[i] EXCEPT !.phase = "draining", !.listener = "closed"])
    /\ UNCHANGED <<database, applied, req, faults>>

Drained(i) ==
    /\ At(i, "draining") /\ InFlight(i) = {}
    /\ Goes(i, "cleanup")
    /\ UNCHANGED <<database, applied, req, faults>>

(* After thirty seconds Shutdown gives up, and os.Exit skips Cleanup.      *)
(* Mutant: Shutdown is given a context without a deadline.                 *)
WaitsForEver(i) ==
    /\ At(i, "draining") /\ InFlight(i) # {}
    /\ UNCHANGED vars
(* Mutant: runServer returns nil all the same.                             *)
TimesOutQuietly(i) ==
    /\ At(i, "draining") /\ InFlight(i) # {}
    /\ Exit(i, "success")
    /\ UNCHANGED <<database, applied, faults>>
TimesOut(i) ==
    /\ At(i, "draining") /\ InFlight(i) # {}
    /\ Exit(i, "failure")
    /\ UNCHANGED <<database, applied, faults>>

(* Cleanup closes both pools, and main returns.                            *)
Cleanup(i) ==
    /\ At(i, "cleanup")
    /\ Exit(i, "success")
    /\ UNCHANGED <<database, applied, faults>>

-----------------------------------------------------------------------------
(* The environment.                                                        *)

Kill(i) ==
    /\ inst[i].phase \in Alive /\ GoesWrong
    /\ Exit(i, "killed")
    /\ UNCHANGED <<database, applied>>

(* The operator stops a process, and may start its next build.             *)
Stop(i) ==
    /\ inst[i].phase \in Alive /\ ~inst[i].told
    /\ Becomes(i, [inst[i] EXCEPT !.told = TRUE])
    /\ UNCHANGED <<database, applied, req, faults>>

Deploy(i) ==
    /\ At(i, "down") /\ inst[i].told /\ inst[i].build < Last
    /\ Becomes(i, Down(inst[i].build + 1))
    /\ UNCHANGED <<database, applied, req, faults>>

DatabaseUp ==
    /\ database # "up"
    /\ database' = "up"
    /\ UNCHANGED <<applied, inst, req, faults>>

DatabaseDown ==
    /\ database = "up" /\ GoesWrong
    /\ database' = "unreachable"
    /\ UNCHANGED <<applied, inst, req>>

(* Every process has been stopped for good.                                *)
Retired ==
    /\ \A i \in Instance : At(i, "down") /\ inst[i].told /\ inst[i].build = Last
    /\ UNCHANGED vars

Step(i) ==
    \/ Start(i) \/ Ping(i)
    \/ EnsureVersion(i) \/ CreateVersionTable(i) \/ ListVersions(i)
    \/ RunStatements(i) \/ Clash(i) \/ CommitMigration(i) \/ Migrated(i)
    \/ Wire(i) \/ Listen(i) \/ TrapSignals(i) \/ ServerFails(i)
    \/ Terminate(i) \/ BeginShutdown(i) \/ Drained(i) \/ TimesOut(i) \/ Cleanup(i)

Next ==
    \/ \E i \in Instance : Step(i) \/ StartupFails(i) \/ Kill(i) \/ Stop(i) \/ Deploy(i)
    \/ \E r \in Request : Answer(r) \/ \E i \in Instance : Accept(r, i)
    \/ DatabaseUp \/ DatabaseDown \/ Retired

Spec == Init /\ [][Next]_vars

(* A process goes on, its supervisor restarts it, thirty seconds pass, and *)
(* the database comes back.  Nothing is assumed of clients or handlers.    *)
FairSpec == Spec /\ WF_vars(DatabaseUp) /\ \A i \in Instance : WF_vars(Step(i))

-----------------------------------------------------------------------------
(* Properties.                                                             *)

(* However many processes migrate at once, of whatever builds, the schema  *)
(* moves one version at a time, forward.                                   *)
Version == IF applied = <<>> THEN 0 ELSE DBMaxVersion
Schema == INSTANCE SchemaVersion WITH version <- Version
SchemaSpec == Schema!VersionSpec

(* A process that accepts requests has the schema its code was built for:  *)
(* the migrations it found done as well as those it ran were committed.    *)
ServesCurrentSchema ==
    \A i \in Instance :
        inst[i].listener = "open" => 1..inst[i].build \subseteq Recorded

(* A migration that cannot run twice has run once, although all processes  *)
(* decide what to run from a list that may be out of date.                 *)
MigratedOnce ==
    \A m, n \in DOMAIN applied :
        m # n /\ applied[m] = applied[n] => applied[m] \in Repeatable

(* A handler never finds a pool closed under it.                           *)
PoolsOutliveRequests ==
    \A i \in Instance : InFlight(i) # {} => inst[i].pools = Pools

(* A process that exits with success has answered all it accepted: what a  *)
(* stop cuts off is visible in the exit status.                            *)
GracefulStopCutsNothing ==
    \A r \in Request : req[r].at # "success"

(* A process that nobody stops serves, again and again, after finitely     *)
(* many faults: losing the race for a migration costs a restart only.      *)
ServesInTheEnd ==
    \A i \in Instance : []<>(inst[i].told \/ inst[i].listener = "open")

(* A process that is told to stop does so, whatever its handlers do.       *)
StopsInTheEnd ==
    \A i \in Instance : inst[i].told ~> At(i, "down")
=============================================================================

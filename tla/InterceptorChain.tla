---------------------------- MODULE InterceptorChain ----------------------------
(***************************************************************************)
(* Every RPC of the API on its way through the interceptors that router.go *)
(* chains, down to the handler and back.  An interceptor is code around a  *)
(* call of the next one: what it does before is an action on the way down, *)
(* what it does after an action on the way up.  A panic unwinds the same   *)
(* way, past everything that is not deferred.                              *)
(*                                                                         *)
(* The requests share a rate limiter and the Prometheus collectors; the    *)
(* rest is their own.                                                      *)
(***************************************************************************)
EXTENDS Integers, Sequences, FiniteSets

CONSTANTS
    Request,   \* the requests that may arrive
    Procedure, \* the RPC methods
    Public,    \* those that may be called without a token
    Rate,      \* tokens the limiter gains per tick of the clock
    Burst,     \* tokens it holds at most
    MaxTime,   \* bound: the clock stops here
    None       \* no value

ASSUME ProcedureAssumption == Public \subseteq Procedure
ASSUME RequestAssumption == IsFiniteSet(Request)
(* Configured with less than that, the chain has no limiter at all.        *)
ASSUME LimiterAssumption == Rate \in Nat \ {0} /\ Burst \in Nat \ {0}
ASSUME NoneAssumption ==
    None \notin Int \cup Procedure \cup {"response", "error", "refused", "panic"}

(* Outermost first.  NewMetricsInterceptor is three of them: a gauge and a *)
(* histogram updated by deferred calls, and a counter that is not.         *)
(* Mutant: recovery comes first, as cmd/server/README.md lists it.         *)
RecoveryFirst ==
    <<"recovery", "requestID", "tracing", "validation", "rateLimit",
      "logging", "auth", "gauge", "histogram", "counter">>
(* Mutant: the deferred calls in the other order.                          *)
GaugeInside ==
    <<"requestID", "tracing", "validation", "rateLimit", "recovery",
      "logging", "auth", "histogram", "gauge", "counter">>
Chain ==
    <<"requestID", "tracing", "validation", "rateLimit", "recovery",
      "logging", "auth", "gauge", "histogram", "counter">>

VARIABLES
    req,      \* where each request is, and what became of it
    limiter,  \* the token bucket: its tokens and when it last counted them
    active,   \* ActiveRequests, by procedure
    latency,  \* how many durations RequestDuration has observed
    counted,  \* RequestsTotal, over all codes
    now,      \* the clock
    admitted, \* history: how many requests the limiter let through
    late      \* history: how far its clock was set back in all

collectors == <<active, latency, counted>>
vars == <<req, limiter, collectors, now, admitted, late>>

(* "error" is what a handler's error comes with: a response that is a nil  *)
(* pointer in a non-nil interface.  "refused" comes with a nil interface.  *)
Outcome == {"response", "error", "refused", "panic"}

RequestState ==
    [dir: {"idle", "down", "up", "done"},
     at: 0..Len(Chain) + 1,          \* the interceptor; the handler is the last
     procedure: Procedure \cup {None},
     reading: Nat \cup {None},       \* the limiter's reading of the clock
     outcome: Outcome \cup {None},   \* what the call below returned
     handled: Outcome \cup {None},   \* history: what the handler returned
     span: {"none", "open", "ended"}]

Idle == [dir |-> "idle", at |-> 0, procedure |-> None, reading |-> None,
         outcome |-> None, handled |-> None, span |-> "none"]

TypeOK ==
    /\ req \in [Request -> RequestState]
    /\ limiter \in [tokens: 0..Burst, last: Nat]
    /\ active \in [Procedure -> Int]
    /\ latency \in [Procedure -> Nat] /\ counted \in [Procedure -> Nat]
    /\ now \in Nat /\ admitted \in Nat /\ late \in Nat

Init ==
    /\ req = [r \in Request |-> Idle]
    /\ limiter = [tokens |-> Burst, last |-> 0]
    /\ active = [p \in Procedure |-> 0]
    /\ latency = [p \in Procedure |-> 0] /\ counted = [p \in Procedure |-> 0]
    /\ now = 0 /\ admitted = 0 /\ late = 0

-----------------------------------------------------------------------------
(* Moving through the chain.                                               *)

At(r, layer, dir) ==
    req[r].dir = dir /\ req[r].at \in DOMAIN Chain /\ Chain[req[r].at] = layer
Becomes(r, q) == req' = [req EXCEPT ![r] = q]
Descend(q) == [q EXCEPT !.at = @ + 1]
Ascend(q) == [q EXCEPT !.at = @ - 1]
Refuse(q) == [q EXCEPT !.dir = "up", !.at = @ - 1, !.outcome = "refused"]
Panics(r) == req[r].outcome = "panic"

Quiet == UNCHANGED <<limiter, collectors, now, admitted, late>>
Unlimited == UNCHANGED <<limiter, now, admitted, late>>

Arrive(r) ==
    /\ req[r].dir = "idle"
    /\ \E p \in Procedure :
          Becomes(r, [Idle EXCEPT !.dir = "down", !.at = 1, !.procedure = p])
    /\ Quiet

(* The method does its work, or its client has gone already.               *)
Handle(r) ==
    /\ req[r].dir = "down" /\ req[r].at = Len(Chain) + 1
    /\ \E o \in Outcome :
          Becomes(r, [Ascend(req[r]) EXCEPT !.dir = "up", !.outcome = o, !.handled = o])
    /\ Quiet

(* Back in net/http, which recovers a panic by closing the connection.     *)
Serve(r) ==
    /\ req[r].dir = "up" /\ req[r].at = 0
    /\ Becomes(r, [req[r] EXCEPT !.dir = "done"])
    /\ Quiet

(* Interceptors with nothing to do before, or after, the call.  The ones   *)
(* that give the request an id and a log line change no state here.        *)
Pass(r) ==
    /\ \/ \E layer \in {"requestID", "recovery", "logging", "histogram", "counter"} :
             At(r, layer, "down") /\ Becomes(r, Descend(req[r]))
       \/ \E layer \in {"validation", "rateLimit", "logging", "auth"} :
             At(r, layer, "up") /\ Becomes(r, Ascend(req[r]))
    /\ Quiet

-----------------------------------------------------------------------------
(* The interceptors.                                                       *)

(* It sets a header of the response unless that is nil.  A nil *Response   *)
(* in an interface is not, and its Header() panics.                        *)
RequestIDAfter(r) ==
    /\ At(r, "requestID", "up")
    /\ Becomes(r, IF req[r].outcome = "error"
                  THEN [Ascend(req[r]) EXCEPT !.outcome = "panic"]
                  ELSE Ascend(req[r]))
    /\ Quiet

TracingBefore(r) ==
    /\ At(r, "tracing", "down")
    /\ Becomes(r, [Descend(req[r]) EXCEPT !.span = "open"])
    /\ Quiet

(* span.End() is not deferred.                                             *)
TracingAfter(r) ==
    /\ At(r, "tracing", "up")
    /\ Becomes(r, IF Panics(r) THEN Ascend(req[r])
                  ELSE [Ascend(req[r]) EXCEPT !.span = "ended"])
    /\ Quiet

(* The message satisfies its schema, or not.                               *)
ValidationBefore(r) ==
    /\ At(r, "validation", "down")
    /\ Becomes(r, Descend(req[r])) \/ Becomes(r, Refuse(req[r]))
    /\ Quiet

(* Allow reads the clock, and then takes the limiter's lock.               *)
RateLimitReads(r) ==
    /\ At(r, "rateLimit", "down") /\ req[r].reading = None
    /\ Becomes(r, [req[r] EXCEPT !.reading = now])
    /\ Quiet

Decided(q) == [q EXCEPT !.reading = None]
Least(a, b) == IF a <= b THEN a ELSE b
(* A reading older than the last one gains nothing.                        *)
Available(t) ==
    Least(Burst, limiter.tokens + Rate * (t - Least(limiter.last, t)))
(* Mutant: a token may be taken from an empty bucket.                      *)
AllowsOneMore(t) == Available(t) >= 0
Allows(t) == Available(t) >= 1

(* But it sets the limiter's time back when it takes a token, and the time *)
(* in between is credited once more.                                       *)
(* Mutant: the time up to t is credited with every token that is taken.    *)
RateLimitRecredits(r) ==
    /\ At(r, "rateLimit", "down") /\ req[r].reading # None
    /\ LET t == req[r].reading IN
       \/ /\ Allows(t)
          /\ limiter' = [limiter EXCEPT !.tokens = Available(t) - 1]
          /\ admitted' = admitted + 1
          /\ late' = late + limiter.last - Least(limiter.last, t)
          /\ Becomes(r, Descend(Decided(req[r])))
       \/ /\ ~Allows(t)
          /\ Becomes(r, Refuse(Decided(req[r])))
          /\ UNCHANGED <<limiter, admitted, late>>
    /\ UNCHANGED <<collectors, now>>
RateLimitDecides(r) ==
    /\ At(r, "rateLimit", "down") /\ req[r].reading # None
    /\ LET t == req[r].reading IN
       \/ /\ Allows(t)
          /\ limiter' = [tokens |-> Available(t) - 1, last |-> t]
          /\ admitted' = admitted + 1
          /\ late' = late + limiter.last - Least(limiter.last, t)
          /\ Becomes(r, Descend(Decided(req[r])))
       \/ /\ ~Allows(t)
          /\ Becomes(r, Refuse(Decided(req[r])))
          /\ UNCHANGED <<limiter, admitted, late>>
    /\ UNCHANGED <<collectors, now>>

(* A recovered panic is answered with CodeInternal and no response.        *)
RecoveryAfter(r) ==
    /\ At(r, "recovery", "up")
    /\ Becomes(r, IF Panics(r) THEN [Ascend(req[r]) EXCEPT !.outcome = "refused"]
                  ELSE Ascend(req[r]))
    /\ Quiet

(* The Authorization header: none, one that does not verify, or a JWT with *)
(* its expiry.  A public procedure may do without, not with a bad one.     *)
Header == {"none", "bad"} \X {0} \cup {"jwt"} \X (0..MaxTime + 1)
Authorized(header, procedure) ==
    \/ header[1] = "none" /\ procedure \in Public
    \/ header[1] = "jwt" /\ now < header[2]

AuthBefore(r) ==
    /\ At(r, "auth", "down")
    /\ \E header \in Header :
          \/ /\ Authorized(header, req[r].procedure)
             /\ Becomes(r, Descend(req[r]))
          \/ /\ ~Authorized(header, req[r].procedure)
             /\ Becomes(r, Refuse(req[r]))
    /\ Quiet

Bump(collector, r, n) == [collector EXCEPT ![req[r].procedure] = @ + n]

GaugeBefore(r) ==
    /\ At(r, "gauge", "down")
    /\ active' = Bump(active, r, 1)
    /\ Becomes(r, Descend(req[r]))
    /\ UNCHANGED <<latency, counted>> /\ Unlimited

(* Mutant: the gauge is decremented by a plain statement.                  *)
GaugeAfterReturn(r) ==
    /\ At(r, "gauge", "up")
    /\ active' = IF Panics(r) THEN active ELSE Bump(active, r, -1)
    /\ Becomes(r, Ascend(req[r]))
    /\ UNCHANGED <<latency, counted>> /\ Unlimited
GaugeAfter(r) ==
    /\ At(r, "gauge", "up")
    /\ active' = Bump(active, r, -1)
    /\ Becomes(r, Ascend(req[r]))
    /\ UNCHANGED <<latency, counted>> /\ Unlimited

HistogramAfter(r) ==
    /\ At(r, "histogram", "up")
    /\ latency' = Bump(latency, r, 1)
    /\ Becomes(r, Ascend(req[r]))
    /\ UNCHANGED <<active, counted>> /\ Unlimited

CounterAfter(r) ==
    /\ At(r, "counter", "up")
    /\ counted' = IF Panics(r) THEN counted ELSE Bump(counted, r, 1)
    /\ Becomes(r, Ascend(req[r]))
    /\ UNCHANGED <<active, latency>> /\ Unlimited

-----------------------------------------------------------------------------
Tick ==
    /\ now < MaxTime
    /\ now' = now + 1
    /\ UNCHANGED <<req, limiter, collectors, admitted, late>>

(* Every request that arrived has been served.                             *)
Quiescent ==
    /\ \A r \in Request : req[r].dir \in {"idle", "done"}
    /\ UNCHANGED vars

Step(r) ==
    \/ Arrive(r) \/ Handle(r) \/ Serve(r) \/ Pass(r)
    \/ RequestIDAfter(r)
    \/ TracingBefore(r) \/ TracingAfter(r)
    \/ ValidationBefore(r)
    \/ RateLimitReads(r) \/ RateLimitDecides(r)
    \/ RecoveryAfter(r)
    \/ AuthBefore(r)
    \/ GaugeBefore(r) \/ GaugeAfter(r) \/ HistogramAfter(r) \/ CounterAfter(r)

Next == (\E r \in Request : Step(r)) \/ Tick \/ Quiescent

Spec == Init /\ [][Next]_vars

-----------------------------------------------------------------------------
(* Properties.                                                             *)

(* Is the request in the call an interceptor makes?                        *)
Within(r, layer) ==
    \E i \in DOMAIN Chain :
        /\ Chain[i] = layer
        /\ \/ req[r].dir = "down" /\ req[r].at > i
           \/ req[r].dir = "up" /\ req[r].at >= i

(* No span stays open: TracingInterceptor ends it by a plain statement, so *)
(* it relies on no panic coming back through it, neither the handler's nor *)
(* the one the request-id interceptor raises itself.                       *)
SpansEnd ==
    \A r \in Request : req[r].dir = "done" => req[r].span = "ended"

(* The gauge of active requests is exact whenever it is scraped, and back  *)
(* at zero when there are none, panics and refusals included.              *)
ActiveExact ==
    \A p \in Procedure :
        active[p] = Cardinality({r \in Request : /\ req[r].procedure = p
                                                  /\ Within(r, "gauge")})

(* The three collectors agree at every moment: a request that the counter, *)
(* or a panic past it, accounts for is in the histogram or still active,   *)
(* and there is none in the histogram that neither accounts for.           *)
CollectorsAgree ==
    \A p \in Procedure :
        LET panicked == {r \in Request : /\ req[r].procedure = p
                                         /\ req[r].handled = "panic"
                                         /\ ~Within(r, "counter")}
            ended == counted[p] + Cardinality(panicked) IN
        latency[p] <= ended /\ ended <= latency[p] + active[p]

(* The limiter lets through its burst, and what it gains with time; what   *)
(* it gains beyond that is the time its clock was set back by requests     *)
(* that took the lock in another order than they read the clock.           *)
LimiterBound ==
    admitted <= Burst + Rate * (now + late)

-----------------------------------------------------------------------------
(* What the documentation says, and the code does not do.                  *)

(* cmd/server/README.md, on the chain: "1. Recovery (panic handling)".     *)
(* RequestIDInterceptor is outside of it, and panics on a handler's error. *)
PanicsRecovered ==
    \A r \in Request : req[r].dir = "done" => req[r].outcome # "panic"
=============================================================================
